--------------------------- MODULE RegistryProofs ---------------------------
(***************************************************************************)
(* Proofs about Registry, for any processes, services, fleets and bounds:  *)
(* what the lock protects whatever the delays, and, for prompt processes,  *)
(* how long lockWait has to be for the lock to exclude at all.             *)
(***************************************************************************)
EXTENDS Registry, FiniteSetTheorems, TLAPS

(***************************************************************************)
(* What the lock protects while it excludes: a process that owns a lock    *)
(* owns the one on disk, every process in the critical section owns one,   *)
(* and a process about to save has loaded what the file still holds.       *)
(***************************************************************************)
OwnsLock(p)  == mine[p] => lock.there /\ lock.by = p /\ Holding(p)
InsideOwns(p) == Critical(p) => mine[p]
ViewFresh(p) == pc[p] = "save" => view[p] = file

LockInv ==
    /\ \A p \in Procs : Waiting(p) \/ Critical(p) => op[p] \in Update
    /\ ~overlap => \A p \in Procs : OwnsLock(p) /\ InsideOwns(p) /\ ViewFresh(p)

IInv == TypeOK /\ LockInv

LEMMA EmptyReg == Empty \in Reg
BY DEF Empty, Reg, Entry

LEMMA ApplyReg ==
    ASSUME NEW r \in Reg, NEW u \in Update PROVE Apply(r, u) \in Reg
<1>1. /\ u.svc \in Services /\ u.path \in Procs \cup {None} /\ u.fleets \in SUBSET Fleets
  BY DEF Update, Record, SyncBy
<1>2. r[u.svc].path \in Procs \cup {None} /\ r[u.svc].fleets \in SUBSET Fleets
  BY <1>1 DEF Reg, Entry
<1> QED BY <1>1, <1>2 DEF Apply, Reg, Entry

LEMMA OwnUpdate == ASSUME NEW p \in Procs PROVE Record \cup SyncBy(p) \subseteq Update
<1> DEFINE All == {SyncBy(q) : q \in Procs}
<1>1. SyncBy(p) \in All
  OBVIOUS
<1>2. \A x : x \in SyncBy(p) => x \in UNION All
  BY <1>1, Zenon
<1> QED BY <1>2, Zenon DEF Update

LEMMA InitType == Init => TypeOK
<1> SUFFICES ASSUME Init PROVE TypeOK
  OBVIOUS
<1>1. lock \in Lock
  <2>1. NoLock \in Lock /\ OldLock \in Lock
    BY RegistryAssumption DEF Lock, NoLock, OldLock
  <2>2. lock = NoLock \/ lock = OldLock
    BY Zenon DEF Init
  <2> QED BY <2>1, <2>2
<1>2. /\ waited \in [Procs -> 0..(LockWait + 1)] /\ held \in [Procs -> 0..MaxHold]
      /\ left \in [updates : 0..Updates, crashes : 0..Crashes, errors : 0..IOErrors]
  BY RegistryAssumption DEF Init
<1>3. home \in Homes /\ pc \in [Procs -> Steps]
  BY DEF Init, Steps
<1>4. file \in Reg /\ view \in [Procs -> Reg] /\ op \in [Procs -> Update \cup {None}]
  BY EmptyReg DEF Init
<1> QED BY <1>1, <1>2, <1>3, <1>4 DEF Init, TypeOK

LEMMA InitInv == Init => IInv
BY InitType
DEF Init, IInv, LockInv, OwnsLock, InsideOwns, ViewFresh, Waiting, Critical, Holding

\* Every step keeps the types.
LEMMA StepType ==
    ASSUME TypeOK, LockInv, [Next]_vars PROVE TypeOK'
<1> USE DEF TypeOK
<1>1. ASSUME NEW p \in Procs, Start(p) PROVE TypeOK'
  <2>1. op' \in [Procs -> Update \cup {None}]
    BY <1>1, OwnUpdate DEF Start
  <2>2. left' \in [updates : 0..Updates, crashes : 0..Crashes, errors : 0..IOErrors]
    BY <1>1, RegistryAssumption DEF Start
  <2> QED BY <1>1, <2>1, <2>2 DEF Start, Goto, Steps
<1>2. ASSUME NEW p \in Procs, OpenCreates(p) PROVE TypeOK'
  BY <1>2, RegistryAssumption DEF OpenCreates, Goto, Steps, Lock
<1>3. ASSUME NEW p \in Procs, OpenExists(p) PROVE TypeOK'
  BY <1>3 DEF OpenExists, Goto, Steps
<1>4. ASSUME NEW p \in Procs, OpenFails(p) PROVE TypeOK'
  BY <1>4, RegistryAssumption, EmptyReg DEF OpenFails, Forget, Goto, Steps
<1>5. ASSUME NEW p \in Procs, StatLock(p) PROVE TypeOK'
  BY <1>5 DEF StatLock, Goto, Steps
<1>6. ASSUME NEW p \in Procs, Steal(p) PROVE TypeOK'
  BY <1>6, RegistryAssumption DEF Steal, RemoveLock, NoLock, Lock, LockTaken, Goto, Steps
<1>7. ASSUME NEW p \in Procs, KeepWaiting(p) PROVE TypeOK'
  BY <1>7 DEF KeepWaiting, Goto, Steps
<1>8. ASSUME NEW p \in Procs, LockIgnored(p) PROVE TypeOK'
  BY <1>8 DEF LockIgnored, Goto, Steps
<1>9. ASSUME NEW p \in Procs, Load(p) PROVE TypeOK'
  BY <1>9 DEF Load, Goto, Steps
<1>10. ASSUME NEW p \in Procs, Save(p) PROVE TypeOK'
  <2>1. op[p] \in Update
    BY <1>10 DEF Save, LockInv, Waiting, Critical
  <2>2. file' \in Reg
    BY <1>10, <2>1, ApplyReg DEF Save
  <2> QED
    BY <1>10, <2>2, EmptyReg, RegistryAssumption DEF Save, Return, Forget, Goto, Steps
<1>11. ASSUME NEW p \in Procs, Fail(p) PROVE TypeOK'
  BY <1>11, EmptyReg, RegistryAssumption DEF Fail, Return, Forget, Goto, Steps
<1>12. ASSUME NEW p \in Procs, Unlock(p) PROVE TypeOK'
  BY <1>12, RegistryAssumption DEF Unlock, RemoveLock, NoLock, Lock, LockTaken, Goto, Steps
<1>13. ASSUME NEW p \in Procs, Crash(p) PROVE TypeOK'
  BY <1>13, EmptyReg, RegistryAssumption DEF Crash, Forget, Goto, Steps
<1>14. CASE MakeHome
  BY <1>14 DEF MakeHome, Homes
<1>15. CASE Tick
  <2>1. lock' \in Lock
    BY <1>15, RegistryAssumption DEF Tick, Lock, Up
  <2>2. waited' \in [Procs -> 0..(LockWait + 1)] /\ held' \in [Procs -> 0..MaxHold]
    BY <1>15, RegistryAssumption DEF Tick, Up
  <2>3. pc' \in [Procs -> Steps]
    BY <1>15 DEF Tick, Steps
  <2> QED BY <1>15, <2>1, <2>2, <2>3 DEF Tick
<1>16. CASE UNCHANGED vars
  BY <1>16 DEF vars
<1> QED
  BY <1>1, <1>2, <1>3, <1>4, <1>5, <1>6, <1>7, <1>8, <1>9, <1>10, <1>11, <1>12, <1>13,
     <1>14, <1>15, <1>16 DEF Next, Step

\* Every step keeps what the lock protects.
LEMMA StepLock ==
    ASSUME TypeOK, LockInv, [Next]_vars PROVE LockInv'
<1> USE DEF TypeOK, LockInv, OwnsLock, InsideOwns, ViewFresh, Waiting, Critical, Holding
<1>1. ASSUME NEW p \in Procs, Start(p) PROVE LockInv'
  BY <1>1, OwnUpdate DEF Start, Goto
<1>2. ASSUME NEW p \in Procs, OpenCreates(p) PROVE LockInv'
  BY <1>2 DEF OpenCreates, Goto
<1>3. ASSUME NEW p \in Procs, OpenExists(p) PROVE LockInv'
  BY <1>3 DEF OpenExists, Goto
<1>4. ASSUME NEW p \in Procs, OpenFails(p) PROVE LockInv'
  BY <1>4 DEF OpenFails, Forget, Goto
<1>5. ASSUME NEW p \in Procs, StatLock(p) PROVE LockInv'
  BY <1>5 DEF StatLock, Goto
<1>6. ASSUME NEW p \in Procs, Steal(p) PROVE LockInv'
  BY <1>6 DEF Steal, RemoveLock, NoLock, LockTaken, Goto
<1>7. ASSUME NEW p \in Procs, KeepWaiting(p) PROVE LockInv'
  BY <1>7 DEF KeepWaiting, Goto
<1>8. ASSUME NEW p \in Procs, LockIgnored(p) PROVE LockInv'
  BY <1>8 DEF LockIgnored, Goto
<1>9. ASSUME NEW p \in Procs, Load(p) PROVE LockInv'
  BY <1>9 DEF Load, Goto
<1>10. ASSUME NEW p \in Procs, Save(p) PROVE LockInv'
  BY <1>10 DEF Save, Return, Forget, Goto
<1>11. ASSUME NEW p \in Procs, Fail(p) PROVE LockInv'
  BY <1>11 DEF Fail, Return, Forget, Goto
<1>12. ASSUME NEW p \in Procs, Unlock(p) PROVE LockInv'
  BY <1>12 DEF Unlock, RemoveLock, NoLock, LockTaken, Goto
<1>13. ASSUME NEW p \in Procs, Crash(p) PROVE LockInv'
  BY <1>13 DEF Crash, Forget, Goto
<1>14. CASE MakeHome
  BY <1>14 DEF MakeHome
<1>15. CASE Tick
  BY <1>15 DEF Tick, Lock
<1>16. CASE UNCHANGED vars
  BY <1>16 DEF vars
<1> QED
  BY <1>1, <1>2, <1>3, <1>4, <1>5, <1>6, <1>7, <1>8, <1>9, <1>10, <1>11, <1>12, <1>13,
     <1>14, <1>15, <1>16 DEF Next, Step

(***************************************************************************)
(* The inductive invariant: types, and what the lock of withLock protects  *)
(* as long as nobody ignored or took it.                                   *)
(***************************************************************************)
THEOREM RegistryInvariant == Spec => []IInv
<1>1. IInv /\ [Next]_vars => IInv'
  BY StepType, StepLock DEF IInv
<1> QED BY InitInv, <1>1, PTL DEF Spec

\* Type correctness of the registry, its lock file and the processes.
THEOREM RegistryTypes == Spec => []TypeOK
<1>1. IInv => TypeOK
  BY DEF IInv
<1> QED BY RegistryInvariant, <1>1, PTL

(***************************************************************************)
(* withLock serialises the load-change-save cycles of Sync and             *)
(* RecordFleetMembership for any number of processes, however slow, failing *)
(* or killed, until somebody goes on without the lock or removes one that  *)
(* is in use.                                                              *)
(***************************************************************************)
THEOREM UpdatesAreSerial == Spec => SerialUpdates
<1>1. ASSUME IInv, [Next]_vars
      PROVE  [~overlap => \E u \in Update : file' = Apply(file, u)]_file
  <2>1. SUFFICES ASSUME file' # file, ~overlap
                 PROVE  \E u \in Update : file' = Apply(file, u)
    OBVIOUS
  <2>2. PICK p \in Procs : Save(p)
    BY <1>1, <2>1 DEF Next, Step, vars, Start, OpenCreates, OpenExists, OpenFails, StatLock,
       Steal, KeepWaiting, LockIgnored, Load, Fail, Unlock, Crash, MakeHome, Tick
  <2>3. view[p] = file /\ op[p] \in Update
    BY <1>1, <2>1, <2>2 DEF IInv, LockInv, ViewFresh, Save, Waiting, Critical
  <2> QED BY <2>2, <2>3 DEF Save
<1> QED BY RegistryInvariant, <1>1, PTL DEF Spec, SerialUpdates

(***************************************************************************)
(* When the lock is meant to do: processes run promptly, no lock file is   *)
(* left over from another user, no holder is slow enough for its lock to   *)
(* look stale, and lockWait is long enough for a waiter to outlast all the *)
(* other updates one after the other, each of them in the way for MaxHold  *)
(* ticks and the poll in which it is seen last.                            *)
(***************************************************************************)
LongEnough ==
    /\ Prompt /\ ~OldLocks
    /\ MaxHold < StaleAfter
    /\ (Updates - 1) * (MaxHold + 1) <= LockWait + 1

\* The processes inside withLock, and how many updates are over.
Active == {p \in Procs : Waiting(p) \/ Holding(p)}
Over   == Updates - left.updates - Cardinality(Active)

\* Has looked at the lock file since the last tick.
Polled(p) == IF pc[p] \in {"stat", "deadline", "sleep"} THEN 1 ELSE 0

\* A wait is no longer than the holds of the updates that are over, and of the holder.
WaitBound(p) ==
    Waiting(p) => IF lock.there THEN waited[p] <= Over * (MaxHold + 1) + held[lock.by]
                  ELSE waited[p] + Polled(p) <= Over * (MaxHold + 1)

\* The lock file is the one of the process inside, and as old as its stay.
LockIsHeld ==
    lock.there => /\ home = "writable" /\ lock.by \in Procs /\ mine[lock.by]
                  /\ lock.age = held[lock.by]

Calm ==
    /\ ~overlap
    /\ LockIsHeld
    /\ \A p \in Procs :
          /\ Holding(p) => mine[p]
          /\ ~Holding(p) => held[p] = 0
          /\ pc[p] \in {"idle", "unlock"} => waited[p] = 0
          /\ pc[p] # "steal"
          /\ WaitBound(p)
    /\ IsFiniteSet(Active) /\ Over >= 0

CalmInv == left.crashes = Crashes => Calm

\* The updates that are over, when the set of active processes stays, grows or shrinks.
LEMMA OverNumber == ASSUME TypeOK, IsFiniteSet(Active) PROVE Over \in Int /\ Cardinality(Active) \in Nat
  BY FS_CardinalityType, RegistryAssumption DEF Over, TypeOK

LEMMA OverStays ==
    ASSUME Active' = Active, left'.updates = left.updates
    PROVE  Over' = Over /\ (IsFiniteSet(Active) => IsFiniteSet(Active)')
  BY DEF Over

LEMMA OverStart ==
    ASSUME TypeOK, IsFiniteSet(Active), NEW p \in Procs, p \notin Active,
           Active' = Active \cup {p}, left'.updates = left.updates - 1
    PROVE  Over' = Over /\ IsFiniteSet(Active)'
<1>1. IsFiniteSet(Active)' /\ Cardinality(Active)' = Cardinality(Active) + 1
  BY FS_AddElement
<1> QED BY <1>1, OverNumber, RegistryAssumption DEF Over, TypeOK

LEMMA OverEnds ==
    ASSUME TypeOK, IsFiniteSet(Active), NEW p \in Active,
           Active' = Active \ {p}, left'.updates = left.updates
    PROVE  Over' = Over + 1 /\ IsFiniteSet(Active)'
<1>1. IsFiniteSet(Active)' /\ Cardinality(Active)' = Cardinality(Active) - 1
  BY FS_RemoveElement
<1> QED BY <1>1, OverNumber, RegistryAssumption DEF Over, TypeOK

\* One more update over is one more hold, and the poll that sees it last.
LEMMA OneHold ==
    ASSUME NEW n \in Int PROVE (n + 1) * (MaxHold + 1) = n * (MaxHold + 1) + MaxHold + 1
  BY RegistryAssumption

LEMMA Monotone ==
    ASSUME NEW m \in Int, NEW n \in Int, m <= n PROVE m * (MaxHold + 1) <= n * (MaxHold + 1)
  BY RegistryAssumption

\* Nobody waits as long as lockWait.
LEMMA InTime ==
    ASSUME TypeOK, LockInv, Calm, LongEnough, NEW p \in Procs, pc[p] = "deadline"
    PROVE  waited[p] <= LockWait
<1>1. p \in Active /\ waited[p] \in Nat
  BY DEF Active, Waiting, TypeOK
<1>2. Over \in Int /\ Cardinality(Active) \in Nat /\ IsFiniteSet(Active)
  BY OverNumber DEF Calm
<1>3. CASE lock.there
  <2>1. lock.by \in Procs /\ Holding(lock.by) /\ held[lock.by] \in 0..MaxHold
    BY <1>3 DEF Calm, LockIsHeld, LockInv, OwnsLock, TypeOK
  <2>2. lock.by \in Active /\ lock.by # p
    BY <2>1 DEF Active, Holding
  <2>3. Cardinality({p, lock.by}) = 2
    <3>1. IsFiniteSet({p}) /\ Cardinality({p}) = 1
      BY FS_Singleton, Zenon
    <3>2. {p, lock.by} = {p} \cup {lock.by} /\ lock.by \notin {p}
      BY <2>2
    <3> QED BY <3>1, <3>2, FS_AddElement
  <2>4. Cardinality(Active) >= 2
    <3>1. {p, lock.by} \subseteq Active
      BY <1>1, <2>2
    <3> QED BY <1>2, <2>3, <3>1, FS_Subset
  <2>5. Over + 1 <= Updates - 1
    BY <1>2, <2>4, RegistryAssumption DEF Over, TypeOK
  <2>6. (Over + 1) * (MaxHold + 1) <= (Updates - 1) * (MaxHold + 1)
    <3>1. Over + 1 \in Int /\ Updates - 1 \in Int
      BY <1>2, RegistryAssumption
    <3> QED BY <2>5, <3>1, Monotone
  <2>7. waited[p] <= Over * (MaxHold + 1) + held[lock.by]
    BY <1>3 DEF Calm, WaitBound, Waiting
  <2>8. Over * (MaxHold + 1) \in Int /\ (Updates - 1) * (MaxHold + 1) \in Int
    BY <1>2, RegistryAssumption
  <2>9. (Over + 1) * (MaxHold + 1) = Over * (MaxHold + 1) + MaxHold + 1
    BY <1>2, OneHold
  <2>10. Over * (MaxHold + 1) + MaxHold + 1 <= LockWait + 1
    BY <2>6, <2>8, <2>9, RegistryAssumption DEF LongEnough
  <2> QED BY <1>1, <2>1, <2>7, <2>8, <2>10, RegistryAssumption
<1>4. CASE ~lock.there
  <2>1. Cardinality(Active) >= 1
    <3>1. {p} \subseteq Active
      BY <1>1
    <3>2. Cardinality({p}) = 1
      BY FS_Singleton, Zenon
    <3> QED BY <1>2, <3>1, <3>2, FS_Subset
  <2>2. Over <= Updates - 1
    BY <1>2, <2>1, RegistryAssumption DEF Over, TypeOK
  <2>3. Over * (MaxHold + 1) <= (Updates - 1) * (MaxHold + 1)
    BY <1>2, <2>2, Monotone, RegistryAssumption
  <2>4. waited[p] + 1 <= Over * (MaxHold + 1)
    BY <1>4 DEF Calm, WaitBound, Waiting, Polled
  <2>5. Over * (MaxHold + 1) \in Int /\ (Updates - 1) * (MaxHold + 1) \in Int
    BY <1>2, RegistryAssumption
  <2> QED BY <1>1, <2>3, <2>4, <2>5, RegistryAssumption DEF LongEnough
<1> QED BY <1>3, <1>4

LEMMA InitCalm == Init /\ LongEnough => CalmInv
<1> SUFFICES ASSUME Init, LongEnough PROVE Calm
  BY DEF CalmInv
<1>1. Active = {}
  BY DEF Init, Active, Waiting, Holding
<1>2. IsFiniteSet(Active) /\ Over = 0
  BY <1>1, FS_EmptySet, RegistryAssumption DEF Init, Over
<1>3. ~lock.there
  BY DEF Init, LongEnough, NoLock
<1> QED BY <1>2, <1>3 DEF Init, Calm, LockIsHeld, WaitBound, Waiting, Holding

\* A step of one process inside withLock that leaves the lock alone.
LEMMA OneMoves ==
    ASSUME TypeOK, Calm, NEW p \in Active, NEW x \in Steps \ {"idle", "dead", "steal"},
           pc' = [pc EXCEPT ![p] = x],
           UNCHANGED <<home, lock, mine, held, overlap>>, left'.updates = left.updates,
           \A q \in Procs : q # p => waited'[q] = waited[q],
           Holding(p) <=> x \in {"load", "save", "unlock"}, x = "unlock" => waited'[p] = 0,
           WaitBound(p)'
    PROVE  Calm'
<1>1. p \in Procs /\ pc'[p] = x /\ \A q \in Procs : q # p => pc'[q] = pc[q]
  BY DEF Active, TypeOK
<1>2. Active' = Active
  <2>1. p \in Active'
    BY <1>1 DEF Active, Waiting, Holding, Steps
  <2>2. \A q \in Procs : q # p => (q \in Active' <=> q \in Active)
    BY <1>1 DEF Active, Waiting, Holding
  <2>3. Active \subseteq Procs /\ Active' \subseteq Procs
    BY DEF Active
  <2> QED BY <2>1, <2>2, <2>3
<1>3. Over' = Over /\ IsFiniteSet(Active)' /\ Over >= 0
  BY <1>2, OverStays DEF Calm
<1>4. LockIsHeld' /\ ~overlap'
  BY DEF Calm, LockIsHeld
<1>5. \A q \in Procs : q # p => WaitBound(q)'
  BY <1>1, <1>3 DEF Calm, WaitBound, Waiting, Polled
<1>6. \A q \in Procs : /\ Holding(q)' => mine'[q]
                       /\ ~Holding(q)' => held'[q] = 0
                       /\ pc'[q] \in {"idle", "unlock"} => waited'[q] = 0
                       /\ pc'[q] # "steal"
  <2> SUFFICES ASSUME NEW q \in Procs PROVE /\ Holding(q)' => mine'[q]
                                            /\ ~Holding(q)' => held'[q] = 0
                                            /\ pc'[q] \in {"idle", "unlock"} => waited'[q] = 0
                                            /\ pc'[q] # "steal"
    OBVIOUS
  <2>1. CASE q = p
    BY <1>1, <2>1 DEF Calm, Holding
  <2>2. CASE q # p
    BY <1>1, <2>2 DEF Calm, Holding
  <2> QED BY <2>1, <2>2
<1> QED BY <1>3, <1>4, <1>5, <1>6 DEF Calm

\* Without a kill every step keeps the lock held, the waits bounded and the updates apart.
LEMMA StepCalm ==
    ASSUME IInv, IInv', Calm, LongEnough, left.crashes = Crashes, left'.crashes = Crashes,
           [Next]_vars
    PROVE  Calm'
<1>0. /\ IsFiniteSet(Active) /\ Over \in Int /\ Over >= 0 /\ MaxHold \in Nat
      /\ Over * (MaxHold + 1) \in Int /\ TypeOK /\ TypeOK'
  BY OverNumber, RegistryAssumption DEF Calm, IInv
<1>1. ASSUME NEW p \in Procs, Start(p) PROVE Calm'
  <2>1. p \notin Active /\ Active' = Active \cup {p} /\ left'.updates = left.updates - 1
    BY <1>0, <1>1 DEF Start, Goto, Active, Waiting, Holding, TypeOK
  <2>2. Over' = Over /\ IsFiniteSet(Active)'
    BY <1>0, <2>1, OverStart
  <2>3. UNCHANGED <<home, lock, mine, waited, held, overlap>>
    BY <1>1 DEF Start
  <2>4. LockIsHeld'
    BY <2>3 DEF Calm, LockIsHeld
  <2>5. \A q \in Procs : q # p => pc'[q] = pc[q]
    BY <1>0, <1>1 DEF Start, Goto, TypeOK
  <2>6. pc[p] = "idle" /\ pc'[p] = "open"
    BY <1>0, <1>1 DEF Start, Goto, TypeOK
  <2>7. \A q \in Procs : /\ Holding(q)' => mine'[q]
                         /\ ~Holding(q)' => held'[q] = 0
                         /\ pc'[q] \in {"idle", "unlock"} => waited'[q] = 0
                         /\ pc'[q] # "steal"
    BY <2>3, <2>5, <2>6 DEF Calm, Holding
  <2>8. WaitBound(p)'
    <3>1. waited[p] = 0
      BY <2>6 DEF Calm
    <3>2. lock.there => held[lock.by] \in Nat
      BY <1>0 DEF Calm, LockIsHeld, TypeOK
    <3>3. Over * (MaxHold + 1) >= 0
      BY <1>0
    <3> QED BY <1>0, <2>2, <2>3, <2>6, <3>1, <3>2, <3>3 DEF WaitBound, Waiting, Polled
  <2>9. \A q \in Procs : q # p => WaitBound(q)'
    BY <2>2, <2>3, <2>5 DEF Calm, WaitBound, Waiting, Polled
  <2> QED BY <1>0, <2>2, <2>3, <2>4, <2>7, <2>8, <2>9 DEF Calm
<1>2. ASSUME NEW p \in Procs, OpenCreates(p) PROVE Calm'
  <2>1. /\ ~lock.there /\ pc[p] = "open" /\ pc'[p] = "load" /\ mine'[p] /\ home = "writable"
        /\ lock' = [there |-> TRUE, by |-> p, age |-> 0]
        /\ \A q \in Procs : q # p => pc'[q] = pc[q] /\ mine'[q] = mine[q]
        /\ UNCHANGED <<home, waited, held, left, overlap>>
    BY <1>0, <1>2 DEF OpenCreates, Goto, TypeOK
  <2>2. Active' = Active
    BY <2>1 DEF Active, Waiting, Holding
  <2>3. Over' = Over /\ IsFiniteSet(Active)'
    BY <1>0, <2>1, <2>2, OverStays
  <2>4. held[p] = 0
    BY <2>1 DEF Calm, Holding
  <2>5. LockIsHeld'
    BY <2>1, <2>4 DEF LockIsHeld
  <2>6. \A q \in Procs : WaitBound(q)'
    <3> SUFFICES ASSUME NEW q \in Procs, q # p, Waiting(q) PROVE WaitBound(q)'
      BY <2>1 DEF WaitBound, Waiting
    <3>1. waited[q] + Polled(q) <= Over * (MaxHold + 1) /\ waited[q] \in Nat /\ Polled(q) \in Nat
      BY <1>0, <2>1 DEF Calm, WaitBound, Polled, TypeOK
    <3>2. waited[q] <= Over * (MaxHold + 1) + 0
      BY <1>0, <3>1
    <3> QED BY <2>1, <2>3, <2>4, <3>2 DEF WaitBound
  <2>7. \A q \in Procs : /\ Holding(q)' => mine'[q]
                         /\ ~Holding(q)' => held'[q] = 0
                         /\ pc'[q] \in {"idle", "unlock"} => waited'[q] = 0
                         /\ pc'[q] # "steal"
    BY <2>1 DEF Calm, Holding
  <2> QED BY <1>0, <2>1, <2>3, <2>5, <2>6, <2>7 DEF Calm
<1>3. ASSUME NEW p \in Procs, OpenExists(p) PROVE Calm'
  <2>1. /\ pc' = [pc EXCEPT ![p] = "stat"] /\ p \in Active /\ ~Holding(p) /\ lock.there
        /\ Waiting(p) /\ pc'[p] = "stat" /\ UNCHANGED <<home, lock, mine, held, waited, left, overlap>>
    BY <1>0, <1>3 DEF OpenExists, Goto, Active, Waiting, Holding, TypeOK
  <2>2. Active' = Active
    BY <2>1 DEF Active, Waiting, Holding, TypeOK
  <2>3. WaitBound(p)'
    BY <2>1, <2>2 DEF Calm, WaitBound, Over
  <2> QED BY <1>0, <2>1, <2>3, OneMoves DEF Steps
<1>4. ASSUME NEW p \in Procs, OpenFails(p) PROVE Calm'
  <2>1. /\ pc[p] = "open" /\ pc'[p] = "idle" /\ waited'[p] = 0 /\ p \in Active /\ ~lock.there
        /\ \A q \in Procs : q # p => pc'[q] = pc[q] /\ waited'[q] = waited[q]
        /\ UNCHANGED <<home, lock, mine, held, left, overlap>>
    BY <1>0, <1>4 DEF OpenFails, Forget, Goto, Active, Waiting, TypeOK
  <2>2. Active' = Active \ {p}
    BY <2>1 DEF Active, Waiting, Holding
  <2>3. Over' = Over + 1 /\ IsFiniteSet(Active)'
    BY <1>0, <2>1, <2>2, OverEnds
  <2>4. Over' * (MaxHold + 1) = Over * (MaxHold + 1) + MaxHold + 1
    BY <1>0, <2>3, OneHold
  <2>5. \A q \in Procs : WaitBound(q)'
    <3> SUFFICES ASSUME NEW q \in Procs, q # p, Waiting(q) PROVE WaitBound(q)'
      BY <2>1 DEF WaitBound, Waiting
    <3>1. waited[q] + Polled(q) <= Over * (MaxHold + 1) /\ waited[q] \in Nat /\ Polled(q) \in Nat
      BY <1>0, <2>1 DEF Calm, WaitBound, Polled, TypeOK
    <3>2. waited'[q] = waited[q] /\ Polled(q)' = Polled(q) /\ ~lock'.there
      BY <2>1 DEF Polled
    <3>3. waited[q] + Polled(q) <= Over * (MaxHold + 1) + MaxHold + 1
      BY <1>0, <3>1
    <3> QED BY <2>4, <3>2, <3>3 DEF WaitBound
  <2>6. \A q \in Procs : /\ Holding(q)' => mine'[q]
                         /\ ~Holding(q)' => held'[q] = 0
                         /\ pc'[q] \in {"idle", "unlock"} => waited'[q] = 0
                         /\ pc'[q] # "steal"
    BY <2>1 DEF Calm, Holding
  <2> QED BY <1>0, <2>1, <2>3, <2>5, <2>6 DEF Calm, LockIsHeld
<1>5. ASSUME NEW p \in Procs, StatLock(p) PROVE Calm'
  <2>1. lock.there => lock.age # StaleAfter
    <3> SUFFICES ASSUME lock.there PROVE lock.age # StaleAfter
      OBVIOUS
    <3>1. lock.age \in 0..MaxHold
      BY <1>0 DEF Calm, LockIsHeld, TypeOK
    <3> QED BY <3>1, RegistryAssumption DEF LongEnough
  <2>2. /\ pc' = [pc EXCEPT ![p] = "deadline"] /\ p \in Active /\ ~Holding(p) /\ pc[p] = "stat"
        /\ pc'[p] = "deadline" /\ UNCHANGED <<home, lock, mine, held, waited, left, overlap>>
    BY <1>0, <1>5, <2>1 DEF StatLock, Goto, Active, Waiting, Holding, TypeOK
  <2>3. Active' = Active
    BY <2>2 DEF Active, Waiting, Holding, TypeOK
  <2>4. WaitBound(p)'
    BY <2>2, <2>3 DEF Calm, WaitBound, Waiting, Polled, Over
  <2> QED BY <1>0, <2>2, <2>4, OneMoves DEF Steps
<1>6. ASSUME NEW p \in Procs, Steal(p) PROVE Calm'
  BY <1>6 DEF Steal, Calm
<1>7. ASSUME NEW p \in Procs, KeepWaiting(p) PROVE Calm'
  <2>1. /\ pc' = [pc EXCEPT ![p] = "sleep"] /\ p \in Active /\ ~Holding(p) /\ pc[p] = "deadline"
        /\ pc'[p] = "sleep" /\ UNCHANGED <<home, lock, mine, held, waited, left, overlap>>
    BY <1>0, <1>7 DEF KeepWaiting, Goto, Active, Waiting, Holding, TypeOK
  <2>2. Active' = Active
    BY <2>1 DEF Active, Waiting, Holding, TypeOK
  <2>3. WaitBound(p)'
    BY <2>1, <2>2 DEF Calm, WaitBound, Waiting, Polled, Over
  <2> QED BY <1>0, <2>1, <2>3, OneMoves DEF Steps
<1>8. ASSUME NEW p \in Procs, LockIgnored(p) PROVE Calm'
  <2>1. waited[p] <= LockWait /\ waited[p] \in Nat
    BY <1>0, <1>8, InTime DEF LockIgnored, IInv, TypeOK
  <2> QED BY <1>8, <2>1, RegistryAssumption DEF LockIgnored
<1>9. ASSUME NEW p \in Procs, Load(p) PROVE Calm'
  <2>1. /\ pc' = [pc EXCEPT ![p] = "save"] /\ p \in Active /\ Holding(p) /\ pc'[p] = "save"
        /\ UNCHANGED <<home, lock, mine, held, waited, left, overlap>>
    BY <1>0, <1>9 DEF Load, Goto, Active, Holding, TypeOK
  <2>2. WaitBound(p)'
    BY <2>1 DEF WaitBound, Waiting
  <2> QED BY <1>0, <2>1, <2>2, OneMoves DEF Steps
<1>10. ASSUME NEW p \in Procs, Critical(p), Return(p), left'.updates = left.updates,
              UNCHANGED <<home, lock, mine, overlap>>
       PROVE  Calm'
  <2>1. mine[p] /\ Holding(p) /\ p \in Active
    BY <1>10 DEF Calm, Critical, Holding, Active
  <2>2. /\ pc' = [pc EXCEPT ![p] = "unlock"] /\ held' = held /\ pc'[p] = "unlock"
        /\ waited'[p] = 0 /\ \A q \in Procs : q # p => waited'[q] = waited[q]
    BY <1>0, <1>10, <2>1 DEF Return, Forget, Goto, TypeOK
  <2>3. WaitBound(p)'
    BY <2>2 DEF WaitBound, Waiting
  <2> QED BY <1>0, <1>10, <2>1, <2>2, <2>3, OneMoves DEF Steps
<1>11. ASSUME NEW p \in Procs, Unlock(p) PROVE Calm'
  <2>1. pc[p] = "unlock" /\ mine[p] /\ lock.there /\ lock.by = p /\ home = "writable"
    BY <1>11 DEF Unlock, Calm, LockIsHeld, Holding, IInv, LockInv, OwnsLock
  <2>2. /\ pc'[p] = "idle" /\ held'[p] = 0 /\ ~mine'[p] /\ ~lock'.there /\ ~overlap' /\ p \in Active
        /\ \A q \in Procs : q # p => pc'[q] = pc[q] /\ mine'[q] = mine[q] /\ held'[q] = held[q]
        /\ UNCHANGED <<home, waited, left>>
    BY <1>0, <1>11, <2>1 DEF Unlock, Goto, RemoveLock, NoLock, LockTaken, TypeOK, Calm, Active, Holding
  <2>3. waited[p] = 0
    BY <2>1 DEF Calm
  <2>4. Active' = Active \ {p}
    BY <2>1, <2>2 DEF Active, Waiting, Holding
  <2>5. Over' = Over + 1 /\ IsFiniteSet(Active)'
    BY <1>0, <2>2, <2>4, OverEnds
  <2>6. Over' * (MaxHold + 1) = Over * (MaxHold + 1) + MaxHold + 1
    BY <1>0, <2>5, OneHold
  <2>7. \A q \in Procs : WaitBound(q)'
    <3> SUFFICES ASSUME NEW q \in Procs, q # p, Waiting(q) PROVE WaitBound(q)'
      BY <2>2 DEF WaitBound, Waiting
    <3>1. /\ waited[q] <= Over * (MaxHold + 1) + held[p]
          /\ waited[q] \in Nat /\ held[p] \in 0..MaxHold /\ Polled(q) \in 0..1
      BY <1>0, <2>1 DEF Calm, WaitBound, Polled, TypeOK
    <3>2. waited'[q] = waited[q] /\ Polled(q)' = Polled(q)
      BY <2>2 DEF Polled
    <3>3. waited[q] + Polled(q) <= Over * (MaxHold + 1) + MaxHold + 1
      BY <1>0, <3>1
    <3> QED BY <2>2, <2>6, <3>2, <3>3 DEF WaitBound
  <2>8. \A q \in Procs : /\ Holding(q)' => mine'[q]
                         /\ ~Holding(q)' => held'[q] = 0
                         /\ pc'[q] \in {"idle", "unlock"} => waited'[q] = 0
                         /\ pc'[q] # "steal"
    BY <2>2, <2>3 DEF Calm, Holding
  <2> QED BY <1>0, <2>2, <2>5, <2>7, <2>8 DEF Calm, LockIsHeld
<1>12. ASSUME NEW p \in Procs, Crash(p) PROVE Calm'
  BY <1>0, <1>12, RegistryAssumption DEF Crash, TypeOK
<1>13. CASE MakeHome
  <2>1. /\ home = "missing" /\ Active' = Active /\ left' = left
        /\ UNCHANGED <<lock, pc, mine, waited, held, overlap>>
    BY <1>13 DEF MakeHome, Active, Waiting, Holding
  <2>2. ~lock.there
    BY <2>1 DEF Calm, LockIsHeld
  <2> QED BY <1>0, <2>1, <2>2, OverStays DEF Calm, LockIsHeld, WaitBound, Waiting, Holding, Polled
<1>14. CASE Tick
  <2>1. \A p \in Procs : /\ Waiting(p) => pc[p] = "sleep" /\ pc'[p] = "open"
                         /\ ~Waiting(p) => pc'[p] = pc[p] /\ waited'[p] = waited[p]
                         /\ Holding(p) => held'[p] = held[p] + 1
                         /\ ~Holding(p) => held'[p] = held[p]
    BY <1>0, <1>14, RegistryAssumption
    DEF Tick, MayDelay, LongEnough, Up, TypeOK, Waiting, Holding
  <2>2. \A p \in Procs : Waiting(p) => waited'[p] <= waited[p] + 1
    BY <1>0, <1>14, RegistryAssumption DEF Tick, Up, TypeOK
  <2>3. UNCHANGED <<home, mine, left, overlap>> /\ lock'.there = lock.there /\ lock'.by = lock.by
    BY <1>0, <1>14 DEF Tick, TypeOK, Lock
  <2>4. Active' = Active
    BY <2>1 DEF Active, Waiting, Holding
  <2>5. Over' = Over /\ IsFiniteSet(Active)'
    BY <1>0, <2>3, <2>4, OverStays
  <2>6. lock.there => lock.by \in Procs /\ Holding(lock.by) /\ held[lock.by] \in Nat
    BY <1>0 DEF Calm, LockIsHeld, IInv, LockInv, OwnsLock, TypeOK
  <2>7. LockIsHeld'
    <3> SUFFICES ASSUME lock.there PROVE LockIsHeld'
      BY <2>3 DEF LockIsHeld
    <3>1. held'[lock.by] = held[lock.by] + 1 /\ lock.age = held[lock.by]
      BY <2>1, <2>6 DEF Calm, LockIsHeld
    <3>2. held'[lock.by] \in 0..MaxHold
      BY <1>0, <2>6 DEF TypeOK
    <3>3. lock'.age = lock.age + 1
      BY <1>0, <1>14, <2>6, <3>1, <3>2, RegistryAssumption DEF Tick, Up, LongEnough, TypeOK, Lock
    <3> QED BY <2>3, <3>1, <3>3 DEF Calm, LockIsHeld
  <2>8. \A p \in Procs : WaitBound(p)'
    <3> SUFFICES ASSUME NEW p \in Procs, Waiting(p) PROVE WaitBound(p)'
      BY <2>1 DEF WaitBound, Waiting
    <3>1. waited[p] \in Nat /\ waited'[p] \in Nat /\ waited'[p] <= waited[p] + 1
      BY <1>0, <2>2 DEF TypeOK
    <3>2. Polled(p) = 1 /\ Polled(p)' = 0
      BY <2>1 DEF Polled
    <3>3. CASE lock.there
      <4>1. waited[p] <= Over * (MaxHold + 1) + held[lock.by]
        BY <3>3 DEF Calm, WaitBound
      <4>2. waited'[p] <= Over * (MaxHold + 1) + (held[lock.by] + 1)
        BY <1>0, <2>6, <3>1, <3>3, <4>1
      <4> QED BY <2>1, <2>3, <2>5, <2>6, <3>3, <4>2 DEF WaitBound
    <3>4. CASE ~lock.there
      <4>1. waited[p] + 1 <= Over * (MaxHold + 1)
        BY <3>2, <3>4 DEF Calm, WaitBound
      <4>2. waited'[p] + 0 <= Over * (MaxHold + 1)
        BY <1>0, <3>1, <4>1
      <4> QED BY <2>3, <2>5, <3>2, <3>4, <4>2 DEF WaitBound
    <3> QED BY <3>3, <3>4
  <2>9. \A p \in Procs : /\ Holding(p)' => mine'[p]
                         /\ ~Holding(p)' => held'[p] = 0
                         /\ pc'[p] \in {"idle", "unlock"} => waited'[p] = 0
                         /\ pc'[p] # "steal"
    BY <2>1, <2>3 DEF Calm, Holding, Waiting
  <2> QED BY <1>0, <2>3, <2>5, <2>7, <2>8, <2>9 DEF Calm
<1>15. CASE UNCHANGED vars
  <2>1. Active' = Active /\ left' = left
    BY <1>15 DEF vars, Active, Waiting, Holding
  <2> QED BY <1>0, <1>15, <2>1, OverStays
          DEF vars, Calm, LockIsHeld, WaitBound, Waiting, Holding, Polled
<1>16. ASSUME NEW p \in Procs, Save(p) \/ Fail(p) PROVE Calm'
  BY <1>0, <1>10, <1>16 DEF Save, Fail, Critical, TypeOK
<1> QED
  BY <1>1, <1>2, <1>3, <1>4, <1>5, <1>6, <1>7, <1>8, <1>9, <1>11, <1>12, <1>13, <1>14, <1>15,
     <1>16 DEF Next, Step

(***************************************************************************)
(* Under LongEnough the lock of withLock excludes until a process is       *)
(* killed, for any number of processes: no wait reaches lockWait and no    *)
(* lock in use looks stale.                                                *)
(***************************************************************************)
THEOREM ExclusiveWithoutKills ==
    ASSUME LongEnough PROVE Spec => []ExclusiveUntilKill
<1>1. Init => CalmInv
  BY InitCalm
<1>2. IInv /\ IInv' /\ CalmInv /\ [Next]_vars => CalmInv'
  <2> SUFFICES ASSUME IInv, IInv', CalmInv, [Next]_vars, left'.crashes = Crashes PROVE Calm'
    BY DEF CalmInv
  <2>1. left.crashes = Crashes
    BY RegistryAssumption DEF IInv, TypeOK, Next, Step, vars, Start, OpenCreates, OpenExists,
       OpenFails, StatLock, Steal, KeepWaiting, LockIgnored, Load, Save, Fail, Unlock, Crash,
       MakeHome, Tick
  <2> QED BY <2>1, StepCalm DEF CalmInv
<1>3. IInv /\ CalmInv => ExclusiveUntilKill
  BY RegistryAssumption DEF IInv, TypeOK, CalmInv, Calm, ExclusiveUntilKill
<1> QED BY RegistryInvariant, <1>1, <1>2, <1>3, PTL DEF Spec

(***************************************************************************)
(* So no update of Sync or RecordFleetMembership is lost: until a process  *)
(* is killed, every save is one update applied to the registry as it       *)
(* stands.                                                                 *)
(***************************************************************************)
THEOREM NoUpdateLostWithoutKills ==
    ASSUME LongEnough
    PROVE  Spec => [][left.crashes = Crashes => \E u \in Update : file' = Apply(file, u)]_file
<1>1. TypeOK /\ ExclusiveUntilKill /\ [~overlap => \E u \in Update : file' = Apply(file, u)]_file
        => [left.crashes = Crashes => \E u \in Update : file' = Apply(file, u)]_file
  BY RegistryAssumption DEF ExclusiveUntilKill, TypeOK
<1> QED BY RegistryTypes, UpdatesAreSerial, ExclusiveWithoutKills, <1>1, PTL DEF SerialUpdates

=============================================================================
