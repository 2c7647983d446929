------------------------------ MODULE Registry ------------------------------
(***************************************************************************)
(* The machine registry (internal/registry): one YAML file per machine,    *)
(* updated by every `polyflow index` and `polyflow fleet sync` process     *)
(* with a load, a change in memory and a save, serialised by a sibling     *)
(* lock file (withLock).                                                   *)
(*                                                                         *)
(* The lock file carries no owner: it is created with O_EXCL, removed by   *)
(* whoever leaves withLock, stolen by a waiter that finds it older than    *)
(* lockStaleAfter, and ignored by a waiter that has waited lockWait.  Time *)
(* is counted in ticks.  An update is one of registry.Sync ("sync", which  *)
(* sets the path of a service) and RecordFleetMembership ("record", which  *)
(* adds a fleet to a service).                                             *)
(***************************************************************************)
EXTENDS Integers, FiniteSets

CONSTANTS
    Procs,        \* processes of the machine that update the registry
    Services,     \* service names up to case: Lookup uses EqualFold
    Fleets,       \* fleet names
    None,         \* the LocalPath of a bare entry; no update; nobody
    LockWait,     \* lockWait, in ticks
    StaleAfter,   \* lockStaleAfter, in ticks
    MaxHold,      \* ticks a prompt process takes from its lock to its unlock
    Prompt,       \* whether processes run promptly; if not, any step may take long
    Updates,      \* bound on the updates started
    Crashes,      \* bound on the processes killed
    IOErrors,     \* bound on the reads and writes of the registry that fail
    OldLocks      \* whether a lock file of another user may be there at the start

ASSUME RegistryAssumption ==
    /\ LockWait \in Nat /\ StaleAfter \in Nat \ {0} /\ MaxHold \in Nat
    /\ Prompt \in BOOLEAN
    /\ Updates \in Nat /\ Crashes \in Nat /\ IOErrors \in Nat
    /\ OldLocks \in BOOLEAN
    /\ None \notin Procs

VARIABLES
    home,     \* the directory of the registry: missing, writable or another user's
    file,     \* what registry.yml holds; no entry is known before the first save
    lock,     \* the lock file: whether it is there, its age and, for the properties, its creator
    pc,       \* where each process is in withLock
    op,       \* the update each process was called with
    view,     \* the registry each process has loaded
    mine,     \* whether the process created a lock and will remove one on return
    waited,   \* ticks since the process entered withLock
    held,     \* ticks since the process entered its critical section
    left,     \* the bounds: updates, crashes and I/O errors still to come
    overlap   \* history: the lock has stopped excluding (LockIgnored, LockTaken)

vars == <<home, file, lock, pc, op, view, mine, waited, held, left, overlap>>

Homes == {"missing", "writable", "readonly"}
Entry == [known : BOOLEAN, path : Procs \cup {None}, fleets : SUBSET Fleets]
Reg   == [Services -> Entry]
Empty == [s \in Services |-> [known |-> FALSE, path |-> None, fleets |-> {}]]

\* A process indexes its own workspace, so the path it registers is its name.
SyncBy(p) == [kind : {"sync"}, svc : Services, path : {p}, fleets : {{}}]
Record    == [kind : {"record"}, svc : Services, path : {None}, fleets : {{f} : f \in Fleets}]
Update    == Record \cup UNION {SyncBy(p) : p \in Procs}

NoLock  == [there |-> FALSE, by |-> None, age |-> 0]
OldLock == [there |-> TRUE, by |-> None, age |-> StaleAfter]
Lock    == [there : BOOLEAN, by : Procs \cup {None}, age : 0..StaleAfter]

Steps    == {"idle", "open", "stat", "steal", "deadline", "sleep", "load", "save", "unlock", "dead"}
Waiting(p)  == pc[p] \in {"open", "stat", "steal", "deadline", "sleep"}
Critical(p) == pc[p] \in {"load", "save"}
Holding(p)  == pc[p] \in {"load", "save", "unlock"}

(***************************************************************************)
(* What Sync and RecordFleetMembership do to a loaded registry.            *)
(***************************************************************************)
Apply(r, u) ==
    [r EXCEPT ![u.svc] = [known  |-> TRUE,
                          path   |-> IF u.kind = "sync" THEN u.path ELSE @.path,
                          fleets |-> @.fleets \cup u.fleets]]

Init ==
    /\ home \in Homes
    /\ file = Empty
    /\ \/ lock = NoLock
       \/ OldLocks /\ home = "readonly" /\ lock = OldLock
    /\ pc = [p \in Procs |-> "idle"]
    /\ op = [p \in Procs |-> None]
    /\ view = [p \in Procs |-> Empty]
    /\ mine = [p \in Procs |-> FALSE]
    /\ waited = [p \in Procs |-> 0]
    /\ held = [p \in Procs |-> 0]
    /\ left = [updates |-> Updates, crashes |-> Crashes, errors |-> IOErrors]
    /\ overlap = FALSE

Goto(p, step) == pc' = [pc EXCEPT ![p] = step]

\* The locals of a call of withLock and of its function are gone once it is over.
Forget(p) ==
    /\ op' = [op EXCEPT ![p] = None]
    /\ view' = [view EXCEPT ![p] = Empty]
    /\ waited' = [waited EXCEPT ![p] = 0]

\* The process is called with an update and enters withLock.
Start(p) ==
    /\ pc[p] = "idle"
    /\ left.updates > 0
    /\ left' = [left EXCEPT !.updates = @ - 1]
    /\ \E u \in Record \cup SyncBy(p) : op' = [op EXCEPT ![p] = u]
    /\ Goto(p, "open")
    /\ UNCHANGED <<home, file, lock, view, mine, waited, held, overlap>>

\* Mutant: the lock file is created without O_EXCL.
OpenCreates_Shared(p) ==
    /\ pc[p] = "open"
    /\ home = "writable"
    /\ lock' = [there |-> TRUE, by |-> p, age |-> 0]
    /\ mine' = [mine EXCEPT ![p] = TRUE]
    /\ Goto(p, "load")
    /\ UNCHANGED <<home, file, op, view, waited, held, left, overlap>>

\* OpenFile(O_CREATE|O_EXCL) creates the lock file.
OpenCreates(p) ==
    /\ pc[p] = "open"
    /\ home = "writable"
    /\ ~lock.there
    /\ lock' = [there |-> TRUE, by |-> p, age |-> 0]
    /\ mine' = [mine EXCEPT ![p] = TRUE]
    /\ Goto(p, "load")
    /\ UNCHANGED <<home, file, op, view, waited, held, left, overlap>>

\* The lock file is there: look at its age.
OpenExists(p) ==
    /\ pc[p] = "open"
    /\ lock.there
    /\ Goto(p, "stat")
    /\ UNCHANGED <<home, file, lock, op, view, mine, waited, held, left, overlap>>

\* Any other error, a missing or a foreign directory: withLock returns it.
OpenFails(p) ==
    /\ pc[p] = "open"
    /\ home # "writable"
    /\ ~lock.there
    /\ Forget(p)
    /\ Goto(p, "idle")
    /\ UNCHANGED <<home, file, lock, mine, held, left, overlap>>

\* Stat finds an old lock file, a fresh one, or none.
StatLock(p) ==
    /\ pc[p] = "stat"
    /\ Goto(p, IF lock.there /\ lock.age = StaleAfter THEN "steal" ELSE "deadline")
    /\ UNCHANGED <<home, file, lock, op, view, mine, waited, held, left, overlap>>

\* Mutant: another path is removed.
RemoveLock_Elsewhere == UNCHANGED lock

\* os.Remove of the lock file, its error ignored: it needs the directory.
RemoveLock == lock' = IF home = "readonly" THEN lock ELSE NoLock

\* p removes a lock file that another process created and still relies on.
LockTaken(p) == lock.there /\ \E q \in Procs \ {p} : lock.by = q /\ mine[q]

\* The lock file was old when looked at: remove the one there now and try again.
Steal(p) ==
    /\ pc[p] = "steal"
    /\ RemoveLock
    /\ overlap' = (overlap \/ LockTaken(p))
    /\ Goto(p, "open")
    /\ UNCHANGED <<home, file, op, view, mine, waited, held, left>>

\* Before the deadline: sleep and try again.
KeepWaiting(p) ==
    /\ pc[p] = "deadline"
    /\ waited[p] <= LockWait
    /\ Goto(p, "sleep")
    /\ UNCHANGED <<home, file, lock, op, view, mine, waited, held, left, overlap>>

\* Mutant: the deadline is one poll away.
LockIgnored_Early(p) ==
    /\ pc[p] = "deadline"
    /\ waited[p] > 0
    /\ overlap' = TRUE
    /\ Goto(p, "load")
    /\ UNCHANGED <<home, file, lock, op, view, mine, waited, held, left>>

\* After the deadline: go on without the lock.
LockIgnored(p) ==
    /\ pc[p] = "deadline"
    /\ waited[p] > LockWait
    /\ overlap' = TRUE
    /\ Goto(p, "load")
    /\ UNCHANGED <<home, file, lock, op, view, mine, waited, held, left>>

\* Load reads the registry; a missing file is an empty registry.
Load(p) ==
    /\ pc[p] = "load"
    /\ view' = [view EXCEPT ![p] = file]
    /\ Goto(p, "save")
    /\ UNCHANGED <<home, file, lock, op, mine, waited, held, left, overlap>>

\* The function of withLock returns: to the deferred Remove, if there is one.
Return(p) ==
    /\ Forget(p)
    /\ Goto(p, IF mine[p] THEN "unlock" ELSE "idle")
    /\ held' = IF mine[p] THEN held ELSE [held EXCEPT ![p] = 0]

\* Save writes the changed copy to a file of its own and renames it into place.
Save(p) ==
    /\ pc[p] = "save"
    /\ file' = Apply(view[p], op[p])
    /\ Return(p)
    /\ UNCHANGED <<home, lock, mine, left, overlap>>

\* Load or Save fails; the registry keeps what it holds.
Fail(p) ==
    /\ Critical(p)
    /\ left.errors > 0
    /\ left' = [left EXCEPT !.errors = @ - 1]
    /\ Return(p)
    /\ UNCHANGED <<home, file, lock, mine, overlap>>

\* The deferred Remove: whatever lock file is there goes.
Unlock(p) ==
    /\ pc[p] = "unlock"
    /\ RemoveLock
    /\ overlap' = (overlap \/ LockTaken(p))
    /\ mine' = [mine EXCEPT ![p] = FALSE]
    /\ held' = [held EXCEPT ![p] = 0]
    /\ Goto(p, "idle")
    /\ UNCHANGED <<home, file, op, view, waited, left>>

\* The process is killed; its deferred Remove does not run.
Crash(p) ==
    /\ Waiting(p) \/ Holding(p)
    /\ left.crashes > 0
    /\ left' = [left EXCEPT !.crashes = @ - 1]
    /\ mine' = [mine EXCEPT ![p] = FALSE]
    /\ held' = [held EXCEPT ![p] = 0]
    /\ Forget(p)
    /\ Goto(p, "dead")
    /\ UNCHANGED <<home, file, lock, overlap>>

\* Another command, or the user, creates the directory of the registry.
MakeHome ==
    /\ home = "missing"
    /\ home' = "writable"
    /\ UNCHANGED <<file, lock, pc, op, view, mine, waited, held, left, overlap>>

\* A prompt process sleeps only where the code sleeps, and holds for MaxHold ticks at most.
MayDelay(p) ==
    \/ ~Prompt
    \/ ~Waiting(p) /\ ~Holding(p)
    \/ pc[p] = "sleep"
    \/ Holding(p) /\ held[p] < MaxHold

Up(n, top) == IF n < top THEN n + 1 ELSE n

\* Time passes: the lock file and the waits age, and whoever slept tries again.
Tick ==
    /\ \A p \in Procs : MayDelay(p)
    /\ \E p \in Procs : Waiting(p) \/ Holding(p)
    /\ lock' = IF lock.there THEN [lock EXCEPT !.age = Up(@, StaleAfter)] ELSE lock
    /\ waited' = [p \in Procs |-> IF Waiting(p) THEN Up(waited[p], LockWait + 1) ELSE waited[p]]
    /\ held' = [p \in Procs |-> IF Holding(p) THEN Up(held[p], MaxHold) ELSE held[p]]
    /\ pc' = [p \in Procs |-> IF pc[p] = "sleep" THEN "open" ELSE pc[p]]
    /\ UNCHANGED <<home, file, op, view, mine, left, overlap>>

Step(p) ==
    \/ OpenCreates(p) \/ OpenExists(p) \/ OpenFails(p)
    \/ StatLock(p) \/ Steal(p) \/ KeepWaiting(p) \/ LockIgnored(p)
    \/ Load(p) \/ Save(p) \/ Fail(p) \/ Unlock(p)

Next ==
    \/ \E p \in Procs : Start(p) \/ Step(p) \/ Crash(p)
    \/ MakeHome
    \/ Tick

Spec == Init /\ [][Next]_vars

(***************************************************************************)
(* A running process keeps running, and time keeps passing; nobody has to  *)
(* start an update, be killed or create the directory.                     *)
(***************************************************************************)
FairSpec == Spec /\ WF_vars(Tick) /\ \A p \in Procs : WF_vars(Step(p))

TypeOK ==
    /\ home \in Homes
    /\ file \in Reg
    /\ lock \in Lock
    /\ pc \in [Procs -> Steps]
    /\ op \in [Procs -> Update \cup {None}]
    /\ view \in [Procs -> Reg]
    /\ mine \in [Procs -> BOOLEAN]
    /\ waited \in [Procs -> 0..(LockWait + 1)]
    /\ held \in [Procs -> 0..MaxHold]
    /\ left \in [updates : 0..Updates, crashes : 0..Crashes, errors : 0..IOErrors]
    /\ overlap \in BOOLEAN

(***************************************************************************)
(* As long as nobody went on without the lock or removed one in use, every *)
(* save is one update applied to the registry as it stands: no process     *)
(* saves another's update away, whatever the delays, failures and kills.   *)
(***************************************************************************)
SerialUpdates ==
    [][~overlap => \E u \in Update : file' = Apply(file, u)]_file

(***************************************************************************)
(* Prompt processes stay serialised until one of them is killed: without a *)
(* kill no wait reaches lockWait and no lock file grows old.               *)
(***************************************************************************)
ExclusiveUntilKill == overlap => left.crashes < Crashes

(***************************************************************************)
(* No update waits forever, not even on the lock of a killed process.      *)
(***************************************************************************)
UpdateEnds == \A p \in Procs : (pc[p] = "open") ~> (pc[p] \in {"idle", "dead"})

=============================================================================
