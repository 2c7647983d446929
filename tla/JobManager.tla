----------------------------- MODULE JobManager -----------------------------
(***************************************************************************)
(* jobs.Manager (internal/jobs/manager.go): the background jobs (index,    *)
(* eval, reconcile, init) `polyflow serve` runs for the UI.  Start, Get,   *)
(* List and Cancel are called by HTTP handlers; every accepted job has a   *)
(* goroutine of its own (Manager.run).  They share, under m.mu, the map of *)
(* running jobs, and, without it, the jobs table of ops.db and the SSE     *)
(* broadcast channel.                                                      *)
(*                                                                         *)
(* A job has two threads here: the handler that started it (caller), which *)
(* claims the slot, writes the first row, spawns the goroutine and returns *)
(* a copy of the record, and the goroutine (pc).  A step is the code       *)
(* between two points where another thread can act.                        *)
(***************************************************************************)
EXTENDS Naturals, Sequences, FiniteSets

CONSTANTS
  Kind,       \* the job kinds
  IndexKind,  \* the kind that excludes every other
  Job,        \* job IDs: newJobID never repeats one
  Total,      \* progress reports a job makes at most
  ChanCap,    \* events the broadcast channel holds for the client (16, then 8)
  None

ASSUME JobConstants ==
  /\ IndexKind \in Kind
  /\ Total \in Nat /\ ChanCap \in Nat
  /\ None \notin Kind \cup Job

VARIABLES
  running,    \* m.running: the job that holds the slot of each kind
  rec,        \* rs.job: the in-memory record of each job
  caller,     \* where the handler in Start is
  pc,         \* where the job's goroutine is
  result,     \* what the work of a running job returned: runErr is nil or not
  ctx,        \* running jobs whose context is cancelled
  cancelling, \* Cancel calls between m.mu.Unlock() and cancel()
  asked,      \* the jobs some client asked to cancel
  profiler,   \* the job holding profileMu
  row,        \* the jobs table of ops.db
  unsaved,    \* jobs whose last UpsertJob failed (it is only logged)
  answer,     \* the state of the record Start returned
  sse,        \* events on their way to the client
  died        \* jobs that were running when the server process died

jobVars == <<running, rec, caller, pc, result, ctx, cancelling, asked, profiler, row, unsaved,
             answer, sse, died>>

-----------------------------------------------------------------------------
Terminal == {"succeeded", "failed", "canceled"}
State    == {"running"} \cup Terminal
Record   == [kind : Kind, state : State, done : 0..Total]     \* ops.Job
Event    == [job : Job, state : State]     \* job_progress, or job_done with a final state
Working  == {"begin", "working", "persist", "tell"}           \* before the work returned

ASSUME NoneIsNoRecord == None \notin Record \cup State

TypeOK ==
  /\ running \in [Kind -> Job \cup {None}]
  /\ rec \in [Job -> Record \cup {None}]
  /\ caller \in [Job -> {"none", "claimed", "persisted", "spawned", "returned", "lost"}]
  /\ pc \in [Job -> Working \cup {"none", "ended", "final", "announce", "done", "dead"}]
  /\ result \in [Job -> {"none", "ok", "error"}]
  /\ ctx \subseteq Job /\ cancelling \subseteq Job /\ asked \subseteq Job
  /\ profiler \in Job \cup {None}
  /\ row \in [Job -> Record \cup {None}]
  /\ unsaved \subseteq Job /\ died \subseteq Job
  /\ answer \in [Job -> State \cup {None}]
  /\ sse \in Seq(Event)
  /\ Len(sse) <= ChanCap

Init ==
  /\ running = [k \in Kind |-> None]
  /\ rec = [j \in Job |-> None]
  /\ caller = [j \in Job |-> "none"]
  /\ pc = [j \in Job |-> "none"]
  /\ result = [j \in Job |-> "none"]
  /\ ctx = {} /\ cancelling = {} /\ asked = {}
  /\ profiler = None
  /\ row = [j \in Job |-> None]
  /\ unsaved = {} /\ died = {}
  /\ answer = [j \in Job |-> None]
  /\ sse = <<>>

-----------------------------------------------------------------------------
(* Start.                                                                  *)

(* Mutant: an index job only looks at the index slot.                      *)
Conflict_OwnSlot(k) == running[IndexKind] # None \/ running[k] # None

(* conflictLocked: index excludes every kind, a kind excludes itself.      *)
Conflict(k) ==
  \/ running[IndexKind] # None
  \/ k = IndexKind /\ \E q \in Kind : running[q] # None
  \/ running[k] # None

(* The critical section of Start: a free slot is claimed for a new record.
   A conflicting, unknown or invalid request is answered with an error and
   changes nothing. *)
Start(k, j) ==
  /\ rec[j] = None /\ ~Conflict(k)
  /\ rec' = [rec EXCEPT ![j] = [kind |-> k, state |-> "running", done |-> 0]]
  /\ running' = [running EXCEPT ![k] = j]
  /\ caller' = [caller EXCEPT ![j] = "claimed"]
  /\ UNCHANGED <<pc, result, ctx, cancelling, asked, profiler, row, unsaved, answer, sse, died>>

(* opsStore.UpsertJob: a full replace of the row, or an error that is only
   printed. *)
Upsert(j, r, saved) ==
  /\ row' = IF saved THEN [row EXCEPT ![j] = r] ELSE row
  /\ unsaved' = IF saved THEN unsaved \ {j} ELSE unsaved \cup {j}

PersistStart(j, saved) ==
  /\ caller[j] = "claimed"
  /\ Upsert(j, rec[j], saved)
  /\ caller' = [caller EXCEPT ![j] = "persisted"]
  /\ UNCHANGED <<running, rec, pc, result, ctx, cancelling, asked, profiler, answer, sse, died>>

Spawn(j) ==
  /\ caller[j] = "persisted"
  /\ caller' = [caller EXCEPT ![j] = "spawned"]
  /\ pc' = [pc EXCEPT ![j] = "begin"]
  /\ UNCHANGED <<running, rec, result, ctx, cancelling, asked, profiler, row, unsaved, answer,
                 sse, died>>

(* Mutant: the first row is written after the goroutine was started.       *)
Return_LateRow(j) ==
  /\ caller[j] = "spawned"
  /\ caller' = [caller EXCEPT ![j] = "returned"]
  /\ answer' = [answer EXCEPT ![j] = rec[j].state]
  /\ row' = [row EXCEPT ![j] = [kind |-> rec[j].kind, state |-> "running", done |-> 0]]
  /\ UNCHANGED <<running, rec, pc, result, ctx, cancelling, asked, profiler, unsaved, sse, died>>

(* return rs.job, nil: the record is copied after the goroutine was
   started, without m.mu. *)
Return(j) ==
  /\ caller[j] = "spawned"
  /\ caller' = [caller EXCEPT ![j] = "returned"]
  /\ answer' = [answer EXCEPT ![j] = rec[j].state]
  /\ UNCHANGED <<running, rec, pc, result, ctx, cancelling, asked, profiler, row, unsaved, sse,
                 died>>

-----------------------------------------------------------------------------
(* The goroutine of job j.                                                 *)

(* profileMu.TryLock and pprof.StartCPUProfile, which may fail: the lock is
   then released at once.  A job that does not get the lock runs without a
   CPU profile. *)
BeginWork(j, started) ==
  /\ pc[j] = "begin"
  /\ profiler' = IF profiler = None /\ started THEN j ELSE profiler
  /\ pc' = [pc EXCEPT ![j] = "working"]
  /\ UNCHANGED <<running, rec, caller, result, ctx, cancelling, asked, row, unsaved, answer, sse,
                 died>>

(* reportProgress: the record is updated; a throttled report ends there.
   The work waits for reportProgress to return. *)
Progress(j, throttled) ==
  /\ pc[j] = "working" /\ rec[j].done < Total
  /\ rec' = [rec EXCEPT ![j].done = @ + 1]
  /\ pc' = [pc EXCEPT ![j] = IF throttled THEN "working" ELSE "persist"]
  /\ UNCHANGED <<running, caller, result, ctx, cancelling, asked, profiler, row, unsaved, answer,
                 sse, died>>

PersistProgress(j, saved) ==
  /\ pc[j] = "persist"
  /\ Upsert(j, rec[j], saved)
  /\ pc' = [pc EXCEPT ![j] = "tell"]
  /\ UNCHANGED <<running, rec, caller, result, ctx, cancelling, asked, profiler, answer, sse, died>>

(* broadcastEvent: a non-blocking send, dropped when the channel is full.  *)
Broadcast(j) ==
  sse' = IF Len(sse) < ChanCap THEN Append(sse, [job |-> j, state |-> rec[j].state]) ELSE sse

TellProgress(j) ==
  /\ pc[j] = "tell"
  /\ Broadcast(j)
  /\ pc' = [pc EXCEPT ![j] = "working"]
  /\ UNCHANGED <<running, rec, caller, result, ctx, cancelling, asked, profiler, row, unsaved,
                 answer, died>>

(* Mutant: an error return skips the release of profileMu.                 *)
WorkEnds_ErrorKeepsLock(j, res) ==
  /\ pc[j] = "working"
  /\ result' = [result EXCEPT ![j] = res]
  /\ profiler' = IF profiler = j /\ res = "ok" THEN None ELSE profiler
  /\ pc' = [pc EXCEPT ![j] = "ended"]
  /\ UNCHANGED <<running, rec, caller, ctx, cancelling, asked, row, unsaved, answer, sse, died>>

(* runIndex, runEval, runReconcile or runInit returns, with an error or not
   whether or not the context is cancelled (a late cancellation goes
   unobserved), and profileMu is released. *)
WorkEnds(j, res) ==
  /\ pc[j] = "working"
  /\ result' = [result EXCEPT ![j] = res]
  /\ profiler' = IF profiler = j THEN None ELSE profiler
  /\ pc' = [pc EXCEPT ![j] = "ended"]
  /\ UNCHANGED <<running, rec, caller, ctx, cancelling, asked, row, unsaved, answer, sse, died>>

(* How a job ends: an error of a cancelled job is its cancellation.        *)
EndState(j) ==
  IF result[j] = "ok" THEN "succeeded" ELSE IF j \in ctx THEN "canceled" ELSE "failed"

(* Mutant: the slot is never given back.                                   *)
Finish_KeepsSlot(j) ==
  /\ pc[j] = "ended"
  /\ rec' = [rec EXCEPT ![j].state = EndState(j)]
  /\ result' = [result EXCEPT ![j] = "none"]
  /\ pc' = [pc EXCEPT ![j] = "final"]
  /\ UNCHANGED <<running, caller, ctx, cancelling, asked, profiler, row, unsaved, answer,
                 sse, died>>

(* The last critical section: the record is final and the slot is free,
   before the row says so. *)
Finish(j) ==
  /\ pc[j] = "ended"
  /\ rec' = [rec EXCEPT ![j].state = EndState(j)]
  /\ running' = [running EXCEPT ![rec[j].kind] = None]
  /\ result' = [result EXCEPT ![j] = "none"] /\ ctx' = ctx \ {j}
  /\ pc' = [pc EXCEPT ![j] = "final"]
  /\ UNCHANGED <<caller, cancelling, asked, profiler, row, unsaved, answer, sse, died>>

(* Mutant: the final row is written only when the work succeeded.           *)
PersistFinal_OkOnly(j, saved) ==
  /\ pc[j] = "final"
  /\ IF rec[j].state = "succeeded" THEN Upsert(j, rec[j], saved) ELSE UNCHANGED <<row, unsaved>>
  /\ pc' = [pc EXCEPT ![j] = "announce"]
  /\ UNCHANGED <<running, rec, caller, result, ctx, cancelling, asked, profiler, answer, sse, died>>

PersistFinal(j, saved) ==
  /\ pc[j] = "final"
  /\ Upsert(j, rec[j], saved)
  /\ pc' = [pc EXCEPT ![j] = "announce"]
  /\ UNCHANGED <<running, rec, caller, result, ctx, cancelling, asked, profiler, answer, sse, died>>

TellDone(j) ==
  /\ pc[j] = "announce"
  /\ Broadcast(j)
  /\ pc' = [pc EXCEPT ![j] = "done"]
  /\ UNCHANGED <<running, rec, caller, result, ctx, cancelling, asked, profiler, row, unsaved,
                 answer, died>>

-----------------------------------------------------------------------------
(* Cancel, and the death of the process.                                   *)

Live(j) == \E k \in Kind : running[k] = j

(* Cancel finds the job under m.mu and keeps its CancelFunc...             *)
CancelLookup(j) ==
  /\ Live(j)
  /\ asked' = asked \cup {j} /\ cancelling' = cancelling \cup {j}
  /\ UNCHANGED <<running, rec, caller, pc, result, ctx, profiler, row, unsaved, answer, sse, died>>

(* Mutant: the slot is looked up again when the lock is no longer held.    *)
CancelFire_Slot(j) ==
  /\ j \in cancelling
  /\ cancelling' = cancelling \ {j}
  /\ ctx' = ctx \cup ({running[rec[j].kind]} \ {None})
  /\ UNCHANGED <<running, rec, caller, pc, result, asked, profiler, row, unsaved, answer, sse, died>>

(* ... and calls it after the unlock, when the job may be over and nobody
   looks at its context any more. *)
CancelFire(j) ==
  /\ j \in cancelling
  /\ cancelling' = cancelling \ {j}
  /\ ctx' = IF Live(j) THEN ctx \cup {j} ELSE ctx
  /\ UNCHANGED <<running, rec, caller, pc, result, asked, profiler, row, unsaved, answer, sse, died>>

(* The server dies or is restarted: NewManager starts with no job running
   and ops.db keeps its rows. *)
Crash ==
  LET alive == {j \in Job : rec[j] # None /\ pc[j] \notin {"done", "dead"}}
  IN  /\ running' = [k \in Kind |-> None]
      /\ pc' = [j \in Job |-> IF j \in alive THEN "dead" ELSE pc[j]]
      /\ caller' = [j \in Job |-> IF caller[j] \in {"none", "returned"} THEN caller[j] ELSE "lost"]
      /\ died' = died \cup alive
      /\ result' = [j \in Job |-> "none"]
      /\ ctx' = {} /\ cancelling' = {} /\ profiler' = None /\ sse' = <<>>
      /\ UNCHANGED <<rec, asked, row, unsaved, answer>>

(* The event loop of the server takes an event off the channel and hands it
   to the clients. *)
Deliver ==
  /\ sse # <<>>
  /\ sse' = Tail(sse)
  /\ UNCHANGED <<running, rec, caller, pc, result, ctx, cancelling, asked, profiler, row, unsaved,
                 answer, died>>

CallerStep(j) ==
  \/ \E saved \in BOOLEAN : PersistStart(j, saved)
  \/ Spawn(j)
  \/ Return(j)

RunStep(j) ==
  \/ \E started \in BOOLEAN : BeginWork(j, started)
  \/ \E throttled \in BOOLEAN : Progress(j, throttled)
  \/ \E saved \in BOOLEAN : PersistProgress(j, saved)
  \/ TellProgress(j)
  \/ \E res \in {"ok", "error"} : WorkEnds(j, res)
  \/ Finish(j)
  \/ \E saved \in BOOLEAN : PersistFinal(j, saved)
  \/ TellDone(j)

Next ==
  \/ \E k \in Kind, j \in Job : Start(k, j)
  \/ \E j \in Job : CallerStep(j) \/ RunStep(j) \/ CancelLookup(j) \/ CancelFire(j)
  \/ Deliver
  \/ Crash

Spec == Init /\ [][Next]_jobVars

(* The handler and the goroutine of a job are scheduled, and the work makes
   at most Total reports before it returns. *)
FairSpec == Spec /\ \A j \in Job : WF_jobVars(CallerStep(j)) /\ WF_jobVars(RunStep(j))

-----------------------------------------------------------------------------
(* Properties.                                                             *)

(* Single flight, of the work and not only of the map: no two jobs of a kind
   work at once, and nothing works beside an index job, with Start, the end
   of a job and a restart interleaved in any way. *)
SingleFlight ==
  \A i, j \in Job :
    i # j /\ pc[i] \in Working /\ pc[j] \in Working =>
      rec[i].kind # rec[j].kind /\ IndexKind \notin {rec[i].kind, rec[j].kind}

(* History is never rewritten: the row of a job that ended keeps its final
   state, and the progress in a row never goes back, although the handler
   and the goroutine both write whole rows outside m.mu. *)
RowsOnlyAdvance ==
  [][\A j \in Job : row[j] # None =>
       /\ row'[j] # None /\ row'[j].done >= row[j].done
       /\ row[j].state \in Terminal => row'[j] = row[j]]_row

(* A cancellation hits the job it was asked for, also when that job ends and
   another takes its slot between Cancel's unlock and its cancel(). *)
CancelHitsItsJob ==
  \A j \in Job : rec[j] # None /\ rec[j].state = "canceled" => j \in asked

(* profileMu is held only by a job at work: neither a failed StartCPUProfile
   nor any way to end a job leaves it locked, which would end profiling for
   the life of the server. *)
ProfilerHeldByWorker == profiler # None => pc[profiler] \in Working \ {"begin"}

(* Get, List and Cancel take a row that says running, without a job in
   m.running, for the orphan of a dead process ("a prior server process died
   mid-job").  There are two other ways to such a row, and no more: a write
   that failed, and the window between the deletion from m.running and the
   write of the final row. *)
OrphanRowExplained ==
  \A j \in Job : row[j] # None /\ row[j].state = "running" /\ ~Live(j) =>
    j \in died \/ j \in unsaved \/ pc[j] = "final"

(* Every job gives its slot back.                                          *)
SlotFreed == \A j \in Job : Live(j) ~> ~Live(j)

(* The inductive invariant.  A job whose work is not over holds the slot of
   its kind, a slot is held by such a job only, and an index job holds its
   slot alone; rows lag behind records, and only the last write of a job is
   of a final record. *)
Unfinished == {"none", "ended"} \cup Working

SlotsOK ==
  /\ \A k \in Kind : running[k] # None =>
       /\ rec[running[k]] # None /\ rec[running[k]].kind = k
       /\ pc[running[k]] \in Unfinished
  /\ \A j \in Job : rec[j] # None /\ pc[j] \in Unfinished => running[rec[j].kind] = j
  /\ running[IndexKind] # None => \A k \in Kind \ {IndexKind} : running[k] = None

ThreadsOK ==
  \A j \in Job :
    /\ rec[j] = None => pc[j] = "none" /\ caller[j] = "none" /\ row[j] = None
    /\ caller[j] \in {"claimed", "persisted"} => rec[j] # None /\ pc[j] = "none"
    /\ pc[j] \in Unfinished /\ rec[j] # None => rec[j].state = "running"

RowsOK ==
  \A j \in Job : row[j] # None =>
    /\ rec[j] # None /\ row[j].done <= rec[j].done
    /\ row[j].state \in Terminal => pc[j] \in {"announce", "done", "dead"}

CancelOK == ctx \subseteq asked /\ cancelling \subseteq asked /\ CancelHitsItsJob

(* Behind OrphanRowExplained: the last write of a job is of a final record,
   and it is in the row unless it failed. *)
SettledOK ==
  \A j \in Job :
    /\ pc[j] = "final" => rec[j].state \in Terminal
    /\ pc[j] \in {"announce", "done"} /\ row[j] # None /\ row[j].state = "running" => j \in unsaved
    /\ pc[j] = "dead" => j \in died

JobInv == TypeOK /\ SlotsOK /\ ThreadsOK /\ RowsOK /\ CancelOK /\ ProfilerHeldByWorker

(* Start returns "its initial (running) record".                           *)
StartReturnsRunning == \A j \in Job : answer[j] \in {"running", None}

=============================================================================
