-------------------------- MODULE JobManagerProofs --------------------------
(* Proofs about JobManager, for any number of jobs and kinds.              *)
EXTENDS JobManager, TLAPS

(* The absence of a record, a state, a kind or a job is none of them.      *)
LEMMA NoneIsNothing ==
  None \notin Record /\ None \notin State /\ None \notin Kind /\ None \notin Job
  BY JobConstants, NoneIsNoRecord

(* The fields of a record.                                                 *)
LEMMA RecordFields ==
  ASSUME NEW r \in Record
  PROVE  r # None /\ r.kind \in Kind /\ r.state \in State /\ r.done \in 0..Total
<1>1. r # None
  BY NoneIsNothing
<1>2. r.kind \in Kind /\ r.state \in State /\ r.done \in 0..Total
  BY DEF Record
<1>3. QED
  BY <1>1, <1>2

(* What the end of the work makes of a record.                             *)
LEMMA RecordEnds ==
  ASSUME NEW r \in Record, NEW s \in State
  PROVE  /\ [r EXCEPT !.state = s] \in Record
         /\ [r EXCEPT !.state = s].kind = r.kind
         /\ [r EXCEPT !.state = s].done = r.done
         /\ [r EXCEPT !.state = s].state = s
  BY DEF Record

(* What a progress report makes of a record.                               *)
LEMMA RecordAdvances ==
  ASSUME NEW r \in Record, r.done < Total
  PROVE  /\ [r EXCEPT !.done = r.done + 1] \in Record
         /\ [r EXCEPT !.done = r.done + 1].kind = r.kind
         /\ [r EXCEPT !.done = r.done + 1].state = r.state
         /\ [r EXCEPT !.done = r.done + 1].done = r.done + 1
  BY JobConstants DEF Record

LEMMA InitJobInv == Init => JobInv
<1> SUFFICES ASSUME Init PROVE JobInv
  OBVIOUS
<1>1. TypeOK
  BY JobConstants DEF Init, TypeOK
<1>2. SlotsOK /\ ThreadsOK /\ RowsOK /\ CancelOK /\ ProfilerHeldByWorker
  BY JobConstants
  DEF Init, SlotsOK, ThreadsOK, RowsOK, CancelOK, CancelHitsItsJob, ProfilerHeldByWorker
<1>3. QED
  BY <1>1, <1>2 DEF JobInv

(* Claiming a free slot.                                                   *)
LEMMA StartKeepsInv ==
  ASSUME JobInv, NEW k \in Kind, NEW j \in Job, Start(k, j) PROVE JobInv'
<1> DEFINE r == [kind |-> k, state |-> "running", done |-> 0]
<1>1. r \in Record /\ r.kind = k /\ r.state = "running"
  BY JobConstants DEF Record, State
<1>2. /\ rec[j] = None /\ ~Conflict(k) /\ rec' = [rec EXCEPT ![j] = r]
      /\ running' = [running EXCEPT ![k] = j] /\ caller' = [caller EXCEPT ![j] = "claimed"]
      /\ UNCHANGED <<pc, result, ctx, cancelling, asked, profiler, row, unsaved, answer, sse, died>>
  BY DEF Start
<1> HIDE DEF r
<1>3. TypeOK'
  BY <1>1, <1>2 DEF JobInv, TypeOK
<1>4. rec \in [Job -> Record \cup {None}] /\ running \in [Kind -> Job \cup {None}]
      /\ caller \in [Job -> {"none", "claimed", "persisted", "spawned", "returned", "lost"}]
  BY DEF JobInv, TypeOK
<1>5. \A q \in Kind : running[q] # j
  BY <1>2, NoneIsNothing DEF JobInv, SlotsOK
<1>6. pc[j] = "none" /\ row[j] = None
  BY <1>2 DEF JobInv, ThreadsOK
<1>7. SlotsOK'
  <2>1. \A q \in Kind : running'[q] # None =>
          rec'[running'[q]] # None /\ rec'[running'[q]].kind = q /\ pc'[running'[q]] \in Unfinished
    BY <1>1, <1>2, <1>4, <1>5, <1>6, NoneIsNothing DEF JobInv, SlotsOK, Unfinished
  <2>2. \A i \in Job : rec'[i] # None /\ pc'[i] \in Unfinished => running'[rec'[i].kind] = i
    <3> SUFFICES ASSUME NEW i \in Job, rec'[i] # None, pc'[i] \in Unfinished
                 PROVE  running'[rec'[i].kind] = i
      OBVIOUS
    <3>1. CASE i = j
      BY <1>1, <1>2, <1>4, <3>1
    <3>2. CASE i # j
      <4>1. rec'[i] = rec[i] /\ rec[i] \in Record /\ rec[i].kind \in Kind
        <5>1. rec'[i] = rec[i] /\ rec[i] \in Record
          BY <1>2, <1>4, <3>2
        <5>2. QED
          BY <5>1, RecordFields
      <4>2. running[rec[i].kind] = i
        BY <1>2, <4>1 DEF JobInv, SlotsOK
      <4>3. rec[i].kind # k
        <5>1. running[k] = None
          BY <1>2 DEF Conflict
        <5>2. QED
          BY <4>2, <5>1, NoneIsNothing
      <4>4. QED
        BY <1>2, <1>4, <4>1, <4>2, <4>3
    <3>3. QED
      BY <3>1, <3>2
  <2>3. running'[IndexKind] # None => \A q \in Kind \ {IndexKind} : running'[q] = None
    BY <1>2, <1>4, JobConstants DEF Conflict
  <2>4. QED
    BY <2>1, <2>2, <2>3 DEF SlotsOK
<1>8. ThreadsOK'
  BY <1>1, <1>2, <1>4, <1>6, NoneIsNothing DEF JobInv, ThreadsOK
<1>9. RowsOK'
  BY <1>2, <1>4, <1>6 DEF JobInv, RowsOK
<1>10. CancelOK' /\ ProfilerHeldByWorker'
  BY <1>1, <1>2, <1>4 DEF JobInv, CancelOK, CancelHitsItsJob, ProfilerHeldByWorker
<1>11. QED
  BY <1>3, <1>7, <1>8, <1>9, <1>10 DEF JobInv

(* Steps that move a thread, a row or an event but neither a slot nor a
   record: the row gets a copy of the record, at a point where it may. *)
LEMMA QuietStepKeepsInv ==
  ASSUME JobInv, NEW j \in Job, rec[j] # None,
         UNCHANGED <<running, rec, result, ctx, cancelling, asked, profiler, died>>,
         caller' \in [Job -> {"none", "claimed", "persisted", "spawned", "returned", "lost"}],
         pc' \in [Job -> Working \cup {"none", "ended", "final", "announce", "done", "dead"}],
         \A i \in Job \ {j} : pc'[i] = pc[i] /\ caller'[i] = caller[i] /\ row'[i] = row[i],
         row' \in [Job -> Record \cup {None}],
         row'[j] = row[j] \/ row'[j] = rec[j],
         unsaved' \subseteq Job, answer' \in [Job -> State \cup {None}],
         sse' \in Seq(Event), Len(sse') <= ChanCap,
         pc[j] \in Unfinished <=> pc'[j] \in Unfinished,
         caller'[j] \in {"claimed", "persisted"} => pc'[j] = "none",
         pc[j] \in {"announce", "done", "dead"} => pc'[j] \in {"announce", "done", "dead"},
         row'[j] # row[j] => pc[j] \in Unfinished \/ pc'[j] = "announce",
         profiler = j => pc'[j] \in Working \ {"begin"}
  PROVE  JobInv'
<1>1. TypeOK'
  BY DEF JobInv, TypeOK
<1>2. SlotsOK'
  <2>1. \A i \in Job : pc'[i] \in Unfinished <=> pc[i] \in Unfinished
    OBVIOUS
  <2>2. running \in [Kind -> Job \cup {None}]
    BY DEF JobInv, TypeOK
  <2>3. QED
    BY <2>1, <2>2 DEF JobInv, SlotsOK
<1>3. ThreadsOK'
  BY DEF JobInv, ThreadsOK
<1>4. RowsOK'
  <2> SUFFICES ASSUME NEW i \in Job, row'[i] # None
               PROVE  /\ rec[i] # None /\ row'[i].done <= rec[i].done
                      /\ row'[i].state \in Terminal => pc'[i] \in {"announce", "done", "dead"}
    BY DEF RowsOK
  <2>1. CASE row'[i] = row[i]
    BY <2>1 DEF JobInv, RowsOK
  <2>2. CASE row'[i] # row[i]
    <3>1. i = j /\ row'[j] = rec[j]
      BY <2>2
    <3>2. rec[j] \in Record
      BY DEF JobInv, TypeOK
    <3>3. rec[j].done <= rec[j].done
      BY <3>2, JobConstants DEF Record
    <3>4. pc[j] \in Unfinished => rec[j].state = "running"
      BY DEF JobInv, ThreadsOK
    <3>5. QED
      BY <2>2, <3>1, <3>3, <3>4 DEF Terminal
  <2>3. QED
    BY <2>1, <2>2
<1>5. CancelOK' /\ ProfilerHeldByWorker'
  BY NoneIsNothing DEF JobInv, TypeOK, CancelOK, CancelHitsItsJob, ProfilerHeldByWorker
<1>6. QED
  BY <1>1, <1>2, <1>3, <1>4, <1>5 DEF JobInv

LEMMA CallerKeepsInv ==
  ASSUME JobInv, NEW j \in Job, CallerStep(j) PROVE JobInv'
<1>0. /\ TypeOK /\ rec[j] # None
      /\ caller[j] \in {"claimed", "persisted"} => pc[j] = "none"
      /\ profiler = j => pc[j] \in Working \ {"begin"}
  <2>1. caller[j] # "none"
    BY DEF CallerStep, PersistStart, Spawn, Return
  <2>2. QED
    BY <2>1, NoneIsNothing DEF JobInv, ThreadsOK, ProfilerHeldByWorker
<1>1. ASSUME NEW saved \in BOOLEAN, PersistStart(j, saved) PROVE JobInv'
  <2>1. /\ row' \in [Job -> Record \cup {None}] /\ unsaved' \subseteq Job
        /\ \A i \in Job \ {j} : row'[i] = row[i]
        /\ row'[j] = row[j] \/ row'[j] = rec[j]
    BY <1>0, <1>1 DEF PersistStart, Upsert, TypeOK
  <2>2. /\ caller' \in [Job -> {"none", "claimed", "persisted", "spawned", "returned", "lost"}]
        /\ caller'[j] = "persisted" /\ \A i \in Job \ {j} : caller'[i] = caller[i]
    BY <1>0, <1>1 DEF PersistStart, TypeOK
  <2>3. pc' = pc /\ pc[j] = "none"
        /\ UNCHANGED <<running, rec, result, ctx, cancelling, asked, profiler, died, answer, sse>>
    BY <1>0, <1>1 DEF PersistStart
  <2>4. pc[j] \in Unfinished
    BY <2>3 DEF Unfinished
  <2>5. QED
    BY <1>0, <2>1, <2>2, <2>3, <2>4, QuietStepKeepsInv DEF TypeOK
<1>2. CASE Spawn(j)
  <2>1. /\ caller' \in [Job -> {"none", "claimed", "persisted", "spawned", "returned", "lost"}]
        /\ caller'[j] = "spawned" /\ \A i \in Job \ {j} : caller'[i] = caller[i]
        /\ pc' \in [Job -> Working \cup {"none", "ended", "final", "announce", "done", "dead"}]
        /\ pc'[j] = "begin" /\ \A i \in Job \ {j} : pc'[i] = pc[i]
    BY <1>0, <1>2 DEF Spawn, TypeOK, Working
  <2>2. /\ pc[j] = "none"
        /\ UNCHANGED <<running, rec, result, ctx, cancelling, asked, profiler, died, answer, sse,
                       row, unsaved>>
    BY <1>0, <1>2 DEF Spawn
  <2>3. pc[j] \in Unfinished /\ pc'[j] \in Unfinished /\ profiler # j
    BY <1>0, <2>1, <2>2 DEF Unfinished, Working
  <2>4. QED
    BY <1>0, <2>1, <2>2, <2>3, QuietStepKeepsInv DEF TypeOK
<1>3. CASE Return(j)
  <2>1. rec[j].state \in State
    <3>1. rec[j] \in Record
      BY <1>0 DEF TypeOK
    <3>2. QED
      BY <3>1, RecordFields
  <2>2. /\ caller' \in [Job -> {"none", "claimed", "persisted", "spawned", "returned", "lost"}]
        /\ caller'[j] = "returned" /\ \A i \in Job \ {j} : caller'[i] = caller[i]
        /\ answer' \in [Job -> State \cup {None}]
        /\ UNCHANGED <<running, rec, pc, result, ctx, cancelling, asked, profiler, died, sse, row,
                       unsaved>>
    BY <1>0, <1>3, <2>1 DEF Return, TypeOK
  <2>3. QED
    BY <1>0, <2>2, QuietStepKeepsInv DEF TypeOK
<1>4. QED
  BY <1>1, <1>2, <1>3 DEF CallerStep

(* A send on the broadcast channel, or its omission, leaves a channel.     *)
LEMMA BroadcastTyped ==
  ASSUME TypeOK, NEW j \in Job, rec[j] # None, Broadcast(j)
  PROVE  sse' \in Seq(Event) /\ Len(sse') <= ChanCap
<1> DEFINE e == [job |-> j, state |-> rec[j].state]
<1>1. e \in Event
  <2>1. rec[j] \in Record
    BY DEF TypeOK
  <2>2. rec[j].state \in State
    BY <2>1, RecordFields
  <2>3. QED
    BY <2>2 DEF Event
<1>2. sse \in Seq(Event) /\ Len(sse) <= ChanCap /\ ChanCap \in Nat
  BY JobConstants DEF TypeOK
<1>3. sse' = IF Len(sse) < ChanCap THEN Append(sse, e) ELSE sse
  BY DEF Broadcast
<1> HIDE DEF e
<1>4. QED
  BY <1>1, <1>2, <1>3

(* The goroutine's steps that write or send without changing the record.   *)
LEMMA WriteKeepsInv ==
  ASSUME JobInv, NEW j \in Job,
         \/ \E saved \in BOOLEAN : PersistProgress(j, saved) \/ PersistFinal(j, saved)
         \/ TellProgress(j) \/ TellDone(j)
  PROVE  JobInv'
<1>0. /\ TypeOK /\ rec[j] # None /\ pc[j] \in {"persist", "tell", "final", "announce"}
      /\ caller[j] \notin {"claimed", "persisted"}
      /\ profiler = j => pc[j] \in Working \ {"begin"}
  BY NoneIsNothing
  DEF JobInv, ThreadsOK, ProfilerHeldByWorker, PersistProgress, PersistFinal, TellProgress, TellDone
<1>1. ASSUME NEW saved \in BOOLEAN, PersistProgress(j, saved) \/ PersistFinal(j, saved)
      PROVE  JobInv'
  <2>1. /\ row' \in [Job -> Record \cup {None}] /\ unsaved' \subseteq Job
        /\ \A i \in Job \ {j} : row'[i] = row[i]
        /\ row'[j] = row[j] \/ row'[j] = rec[j]
    BY <1>0, <1>1 DEF PersistProgress, PersistFinal, Upsert, TypeOK
  <2>2. /\ pc' \in [Job -> Working \cup {"none", "ended", "final", "announce", "done", "dead"}]
        /\ \A i \in Job \ {j} : pc'[i] = pc[i]
        /\ \/ pc[j] = "persist" /\ pc'[j] = "tell"
           \/ pc[j] = "final" /\ pc'[j] = "announce"
        /\ UNCHANGED <<running, rec, caller, result, ctx, cancelling, asked, profiler, died,
                       answer, sse>>
    BY <1>0, <1>1 DEF PersistProgress, PersistFinal, TypeOK, Working
  <2>3. /\ pc[j] \in Unfinished <=> pc'[j] \in Unfinished
        /\ pc[j] \in Unfinished \/ pc'[j] = "announce"
        /\ profiler = j => pc'[j] \in Working \ {"begin"}
        /\ pc[j] \notin {"announce", "done", "dead"}
    BY <1>0, <2>2 DEF Unfinished, Working
  <2>4. QED
    BY <1>0, <2>1, <2>2, <2>3, QuietStepKeepsInv DEF TypeOK
<1>2. ASSUME TellProgress(j) \/ TellDone(j) PROVE JobInv'
  <2>1. sse' \in Seq(Event) /\ Len(sse') <= ChanCap
    BY <1>0, <1>2, BroadcastTyped DEF TellProgress, TellDone
  <2>2. /\ pc' \in [Job -> Working \cup {"none", "ended", "final", "announce", "done", "dead"}]
        /\ \A i \in Job \ {j} : pc'[i] = pc[i]
        /\ \/ pc[j] = "tell" /\ pc'[j] = "working"
           \/ pc[j] = "announce" /\ pc'[j] = "done"
        /\ UNCHANGED <<running, rec, caller, result, ctx, cancelling, asked, profiler, died,
                       answer, row, unsaved>>
    BY <1>0, <1>2 DEF TellProgress, TellDone, TypeOK, Working
  <2>3. /\ pc[j] \in Unfinished <=> pc'[j] \in Unfinished
        /\ profiler = j => pc'[j] \in Working \ {"begin"}
        /\ pc[j] \in {"announce", "done", "dead"} => pc'[j] \in {"announce", "done", "dead"}
    BY <1>0, <2>2 DEF Unfinished, Working
  <2>4. QED
    BY <1>0, <2>1, <2>2, <2>3, QuietStepKeepsInv DEF TypeOK
<1>3. QED
  BY <1>1, <1>2

(* A step of the goroutine, or a cancellation, that leaves slots, records
   and rows alone and keeps the job on its side of Finish. *)
LEMMA ThreadMovesKeepsInv ==
  ASSUME JobInv, NEW j \in Job, rec[j] # None,
         UNCHANGED <<running, rec, caller, row>>,
         pc' \in [Job -> Working \cup {"none", "ended", "final", "announce", "done", "dead"}],
         \A i \in Job \ {j} : pc'[i] = pc[i],
         pc'[j] = pc[j] \/ (pc[j] \in Working /\ pc'[j] \in Working \cup {"ended"})
  PROVE  SlotsOK' /\ ThreadsOK' /\ RowsOK'
<1>1. \A i \in Job : pc'[i] \in Unfinished <=> pc[i] \in Unfinished
  BY DEF Unfinished
<1>2. running \in [Kind -> Job \cup {None}]
  BY DEF JobInv, TypeOK
<1>3. SlotsOK'
  BY <1>1, <1>2 DEF JobInv, SlotsOK
<1>4. caller[j] \in {"claimed", "persisted"} => pc'[j] = pc[j]
  BY DEF JobInv, ThreadsOK, Working
<1>5. ThreadsOK'
  BY <1>1, <1>4 DEF JobInv, ThreadsOK
<1>6. RowsOK'
  BY DEF JobInv, RowsOK, Working
<1>7. QED
  BY <1>3, <1>5, <1>6

LEMMA BeginWorkKeepsInv ==
  ASSUME JobInv, NEW j \in Job, NEW started \in BOOLEAN, BeginWork(j, started) PROVE JobInv'
<1>1. /\ pc[j] = "begin" /\ pc' = [pc EXCEPT ![j] = "working"]
      /\ profiler' = j \/ profiler' = profiler
      /\ UNCHANGED <<running, rec, caller, result, ctx, cancelling, asked, row, unsaved, answer,
                     sse, died>>
  BY DEF BeginWork
<1>2. rec[j] # None
  BY <1>1 DEF JobInv, ThreadsOK
<1>3. TypeOK'
  BY <1>1 DEF JobInv, TypeOK, Working
<1>4. pc'[j] = "working" /\ \A i \in Job \ {j} : pc'[i] = pc[i]
  BY <1>1 DEF JobInv, TypeOK
<1>5. SlotsOK' /\ ThreadsOK' /\ RowsOK'
  BY <1>1, <1>2, <1>3, <1>4, ThreadMovesKeepsInv DEF TypeOK, Working
<1>6. CancelOK'
  BY <1>1 DEF JobInv, CancelOK, CancelHitsItsJob
<1>7. ProfilerHeldByWorker'
  BY <1>1, <1>4 DEF JobInv, TypeOK, ProfilerHeldByWorker, Working
<1>8. QED
  BY <1>3, <1>5, <1>6, <1>7 DEF JobInv

LEMMA WorkEndsKeepsInv ==
  ASSUME JobInv, NEW j \in Job, NEW res \in {"ok", "error"}, WorkEnds(j, res) PROVE JobInv'
<1>1. /\ pc[j] = "working" /\ pc' = [pc EXCEPT ![j] = "ended"]
      /\ result' = [result EXCEPT ![j] = res]
      /\ profiler' = IF profiler = j THEN None ELSE profiler
      /\ UNCHANGED <<running, rec, caller, ctx, cancelling, asked, row, unsaved, answer, sse, died>>
  BY DEF WorkEnds
<1>2. rec[j] # None
  BY <1>1 DEF JobInv, ThreadsOK
<1>3. TypeOK'
  BY <1>1 DEF JobInv, TypeOK
<1>4. pc'[j] = "ended" /\ \A i \in Job \ {j} : pc'[i] = pc[i]
  BY <1>1 DEF JobInv, TypeOK
<1>5. SlotsOK' /\ ThreadsOK' /\ RowsOK'
  BY <1>1, <1>2, <1>3, <1>4, ThreadMovesKeepsInv DEF TypeOK, Working
<1>6. CancelOK'
  BY <1>1 DEF JobInv, CancelOK, CancelHitsItsJob
<1>7. ProfilerHeldByWorker'
  BY <1>1, <1>4 DEF JobInv, TypeOK, ProfilerHeldByWorker
<1>8. QED
  BY <1>3, <1>5, <1>6, <1>7 DEF JobInv

LEMMA CancelKeepsInv ==
  ASSUME JobInv, NEW j \in Job, CancelLookup(j) \/ CancelFire(j) PROVE JobInv'
<1>1. UNCHANGED <<running, rec, caller, pc, result, profiler, row, unsaved, answer, sse, died>>
  BY DEF CancelLookup, CancelFire
<1>2. /\ asked' \subseteq Job /\ cancelling' \subseteq Job /\ ctx' \subseteq Job
      /\ asked \subseteq asked' /\ ctx' \subseteq asked' /\ cancelling' \subseteq asked'
  BY DEF JobInv, TypeOK, CancelOK, CancelLookup, CancelFire
<1>3. TypeOK'
  BY <1>1, <1>2 DEF JobInv, TypeOK
<1>4. SlotsOK' /\ ThreadsOK' /\ RowsOK' /\ ProfilerHeldByWorker'
  BY <1>1 DEF JobInv, SlotsOK, ThreadsOK, RowsOK, ProfilerHeldByWorker
<1>5. CancelOK'
  BY <1>1, <1>2 DEF JobInv, CancelOK, CancelHitsItsJob
<1>6. QED
  BY <1>3, <1>4, <1>5 DEF JobInv

LEMMA ProgressKeepsInv ==
  ASSUME JobInv, NEW j \in Job, NEW throttled \in BOOLEAN, Progress(j, throttled) PROVE JobInv'
<1> DEFINE r == [rec[j] EXCEPT !.done = rec[j].done + 1]
<1>1. /\ pc[j] = "working" /\ rec[j].done < Total
      /\ rec' = [rec EXCEPT ![j] = r]
      /\ pc' = [pc EXCEPT ![j] = IF throttled THEN "working" ELSE "persist"]
      /\ UNCHANGED <<running, caller, result, ctx, cancelling, asked, profiler, row, unsaved,
                     answer, sse, died>>
  BY DEF Progress
<1>2. rec[j] # None
  BY <1>1 DEF JobInv, ThreadsOK
<1>3. rec[j] \in Record
  BY <1>2 DEF JobInv, TypeOK
<1>4. r \in Record /\ r.kind = rec[j].kind /\ r.state = rec[j].state
      /\ r.done = rec[j].done + 1 /\ rec[j].done \in Nat /\ r # None
  <2>1. r \in Record /\ r.kind = rec[j].kind /\ r.state = rec[j].state /\ r.done = rec[j].done + 1
    BY <1>1, <1>3, RecordAdvances
  <2>2. rec[j].done \in Nat
    BY <1>3, JobConstants DEF Record
  <2>3. QED
    BY <2>1, <2>2, RecordFields
<1> HIDE DEF r
<1>5. TypeOK'
  BY <1>1, <1>4 DEF JobInv, TypeOK, Working
<1>6. /\ pc'[j] \in {"working", "persist"} /\ \A i \in Job \ {j} : pc'[i] = pc[i]
      /\ rec'[j] = r /\ \A i \in Job \ {j} : rec'[i] = rec[i]
  BY <1>1 DEF JobInv, TypeOK
<1>7. /\ \A i \in Job : pc'[i] \in Unfinished <=> pc[i] \in Unfinished
      /\ \A i \in Job : rec[i] # None => rec'[i].kind = rec[i].kind /\ rec'[i].state = rec[i].state
      /\ \A i \in Job : rec'[i] = None <=> rec[i] = None
  BY <1>1, <1>2, <1>4, <1>6 DEF Unfinished, Working
<1>8. SlotsOK'
  <2>1. running \in [Kind -> Job \cup {None}]
    BY DEF JobInv, TypeOK
  <2>2. QED
    BY <1>1, <1>7, <2>1 DEF JobInv, SlotsOK
<1>9. ThreadsOK'
  BY <1>1, <1>6, <1>7 DEF JobInv, ThreadsOK
<1>10. RowsOK'
  <2> SUFFICES ASSUME NEW i \in Job, row[i] # None
               PROVE  /\ rec'[i] # None /\ row[i].done <= rec'[i].done
                      /\ row[i].state \in Terminal => pc'[i] \in {"announce", "done", "dead"}
    BY <1>1 DEF RowsOK
  <2>1. /\ rec[i] # None /\ row[i].done <= rec[i].done
        /\ row[i].state \in Terminal => pc[i] \in {"announce", "done", "dead"}
    BY DEF JobInv, RowsOK
  <2>2. row[i].done \in Nat
    <3>1. row[i] \in Record
      BY DEF JobInv, TypeOK
    <3>2. QED
      BY <3>1, JobConstants DEF Record
  <2>3. QED
    BY <1>1, <1>4, <1>6, <1>7, <2>1, <2>2
<1>11. CancelOK'
  BY <1>1, <1>7 DEF JobInv, CancelOK, CancelHitsItsJob
<1>12. ProfilerHeldByWorker'
  BY <1>1, <1>6 DEF JobInv, TypeOK, ProfilerHeldByWorker, Working
<1>13. QED
  BY <1>5, <1>8, <1>9, <1>10, <1>11, <1>12 DEF JobInv

(* The end of a job: its slot is freed, and only its own.                  *)
LEMMA FinishKeepsInv ==
  ASSUME JobInv, NEW j \in Job, Finish(j) PROVE JobInv'
<1> DEFINE r == [rec[j] EXCEPT !.state = EndState(j)]
<1>1. /\ pc[j] = "ended" /\ rec' = [rec EXCEPT ![j] = r]
      /\ running' = [running EXCEPT ![rec[j].kind] = None]
      /\ result' = [result EXCEPT ![j] = "none"] /\ ctx' = ctx \ {j}
      /\ pc' = [pc EXCEPT ![j] = "final"]
      /\ UNCHANGED <<caller, cancelling, asked, profiler, row, unsaved, answer, sse, died>>
  BY DEF Finish
<1>2. rec[j] # None
  BY <1>1 DEF JobInv, ThreadsOK
<1>3. rec[j] \in Record
  BY <1>2 DEF JobInv, TypeOK
<1>4. EndState(j) \in State /\ (EndState(j) = "canceled" => j \in ctx)
  BY DEF EndState, State, Terminal
<1>5. r \in Record /\ r.kind = rec[j].kind /\ r.state = EndState(j) /\ r.done = rec[j].done
  BY <1>3, <1>4, RecordEnds
<1>6. r # None /\ rec[j].kind \in Kind
  BY <1>3, <1>5, RecordFields
<1> HIDE DEF r
<1>7. TypeOK'
  BY <1>1, <1>5, <1>6 DEF JobInv, TypeOK
<1>8. /\ pc'[j] = "final" /\ \A i \in Job \ {j} : pc'[i] = pc[i]
      /\ rec'[j] = r /\ \A i \in Job \ {j} : rec'[i] = rec[i]
      /\ running'[rec[j].kind] = None
      /\ \A k \in Kind \ {rec[j].kind} : running'[k] = running[k]
  BY <1>1, <1>6 DEF JobInv, TypeOK
<1>9. SlotsOK'
  <2>1. ASSUME NEW k \in Kind, running'[k] # None
        PROVE  /\ rec'[running'[k]] # None /\ rec'[running'[k]].kind = k
               /\ pc'[running'[k]] \in Unfinished
    <3>1. running'[k] = running[k] /\ k # rec[j].kind
      BY <1>8, <2>1
    <3>2. running[k] \in Job /\ rec[running[k]].kind = k /\ rec[running[k]] # None
          /\ pc[running[k]] \in Unfinished
      BY <2>1, <3>1 DEF JobInv, TypeOK, SlotsOK
    <3>3. QED
      BY <1>8, <3>1, <3>2
  <2>2. ASSUME NEW i \in Job, rec'[i] # None, pc'[i] \in Unfinished
        PROVE  running'[rec'[i].kind] = i
    <3>1. i # j
      BY <1>8, <2>2 DEF Unfinished, Working
    <3>2. rec'[i] = rec[i] /\ running[rec[i].kind] = i /\ rec[i] \in Record
      BY <1>8, <2>2, <3>1 DEF JobInv, TypeOK, SlotsOK
    <3>3. running[rec[j].kind] = j
      BY <1>1, <1>2 DEF JobInv, SlotsOK, Unfinished
    <3>4. rec[i].kind \in Kind
      BY <3>2, RecordFields
    <3>5. QED
      BY <1>8, <3>1, <3>2, <3>3, <3>4
  <2>3. running'[IndexKind] # None => \A k \in Kind \ {IndexKind} : running'[k] = None
    BY <1>8, JobConstants DEF JobInv, SlotsOK
  <2>4. QED
    BY <2>1, <2>2, <2>3 DEF SlotsOK
<1>10. ThreadsOK'
  <2>1. caller[j] \notin {"claimed", "persisted"}
    BY <1>1 DEF JobInv, ThreadsOK
  <2>2. "final" \notin Unfinished
    BY DEF Unfinished, Working
  <2>3. QED
    BY <1>1, <1>6, <1>8, <2>1, <2>2 DEF JobInv, ThreadsOK
<1>11. RowsOK'
  BY <1>1, <1>5, <1>6, <1>8 DEF JobInv, RowsOK
<1>12. CancelOK'
  BY <1>1, <1>4, <1>5, <1>8 DEF JobInv, CancelOK, CancelHitsItsJob
<1>13. ProfilerHeldByWorker'
  BY <1>1, <1>8 DEF JobInv, TypeOK, ProfilerHeldByWorker, Working
<1>14. QED
  BY <1>7, <1>9, <1>10, <1>11, <1>12, <1>13 DEF JobInv

(* A restart: nothing runs any more, and no row is touched.                *)
LEMMA CrashKeepsInv ==
  ASSUME JobInv, Crash PROVE JobInv'
<1> DEFINE alive == {j \in Job : rec[j] # None /\ pc[j] \notin {"done", "dead"}}
<1>1. /\ running' = [k \in Kind |-> None]
      /\ pc' = [j \in Job |-> IF j \in alive THEN "dead" ELSE pc[j]]
      /\ caller' = [j \in Job |->
                      IF caller[j] \in {"none", "returned"} THEN caller[j] ELSE "lost"]
      /\ died' = died \cup alive
      /\ result' = [j \in Job |-> "none"]
      /\ ctx' = {} /\ cancelling' = {} /\ profiler' = None /\ sse' = <<>>
      /\ UNCHANGED <<rec, asked, row, unsaved, answer>>
  BY DEF Crash
<1>2. TypeOK'
  <2>1. sse' \in Seq(Event) /\ Len(sse') <= ChanCap
    BY <1>1, JobConstants
  <2>2. QED
    BY <1>1, <2>1 DEF JobInv, TypeOK
<1>3. \A j \in Job : /\ rec[j] # None => pc'[j] \in {"done", "dead"}
                     /\ rec[j] = None => pc'[j] = pc[j]
                     /\ pc[j] \in {"done", "dead"} => pc'[j] = pc[j]
  BY <1>1
<1>4. SlotsOK'
  BY <1>1, <1>3, JobConstants DEF SlotsOK, Unfinished, Working
<1>5. ThreadsOK'
  BY <1>1, <1>3 DEF JobInv, ThreadsOK, Unfinished, Working
<1>6. RowsOK'
  BY <1>1, <1>3 DEF JobInv, RowsOK
<1>7. CancelOK' /\ ProfilerHeldByWorker'
  BY <1>1 DEF JobInv, CancelOK, CancelHitsItsJob, ProfilerHeldByWorker
<1>8. QED
  BY <1>2, <1>4, <1>5, <1>6, <1>7 DEF JobInv

LEMMA DeliverKeepsInv ==
  ASSUME JobInv, Deliver PROVE JobInv'
<1>1. /\ sse # <<>> /\ sse' = Tail(sse)
      /\ UNCHANGED <<running, rec, caller, pc, result, ctx, cancelling, asked, profiler, row,
                     unsaved, answer, died>>
  BY DEF Deliver
<1>2. sse \in Seq(Event) /\ Len(sse) <= ChanCap
  BY DEF JobInv, TypeOK
<1>3. sse' \in Seq(Event) /\ Len(sse') <= ChanCap
  BY <1>1, <1>2, JobConstants
<1>4. TypeOK'
  BY <1>1, <1>3 DEF JobInv, TypeOK
<1>5. SlotsOK' /\ ThreadsOK' /\ RowsOK' /\ CancelOK' /\ ProfilerHeldByWorker'
  BY <1>1
  DEF JobInv, SlotsOK, ThreadsOK, RowsOK, CancelOK, CancelHitsItsJob, ProfilerHeldByWorker
<1>6. QED
  BY <1>4, <1>5 DEF JobInv

LEMMA NextKeepsInv == JobInv /\ [Next]_jobVars => JobInv'
<1> SUFFICES ASSUME JobInv, [Next]_jobVars PROVE JobInv'
  OBVIOUS
<1>1. ASSUME NEW k \in Kind, NEW j \in Job, Start(k, j) PROVE JobInv'
  BY <1>1, StartKeepsInv
<1>2. ASSUME NEW j \in Job, CallerStep(j) PROVE JobInv'
  BY <1>2, CallerKeepsInv
<1>3. ASSUME NEW j \in Job, RunStep(j) PROVE JobInv'
  <2>1. ASSUME NEW started \in BOOLEAN, BeginWork(j, started) PROVE JobInv'
    BY <2>1, BeginWorkKeepsInv
  <2>2. ASSUME NEW throttled \in BOOLEAN, Progress(j, throttled) PROVE JobInv'
    BY <2>2, ProgressKeepsInv
  <2>3. ASSUME NEW res \in {"ok", "error"}, WorkEnds(j, res) PROVE JobInv'
    BY <2>3, WorkEndsKeepsInv
  <2>4. CASE Finish(j)
    BY <2>4, FinishKeepsInv
  <2>5. CASE \/ \E saved \in BOOLEAN : PersistProgress(j, saved) \/ PersistFinal(j, saved)
             \/ TellProgress(j) \/ TellDone(j)
    BY <2>5, WriteKeepsInv
  <2>6. QED
    BY <1>3, <2>1, <2>2, <2>3, <2>4, <2>5 DEF RunStep
<1>4. ASSUME NEW j \in Job, CancelLookup(j) \/ CancelFire(j) PROVE JobInv'
  BY <1>4, CancelKeepsInv
<1>5. CASE Deliver \/ Crash
  BY <1>5, DeliverKeepsInv, CrashKeepsInv
<1>6. CASE UNCHANGED jobVars
  BY <1>6
  DEF jobVars, JobInv, TypeOK, SlotsOK, ThreadsOK, RowsOK, CancelOK, CancelHitsItsJob,
      ProfilerHeldByWorker
<1>7. QED
  BY <1>1, <1>2, <1>3, <1>4, <1>5, <1>6 DEF Next

(* A job whose work is not over holds the slot of its kind, and rows lag
   behind records, under every interleaving of handlers, jobs,
   cancellations and restarts. *)
THEOREM JobInvariant == Spec => []JobInv
  BY InitJobInv, NextKeepsInv, PTL DEF Spec

(* Type correctness; the events under way never exceed the channel.        *)
THEOREM JobTypes == Spec => []TypeOK
<1>1. JobInv => TypeOK
  BY DEF JobInv
<1>2. QED
  BY <1>1, JobInvariant, PTL

(* No two jobs of a kind work at once, and nothing works beside an index
   job: the map m.running is a lock on the work itself. *)
THEOREM JobsFlyAlone == Spec => []SingleFlight
<1>1. JobInv => SingleFlight
  <2> SUFFICES ASSUME JobInv, NEW i \in Job, NEW j \in Job, i # j,
                      pc[i] \in Working, pc[j] \in Working
               PROVE  rec[i].kind # rec[j].kind /\ IndexKind \notin {rec[i].kind, rec[j].kind}
    BY DEF SingleFlight
  <2>1. rec[i] # None /\ rec[j] # None
    BY DEF JobInv, ThreadsOK, Working
  <2>2. rec[i] \in Record /\ rec[j] \in Record
    BY <2>1 DEF JobInv, TypeOK
  <2>3. rec[i].kind \in Kind /\ rec[j].kind \in Kind
    BY <2>2, RecordFields
  <2>4. running[rec[i].kind] = i /\ running[rec[j].kind] = j
    BY <2>1 DEF JobInv, SlotsOK, Unfinished
  <2>5. running[IndexKind] # None => \A k \in Kind \ {IndexKind} : running[k] = None
    BY DEF JobInv, SlotsOK
  <2>6. QED
    BY <2>3, <2>4, <2>5, NoneIsNothing
<1>2. QED
  BY <1>1, JobInvariant, PTL

(* A job ends as canceled only when that job was asked to stop.            *)
THEOREM CancelIsAsked == Spec => []CancelHitsItsJob
<1>1. JobInv => CancelHitsItsJob
  BY DEF JobInv, CancelOK
<1>2. QED
  BY <1>1, JobInvariant, PTL

(* profileMu is never left locked by a job that is not at work.            *)
THEOREM ProfilerNotLeaked == Spec => []ProfilerHeldByWorker
<1>1. JobInv => ProfilerHeldByWorker
  BY DEF JobInv
<1>2. QED
  BY <1>1, JobInvariant, PTL

(* The rows of ops.db are never rewritten backwards: the three writers of a
   job's row, none of which holds m.mu, are ordered by the job itself. *)
THEOREM HistoryNotRewritten == Spec => RowsOnlyAdvance
<1> DEFINE Advance == \A j \in Job : row[j] # None =>
                        /\ row'[j] # None /\ row'[j].done >= row[j].done
                        /\ row[j].state \in Terminal => row'[j] = row[j]
<1>1. ASSUME JobInv, Next PROVE [Advance]_row
  <2>1. ASSUME NEW j \in Job, NEW saved \in BOOLEAN, Upsert(j, rec[j], saved),
               pc[j] \notin {"announce", "done", "dead"}
        PROVE  Advance
    <3> SUFFICES ASSUME NEW i \in Job, row[i] # None
                 PROVE  /\ row'[i] # None /\ row'[i].done >= row[i].done
                        /\ row[i].state \in Terminal => row'[i] = row[i]
      OBVIOUS
    <3>1. /\ rec[i] # None /\ row[i].done <= rec[i].done
          /\ row[i].state \in Terminal => pc[i] \in {"announce", "done", "dead"}
      BY <1>1 DEF JobInv, RowsOK
    <3>2. row'[i] = row[i] \/ (i = j /\ row'[i] = rec[i])
      BY <1>1, <2>1 DEF Upsert, JobInv, TypeOK
    <3>3. row[i] \in Record /\ rec[i] \in Record
      BY <1>1, <3>1 DEF JobInv, TypeOK
    <3>4. row[i].done \in Nat /\ rec[i].done \in Nat
      BY <3>3, JobConstants DEF Record
    <3>5. QED
      BY <2>1, <3>1, <3>2, <3>4
  <2>2. ASSUME NEW j \in Job, NEW saved \in BOOLEAN,
               PersistStart(j, saved) \/ PersistProgress(j, saved) \/ PersistFinal(j, saved)
        PROVE  Advance
    <3>1. Upsert(j, rec[j], saved)
      BY <2>2 DEF PersistStart, PersistProgress, PersistFinal
    <3>2. pc[j] \notin {"announce", "done", "dead"}
      BY <1>1, <2>2 DEF PersistStart, PersistProgress, PersistFinal, JobInv, ThreadsOK
    <3>3. QED
      BY <2>1, <3>1, <3>2
  <2>3. \/ row' = row
        \/ \E j \in Job, saved \in BOOLEAN :
             PersistStart(j, saved) \/ PersistProgress(j, saved) \/ PersistFinal(j, saved)
    BY <1>1
    DEF Next, Start, CallerStep, RunStep, Spawn, Return, BeginWork, Progress, TellProgress,
        WorkEnds, Finish, TellDone, CancelLookup, CancelFire, Deliver, Crash
  <2>4. QED
    BY <2>2, <2>3
<1>2. JobInv /\ [Next]_jobVars => [Advance]_row
  BY <1>1 DEF jobVars
<1>3. QED
  BY <1>2, JobInvariant, PTL DEF Spec, RowsOnlyAdvance

(* A step that touches one job j keeps what SettledOK says of the others.  *)
LEMMA OthersStaySettled ==
  ASSUME TypeOK, SettledOK, NEW j \in Job,
         \A i \in Job \ {j} : /\ pc'[i] = pc[i] /\ rec'[i] = rec[i] /\ row'[i] = row[i]
                              /\ i \in unsaved' <=> i \in unsaved,
         died' = died,
         /\ pc'[j] = "final" => rec'[j].state \in Terminal
         /\ pc'[j] \in {"announce", "done"} /\ row'[j] # None /\ row'[j].state = "running"
              => j \in unsaved'
         /\ pc'[j] = "dead" => j \in died
  PROVE  SettledOK'
  BY DEF SettledOK

(* Every step keeps SettledOK: only PersistFinal brings a job to announce,
   with the row of its final record or a failed write. *)
LEMMA NextKeepsSettled == JobInv /\ SettledOK /\ [Next]_jobVars => SettledOK'
<1> SUFFICES ASSUME JobInv, SettledOK, [Next]_jobVars PROVE SettledOK'
  OBVIOUS
<1> TypeOK
  BY DEF JobInv
<1>1. ASSUME NEW k \in Kind, NEW j \in Job, Start(k, j) PROVE SettledOK'
  <2>1. pc[j] = "none"
    BY <1>1 DEF Start, JobInv, ThreadsOK
  <2>2. QED
    BY <1>1, <2>1, OthersStaySettled DEF Start, TypeOK
<1>2. ASSUME NEW j \in Job, NEW saved \in BOOLEAN,
             PersistStart(j, saved) \/ PersistProgress(j, saved)
      PROVE  SettledOK'
  <2>1. pc[j] \in {"none", "persist"} /\ pc'[j] \in {"none", "tell"}
    BY <1>2 DEF PersistStart, PersistProgress, JobInv, ThreadsOK, TypeOK
  <2>2. \A i \in Job \ {j} : /\ pc'[i] = pc[i] /\ rec'[i] = rec[i] /\ row'[i] = row[i]
                             /\ i \in unsaved' <=> i \in unsaved
    BY <1>2 DEF PersistStart, PersistProgress, Upsert, TypeOK
  <2>3. died' = died
    BY <1>2 DEF PersistStart, PersistProgress
  <2>4. QED
    BY <2>1, <2>2, <2>3, OthersStaySettled
<1>3. ASSUME NEW j \in Job, NEW saved \in BOOLEAN, PersistFinal(j, saved) PROVE SettledOK'
  <2>1. pc'[j] = "announce" /\ died' = died
    BY <1>3 DEF PersistFinal, TypeOK
  <2>2. \A i \in Job \ {j} : /\ pc'[i] = pc[i] /\ rec'[i] = rec[i] /\ row'[i] = row[i]
                             /\ i \in unsaved' <=> i \in unsaved
    BY <1>3 DEF PersistFinal, Upsert, TypeOK
  <2>3. rec[j].state # "running"
    BY <1>3 DEF PersistFinal, SettledOK, Terminal
  <2>4. j \in unsaved' \/ row'[j] = rec[j]
    BY <1>3 DEF PersistFinal, Upsert, TypeOK
  <2>5. QED
    BY <2>1, <2>2, <2>3, <2>4, OthersStaySettled
<1>4. ASSUME NEW j \in Job, Finish(j) PROVE SettledOK'
  <2>1. rec[j] \in Record
    BY <1>4 DEF Finish, JobInv, ThreadsOK, TypeOK
  <2>2. rec'[j].state = EndState(j)
    BY <1>4, <2>1 DEF Finish, TypeOK, Record
  <2>3. EndState(j) \in Terminal
    BY DEF EndState, Terminal
  <2>4. pc'[j] = "final" /\ died' = died
    BY <1>4 DEF Finish, TypeOK
  <2>5. \A i \in Job \ {j} : /\ pc'[i] = pc[i] /\ rec'[i] = rec[i] /\ row'[i] = row[i]
                             /\ i \in unsaved' <=> i \in unsaved
    BY <1>4 DEF Finish, TypeOK
  <2>6. QED
    BY <2>2, <2>3, <2>4, <2>5, OthersStaySettled
<1>5. ASSUME NEW j \in Job,
             \/ Spawn(j) \/ TellProgress(j) \/ TellDone(j)
             \/ \E started \in BOOLEAN : BeginWork(j, started)
             \/ \E throttled \in BOOLEAN : Progress(j, throttled)
             \/ \E res \in {"ok", "error"} : WorkEnds(j, res)
      PROVE  SettledOK'
  <2>1. \A i \in Job \ {j} : /\ pc'[i] = pc[i] /\ rec'[i] = rec[i] /\ row'[i] = row[i]
                             /\ i \in unsaved' <=> i \in unsaved
    BY <1>5 DEF Spawn, TellProgress, TellDone, BeginWork, Progress, WorkEnds, TypeOK
  <2>2. died' = died /\ row' = row /\ unsaved' = unsaved
    BY <1>5 DEF Spawn, TellProgress, TellDone, BeginWork, Progress, WorkEnds
  <2>3. \/ pc'[j] \in {"begin", "working", "persist", "ended"}
        \/ pc[j] = "announce" /\ pc'[j] = "done"
    BY <1>5 DEF Spawn, TellProgress, TellDone, BeginWork, Progress, WorkEnds, TypeOK
  <2>4. QED
    BY <2>1, <2>2, <2>3, OthersStaySettled DEF SettledOK
<1>6. ASSUME NEW j \in Job, Return(j) \/ CancelLookup(j) \/ CancelFire(j) PROVE SettledOK'
  BY <1>6 DEF Return, CancelLookup, CancelFire, SettledOK
<1>7. CASE Deliver
  BY <1>7 DEF Deliver, SettledOK
<1>8. CASE Crash
  <2> SUFFICES ASSUME NEW j \in Job
               PROVE  /\ pc'[j] \notin {"final", "announce"}
                      /\ pc'[j] = "done" => pc[j] = "done"
                      /\ pc'[j] = "dead" => j \in died'
                      /\ rec' = rec /\ row' = row /\ unsaved' = unsaved
    BY DEF SettledOK
  <2>1. pc'[j] = IF rec[j] # None /\ pc[j] \notin {"done", "dead"} THEN "dead" ELSE pc[j]
    BY <1>8 DEF Crash
  <2>2. rec[j] = None => pc[j] = "none"
    BY DEF JobInv, ThreadsOK
  <2>3. pc[j] = "dead" => j \in died
    BY DEF SettledOK
  <2>4. died' = died \cup {i \in Job : rec[i] # None /\ pc[i] \notin {"done", "dead"}}
    BY <1>8 DEF Crash
  <2>5. rec' = rec /\ row' = row /\ unsaved' = unsaved
    BY <1>8 DEF Crash
  <2>6. QED
    BY <2>1, <2>2, <2>3, <2>4, <2>5
<1>9. CASE UNCHANGED jobVars
  BY <1>9 DEF jobVars, SettledOK
<1>10. QED
  BY <1>1, <1>2, <1>3, <1>4, <1>5, <1>6, <1>7, <1>8, <1>9 DEF Next, CallerStep, RunStep

(* A row that says running without a job in m.running is the orphan of a dead
   process, the victim of a failed write, or read in the window between the
   deletion from m.running and the final row. *)
THEOREM OrphansExplained == Spec => []OrphanRowExplained
<1>1. Init => SettledOK
  BY DEF Init, SettledOK
<1>2. JobInv /\ SettledOK => OrphanRowExplained
  <2> SUFFICES ASSUME JobInv, SettledOK, NEW j \in Job,
                      row[j] # None, row[j].state = "running", ~Live(j)
               PROVE  j \in died \/ j \in unsaved \/ pc[j] = "final"
    BY DEF OrphanRowExplained
  <2>1. rec[j] # None
    BY DEF JobInv, RowsOK
  <2>2. rec[j].kind \in Kind
    BY <2>1, RecordFields DEF JobInv, TypeOK
  <2>3. pc[j] \notin Unfinished
    BY <2>1, <2>2 DEF JobInv, SlotsOK, Live
  <2>4. pc[j] \in {"final", "announce", "done", "dead"}
    BY <2>3 DEF JobInv, TypeOK, Unfinished
  <2>5. QED
    BY <2>4 DEF SettledOK
<1>3. QED
  BY <1>1, <1>2, NextKeepsSettled, JobInvariant, PTL DEF Spec

=============================================================================
