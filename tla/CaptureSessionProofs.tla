------------------------ MODULE CaptureSessionProofs -------------------------
(***************************************************************************)
(* AckedIsKept and FinalCounts for any number of sessions and exports,     *)
(* with or without overlapping starts, and LiveIsKnown where starts do not *)
(* overlap.  The inductive invariant follows a receiver: an export it has  *)
(* taken finds the spans file open until the transport it came by is       *)
(* drained, and one session at a time is under way.                        *)
(***************************************************************************)
EXTENDS CaptureSession, FiniteSetTheorems, TLAPS

Receiving == {"pid", "register", "live", "close", "undo"}
Draining  == {"drain", "drop"}

\* Only a receiver that is up takes exports, and its spans file is open.
ReceiverOpen ==
    /\ \A a \in Session : lis[a] # {} => pc[a] \in Receiving
    /\ \A a \in Session : pc[a] \in Receiving \cup Draining \cup {"bind"} => a \in open

\* An export under way is at a receiver that waits for it.
ExportHeld ==
    /\ \A e \in Exports : ex[e].pc = "body" =>
          ex[e].at \in Session /\ pc[ex[e].at] \in Receiving \cup Draining
    /\ \A e \in Exports : ex[e].pc = "body" /\ pc[ex[e].at] \in Draining => ex[e].by = "http"
    /\ \A e \in Exports : ex[e].pc = "acked" => ex[e].at \in Session /\ e \in took[ex[e].at]

\* The entry of serve's manager is a session of serve that is up.
ActiveIsLive == active # None => active \in Api /\ pc[active] = "live"

\* The steps only the sessions with a receiver, or only the ingestions, take.
OwnSteps ==
    /\ \A a \in Session : pc[a] \in Receiving \cup Draining \cup {"bind", "stopped"} => a \notin Ingests
    /\ sig \subseteq Cli

\* What a finalised session wrote.
Summed ==
    \A a \in Session : pc[a] \in {"sum", "final"} /\ meta.by = a =>
        meta.state = "stopped" /\ meta.count = Cardinality(took[a])

SafeInv ==
    /\ TypeOK /\ ReceiverOpen /\ ExportHeld /\ ActiveIsLive /\ OwnSteps /\ Summed /\ AckedIsKept

Rest == Resting \ {"live"}

\* Without overlapping starts: one session at most is up or under way, and its
\* process lives.
OneBusy ==
    /\ \A a, b \in Session : pc[a] \notin Rest /\ pc[b] \notin Rest => a = b
    /\ \A a \in Session : pc[a] \notin Rest => ProcOf(a) \in alive

\* What a start has written when it comes to each step.
StartWrote ==
    \A a \in Session :
        /\ pc[a] \in {"bind", "pid", "register"} => meta = [state |-> "running", by |-> a, count |-> 0]
        /\ pc[a] = "register" => pid = ProcOf(a)

TurnInv == OneBusy /\ StartWrote /\ LiveIsKnown

\* A session counts no more exports than there are.
LEMMA TookBounded ==
    ASSUME TypeOK, NEW a \in Session
    PROVE  /\ IsFiniteSet(took[a])
           /\ Cardinality(took[a]) \in 0..Cardinality(Exports)
<1>1. took[a] \subseteq Exports
  BY DEF TypeOK
<1>2. IsFiniteSet(took[a]) /\ Cardinality(took[a]) <= Cardinality(Exports)
  BY <1>1, FS_Subset, CaptureAssumption
<1>3. Cardinality(took[a]) \in Nat /\ Cardinality(Exports) \in Nat
  BY <1>2, FS_CardinalityType, CaptureAssumption
<1> QED BY <1>2, <1>3

LEMMA CountsFrom0 == 0 \in 0..Cardinality(Exports)
<1>1. Cardinality(Exports) \in Nat
  BY FS_CardinalityType, CaptureAssumption
<1> QED BY <1>1

\* The initial state.
LEMMA InitSafe == Init => SafeInv
<1> SUFFICES ASSUME Init PROVE SafeInv
  OBVIOUS
<1>2. TypeOK
  BY CountsFrom0, CaptureAssumption DEF Init, TypeOK, Resting, Session, Transport, Serve, None
<1> QED
  BY <1>2, CaptureAssumption DEF SafeInv, Init, Resting, Receiving, Draining, ReceiverOpen,
     ExportHeld,
     ActiveIsLive, OwnSteps, Summed, AckedIsKept

\* Every step keeps the types.
LEMMA StepType ==
    ASSUME TypeOK, OwnSteps, ActiveIsLive, [Next]_vars PROVE TypeOK'
<1> USE DEF TypeOK, OwnSteps, ActiveIsLive, Resting, Transport, Torn, ProcOf,
        Session, Receiving, Draining
<1>1. ASSUME NEW a \in Session, Begin(a) PROVE TypeOK'
  BY <1>1, CaptureAssumption DEF Begin, Goto, LiveCollision, disk
<1>2. ASSUME NEW a \in Session, TruncateMeta(a) PROVE TypeOK'
  BY <1>2, CountsFrom0 DEF TruncateMeta, Goto, disk
<1>3. ASSUME NEW a \in Session, OpenSpans(a) PROVE TypeOK'
  BY <1>3, CountsFrom0 DEF OpenSpans, Goto, disk
<1>4. ASSUME NEW a \in Session, Bind(a) PROVE TypeOK'
  BY <1>4, CaptureAssumption DEF Bind, Goto, disk
<1>5. ASSUME NEW a \in Session, BindFails(a) PROVE TypeOK'
  BY <1>5, CaptureAssumption DEF BindFails, Goto, Exit, disk
<1>6. ASSUME NEW a \in Session, WritePID(a) PROVE TypeOK'
  BY <1>6, CaptureAssumption DEF WritePID, Goto, disk
<1>7. ASSUME NEW a \in Session, WritePIDFails(a) PROVE TypeOK'
  BY <1>7, CaptureAssumption DEF WritePIDFails, Goto, disk
<1>8. ASSUME NEW a \in Session, Register(a) PROVE TypeOK'
  BY <1>8, CaptureAssumption DEF Register, Goto, disk
<1>9. ASSUME NEW e \in Exports, Accept(e) PROVE TypeOK'
  BY <1>9, CaptureAssumption DEF Accept, Goto, disk
<1>10. ASSUME NEW e \in Exports, AppendSpans(e) PROVE TypeOK'
  BY <1>10, CaptureAssumption DEF AppendSpans, Goto, disk
<1>11. ASSUME NEW e \in Exports, AppendFails(e) PROVE TypeOK'
  BY <1>11, CaptureAssumption DEF AppendFails, Goto, disk
<1>12. CASE ApiStop
  BY <1>12, CaptureAssumption DEF ApiStop, Goto, SignalPid, Dies, Handles, disk
<1>13. CASE CliStop
  BY <1>13, CaptureAssumption DEF CliStop, SignalPid, Dies, Handles, disk
<1>14. ASSUME NEW a \in Session, TakeSignal(a) PROVE TypeOK'
  BY <1>14, CaptureAssumption DEF TakeSignal, Goto, disk
<1>15. ASSUME NEW a \in Session, ChildEnds(a) PROVE TypeOK'
  BY <1>15, CaptureAssumption DEF ChildEnds, Goto, disk
<1>16. ASSUME NEW p \in alive, Crash(p) PROVE TypeOK'
  BY <1>16, CaptureAssumption DEF Crash, Dies, disk
<1>17. ASSUME NEW a \in Session, CloseGRPC(a) PROVE TypeOK'
  BY <1>17, CaptureAssumption DEF CloseGRPC, Goto, Drained, InFlight, disk
<1>18. ASSUME NEW a \in Session, CloseHTTP(a) PROVE TypeOK'
  BY <1>18, CaptureAssumption DEF CloseHTTP, Goto, Exit, Drained, InFlight, disk
<1>19. ASSUME NEW a \in Session, RemovePID(a) PROVE TypeOK'
  BY <1>19, CaptureAssumption DEF RemovePID, Goto, disk
<1>20. ASSUME NEW a \in Session, IngestAppend(a) PROVE TypeOK'
  BY <1>20, CaptureAssumption DEF IngestAppend, Goto, disk
<1>21. ASSUME NEW a \in Session, CloseFile(a) PROVE TypeOK'
  BY <1>21, CountsFrom0 DEF CloseFile, Goto, disk
<1>22. ASSUME NEW a \in Session, WriteFinal(a) PROVE TypeOK'
  <2>1. Cardinality(took[a]) \in 0..Cardinality(Exports)
    BY CaptureAssumption, TookBounded
  <2> QED BY <1>22, <2>1 DEF WriteFinal, Goto, Exit
<1>23. ASSUME NEW a \in Session, Progress(a) PROVE TypeOK'
  BY <1>23, CaptureAssumption DEF Progress, Goto, disk
<1>24. CASE UNCHANGED vars
  BY <1>24 DEF vars, disk
<1> QED
  BY <1>1, <1>2, <1>3, <1>4, <1>5, <1>6, <1>7, <1>8, <1>9, <1>10, <1>11, <1>12, <1>13, <1>14,
     <1>15, <1>16, <1>17, <1>18, <1>19, <1>20, <1>21, <1>22, <1>23, <1>24
  DEF Next, StartStep, StopStep

\* The death of a process ends its receivers and the exports under way at them.
LEMMA DeathKeeps ==
    ASSUME SafeInv, NEW p, Dies(p), UNCHANGED <<took, spans>>
    PROVE  ReceiverOpen' /\ ExportHeld' /\ AckedIsKept'
<1> USE DEF SafeInv, TypeOK, Receiving, Draining, Session
<1>1. ReceiverOpen'
  BY DEF Dies, ReceiverOpen, Resting
<1>2. ExportHeld'
  BY DEF Dies, ExportHeld, Resting
<1>3. AckedIsKept'
  BY DEF Dies, AckedIsKept
<1> QED BY <1>1, <1>2, <1>3

\* So does a signal, which kills or is only noted.
LEMMA SignalKeeps ==
    ASSUME SafeInv, SignalPid, UNCHANGED <<took, spans>>
    PROVE  ReceiverOpen' /\ ExportHeld' /\ AckedIsKept'
<1>1. CASE Dies(pid)
  BY <1>1, DeathKeeps
<1>2. CASE UNCHANGED <<pc, lis, open, ex>>
  BY <1>2 DEF SafeInv, ReceiverOpen, ExportHeld, AckedIsKept
<1> QED BY <1>1, <1>2 DEF SignalPid

\* Every step keeps the receivers and their exports as they should be.
LEMMA StepReceiver ==
    ASSUME SafeInv, [Next]_vars PROVE ReceiverOpen' /\ ExportHeld' /\ AckedIsKept'
<1> USE DEF SafeInv, TypeOK, ReceiverOpen, ExportHeld, AckedIsKept,
        ActiveIsLive, OwnSteps, Resting, Receiving, Draining, Transport, ProcOf,
        Session
<1>1. ASSUME NEW a \in Session, Begin(a) PROVE ReceiverOpen' /\ ExportHeld' /\ AckedIsKept'
  BY <1>1, CaptureAssumption DEF Begin, Goto, LiveCollision, disk
<1>2. ASSUME NEW a \in Session, TruncateMeta(a) PROVE ReceiverOpen' /\ ExportHeld' /\ AckedIsKept'
  BY <1>2, CaptureAssumption DEF TruncateMeta, Goto, disk
<1>3. ASSUME NEW a \in Session, OpenSpans(a) PROVE ReceiverOpen' /\ ExportHeld' /\ AckedIsKept'
  BY <1>3, CaptureAssumption DEF OpenSpans, Goto, disk
<1>4. ASSUME NEW a \in Session, Bind(a) PROVE ReceiverOpen' /\ ExportHeld' /\ AckedIsKept'
  BY <1>4, CaptureAssumption DEF Bind, Goto, disk
<1>5. ASSUME NEW a \in Session, BindFails(a) PROVE ReceiverOpen' /\ ExportHeld' /\ AckedIsKept'
  BY <1>5, CaptureAssumption DEF BindFails, Goto, Exit, disk
<1>6. ASSUME NEW a \in Session, WritePID(a) PROVE ReceiverOpen' /\ ExportHeld' /\ AckedIsKept'
  BY <1>6, CaptureAssumption DEF WritePID, Goto, disk
<1>7. ASSUME NEW a \in Session, WritePIDFails(a) PROVE ReceiverOpen' /\ ExportHeld' /\ AckedIsKept'
  BY <1>7, CaptureAssumption DEF WritePIDFails, Goto, disk
<1>8. ASSUME NEW a \in Session, Register(a) PROVE ReceiverOpen' /\ ExportHeld' /\ AckedIsKept'
  BY <1>8, CaptureAssumption DEF Register, Goto, disk
<1>9. ASSUME NEW e \in Exports, Accept(e) PROVE ReceiverOpen' /\ ExportHeld' /\ AckedIsKept'
  BY <1>9, CaptureAssumption DEF Accept, Goto, disk
<1>10. ASSUME NEW e \in Exports, AppendSpans(e) PROVE ReceiverOpen' /\ ExportHeld' /\ AckedIsKept'
  <2>1. ex[e].pc = "body" /\ ex[e].at \in Session /\ ex[e].at \in open
    BY <1>10 DEF AppendSpans
  <2>2. UNCHANGED <<pc, lis, open>>
    BY <1>10 DEF AppendSpans
  <2>3. /\ took' = [took EXCEPT ![ex[e].at] = @ \cup {e}] /\ spans' = spans \cup {e}
        /\ ex' = [ex EXCEPT ![e].pc = "acked"]
    BY <1>10, <2>1 DEF AppendSpans
  <2>4. ReceiverOpen'
    BY <2>2
  <2>5. ExportHeld'
    BY <2>1, <2>2, <2>3
  <2>6. AckedIsKept'
    BY <2>3
  <2> QED BY <2>4, <2>5, <2>6
<1>11. ASSUME NEW e \in Exports, AppendFails(e) PROVE ReceiverOpen' /\ ExportHeld' /\ AckedIsKept'
  BY <1>11, CaptureAssumption DEF AppendFails, Goto, disk
<1>12. CASE ApiStop
  <2>1. CASE active # None
    BY <1>12, <2>1, CaptureAssumption DEF ApiStop, Goto, disk
  <2>2. CASE active = None
    BY <1>12, <2>2, SignalKeeps DEF ApiStop, disk
  <2> QED BY <2>1, <2>2
<1>13. CASE CliStop
  BY <1>13, SignalKeeps DEF CliStop, disk
<1>14. ASSUME NEW a \in Session, TakeSignal(a) PROVE ReceiverOpen' /\ ExportHeld' /\ AckedIsKept'
  BY <1>14, CaptureAssumption DEF TakeSignal, Goto, disk
<1>15. ASSUME NEW a \in Session, ChildEnds(a) PROVE ReceiverOpen' /\ ExportHeld' /\ AckedIsKept'
  BY <1>15, CaptureAssumption DEF ChildEnds, Goto, disk
<1>16. ASSUME NEW p \in alive, Crash(p) PROVE ReceiverOpen' /\ ExportHeld' /\ AckedIsKept'
  BY <1>16, DeathKeeps DEF Crash, disk
<1>17. ASSUME NEW a \in Session, CloseGRPC(a) PROVE ReceiverOpen' /\ ExportHeld' /\ AckedIsKept'
  BY <1>17, CaptureAssumption DEF CloseGRPC, Goto, Drained, InFlight, disk
<1>18. ASSUME NEW a \in Session, CloseHTTP(a) PROVE ReceiverOpen' /\ ExportHeld' /\ AckedIsKept'
  BY <1>18, CaptureAssumption DEF CloseHTTP, Goto, Exit, Drained, InFlight, disk
<1>19. ASSUME NEW a \in Session, RemovePID(a) PROVE ReceiverOpen' /\ ExportHeld' /\ AckedIsKept'
  BY <1>19, CaptureAssumption DEF RemovePID, Goto, disk
<1>20. ASSUME NEW a \in Session, IngestAppend(a) PROVE ReceiverOpen' /\ ExportHeld' /\ AckedIsKept'
  BY <1>20, CaptureAssumption DEF IngestAppend, Goto, disk
<1>21. ASSUME NEW a \in Session, CloseFile(a) PROVE ReceiverOpen' /\ ExportHeld' /\ AckedIsKept'
  BY <1>21, CaptureAssumption DEF CloseFile, Goto, disk
<1>22. ASSUME NEW a \in Session, WriteFinal(a) PROVE ReceiverOpen' /\ ExportHeld' /\ AckedIsKept'
  BY <1>22, CaptureAssumption DEF WriteFinal, Goto, Exit, disk
<1>23. ASSUME NEW a \in Session, Progress(a) PROVE ReceiverOpen' /\ ExportHeld' /\ AckedIsKept'
  BY <1>23, CaptureAssumption DEF Progress, Goto, disk
<1>24. CASE UNCHANGED vars
  BY <1>24 DEF vars, disk
<1> QED
  BY <1>1, <1>2, <1>3, <1>4, <1>5, <1>6, <1>7, <1>8, <1>9, <1>10, <1>11, <1>12, <1>13, <1>14,
     <1>15, <1>16, <1>17, <1>18, <1>19, <1>20, <1>21, <1>22, <1>23, <1>24
  DEF Next, StartStep, StopStep

\* Every step keeps the entry of the manager and the steps of each kind.
LEMMA StepActive ==
    ASSUME SafeInv, [Next]_vars PROVE ActiveIsLive' /\ OwnSteps'
<1> USE DEF SafeInv, TypeOK, ActiveIsLive, OwnSteps, Resting, Receiving,
        Draining, ProcOf, Session
<1>1. ASSUME NEW a \in Session, Begin(a) PROVE ActiveIsLive' /\ OwnSteps'
  BY <1>1, CaptureAssumption DEF Begin, Goto, LiveCollision, disk
<1>2. ASSUME NEW a \in Session, TruncateMeta(a) PROVE ActiveIsLive' /\ OwnSteps'
  BY <1>2, CaptureAssumption DEF TruncateMeta, Goto, disk
<1>3. ASSUME NEW a \in Session, OpenSpans(a) PROVE ActiveIsLive' /\ OwnSteps'
  BY <1>3, CaptureAssumption DEF OpenSpans, Goto, disk
<1>4. ASSUME NEW a \in Session, Bind(a) PROVE ActiveIsLive' /\ OwnSteps'
  BY <1>4, CaptureAssumption DEF Bind, Goto, disk
<1>5. ASSUME NEW a \in Session, BindFails(a) PROVE ActiveIsLive' /\ OwnSteps'
  BY <1>5, CaptureAssumption DEF BindFails, Goto, Exit, disk
<1>6. ASSUME NEW a \in Session, WritePID(a) PROVE ActiveIsLive' /\ OwnSteps'
  BY <1>6, CaptureAssumption DEF WritePID, Goto, disk
<1>7. ASSUME NEW a \in Session, WritePIDFails(a) PROVE ActiveIsLive' /\ OwnSteps'
  BY <1>7, CaptureAssumption DEF WritePIDFails, Goto, disk
<1>8. ASSUME NEW a \in Session, Register(a) PROVE ActiveIsLive' /\ OwnSteps'
  BY <1>8, CaptureAssumption DEF Register, Goto, disk
<1>9. ASSUME NEW e \in Exports, Accept(e) PROVE ActiveIsLive' /\ OwnSteps'
  BY <1>9, CaptureAssumption DEF Accept, Goto, disk
<1>10. ASSUME NEW e \in Exports, AppendSpans(e) PROVE ActiveIsLive' /\ OwnSteps'
  BY <1>10, CaptureAssumption DEF AppendSpans, Goto, disk
<1>11. ASSUME NEW e \in Exports, AppendFails(e) PROVE ActiveIsLive' /\ OwnSteps'
  BY <1>11, CaptureAssumption DEF AppendFails, Goto, disk
<1>12. CASE ApiStop
  BY <1>12, CaptureAssumption DEF ApiStop, Goto, SignalPid, Dies, Handles, disk
<1>13. CASE CliStop
  BY <1>13, CaptureAssumption DEF CliStop, SignalPid, Dies, Handles, disk
<1>14. ASSUME NEW a \in Session, TakeSignal(a) PROVE ActiveIsLive' /\ OwnSteps'
  BY <1>14, CaptureAssumption DEF TakeSignal, Goto, disk
<1>15. ASSUME NEW a \in Session, ChildEnds(a) PROVE ActiveIsLive' /\ OwnSteps'
  BY <1>15, CaptureAssumption DEF ChildEnds, Goto, disk
<1>16. ASSUME NEW p \in alive, Crash(p) PROVE ActiveIsLive' /\ OwnSteps'
  BY <1>16, CaptureAssumption DEF Crash, Dies, disk
<1>17. ASSUME NEW a \in Session, CloseGRPC(a) PROVE ActiveIsLive' /\ OwnSteps'
  BY <1>17, CaptureAssumption DEF CloseGRPC, Goto, Drained, InFlight, disk
<1>18. ASSUME NEW a \in Session, CloseHTTP(a) PROVE ActiveIsLive' /\ OwnSteps'
  BY <1>18, CaptureAssumption DEF CloseHTTP, Goto, Exit, Drained, InFlight, disk
<1>19. ASSUME NEW a \in Session, RemovePID(a) PROVE ActiveIsLive' /\ OwnSteps'
  BY <1>19, CaptureAssumption DEF RemovePID, Goto, disk
<1>20. ASSUME NEW a \in Session, IngestAppend(a) PROVE ActiveIsLive' /\ OwnSteps'
  BY <1>20, CaptureAssumption DEF IngestAppend, Goto, disk
<1>21. ASSUME NEW a \in Session, CloseFile(a) PROVE ActiveIsLive' /\ OwnSteps'
  BY <1>21, CaptureAssumption DEF CloseFile, Goto, disk
<1>22. ASSUME NEW a \in Session, WriteFinal(a) PROVE ActiveIsLive' /\ OwnSteps'
  BY <1>22, CaptureAssumption DEF WriteFinal, Goto, Exit, disk
<1>23. ASSUME NEW a \in Session, Progress(a) PROVE ActiveIsLive' /\ OwnSteps'
  BY <1>23, CaptureAssumption DEF Progress, Goto, disk
<1>24. CASE UNCHANGED vars
  BY <1>24 DEF vars, disk
<1> QED
  BY <1>1, <1>2, <1>3, <1>4, <1>5, <1>6, <1>7, <1>8, <1>9, <1>10, <1>11, <1>12, <1>13, <1>14,
     <1>15, <1>16, <1>17, <1>18, <1>19, <1>20, <1>21, <1>22, <1>23, <1>24
  DEF Next, StartStep, StopStep

\* No step changes what a finalised session has counted.
LEMMA StepSummed ==
    ASSUME SafeInv, [Next]_vars PROVE Summed'
<1> USE DEF SafeInv, TypeOK, ReceiverOpen, ExportHeld, ActiveIsLive, OwnSteps,
        Summed, Resting, Receiving, Draining, ProcOf, Session, Torn
<1>1. ASSUME NEW a \in Session, Begin(a) PROVE Summed'
  BY <1>1, CaptureAssumption DEF Begin, Goto, LiveCollision, disk
<1>2. ASSUME NEW a \in Session, TruncateMeta(a) PROVE Summed'
  BY <1>2, CaptureAssumption DEF TruncateMeta, Goto, disk
<1>3. ASSUME NEW a \in Session, OpenSpans(a) PROVE Summed'
  BY <1>3, CaptureAssumption DEF OpenSpans, Goto, disk
<1>4. ASSUME NEW a \in Session, Bind(a) PROVE Summed'
  BY <1>4, CaptureAssumption DEF Bind, Goto, disk
<1>5. ASSUME NEW a \in Session, BindFails(a) PROVE Summed'
  BY <1>5, CaptureAssumption DEF BindFails, Goto, Exit, disk
<1>6. ASSUME NEW a \in Session, WritePID(a) PROVE Summed'
  BY <1>6, CaptureAssumption DEF WritePID, Goto, disk
<1>7. ASSUME NEW a \in Session, WritePIDFails(a) PROVE Summed'
  BY <1>7, CaptureAssumption DEF WritePIDFails, Goto, disk
<1>8. ASSUME NEW a \in Session, Register(a) PROVE Summed'
  BY <1>8, CaptureAssumption DEF Register, Goto, disk
<1>9. ASSUME NEW e \in Exports, Accept(e) PROVE Summed'
  BY <1>9, CaptureAssumption DEF Accept, Goto, disk
<1>10. ASSUME NEW e \in Exports, AppendSpans(e) PROVE Summed'
  BY <1>10, CaptureAssumption DEF AppendSpans, Goto, disk
<1>11. ASSUME NEW e \in Exports, AppendFails(e) PROVE Summed'
  BY <1>11, CaptureAssumption DEF AppendFails, Goto, disk
<1>12. CASE ApiStop
  BY <1>12, CaptureAssumption DEF ApiStop, Goto, SignalPid, Dies, Handles, disk
<1>13. CASE CliStop
  BY <1>13, CaptureAssumption DEF CliStop, SignalPid, Dies, Handles, disk
<1>14. ASSUME NEW a \in Session, TakeSignal(a) PROVE Summed'
  BY <1>14, CaptureAssumption DEF TakeSignal, Goto, disk
<1>15. ASSUME NEW a \in Session, ChildEnds(a) PROVE Summed'
  BY <1>15, CaptureAssumption DEF ChildEnds, Goto, disk
<1>16. ASSUME NEW p \in alive, Crash(p) PROVE Summed'
  BY <1>16, CaptureAssumption DEF Crash, Dies, disk
<1>17. ASSUME NEW a \in Session, CloseGRPC(a) PROVE Summed'
  BY <1>17, CaptureAssumption DEF CloseGRPC, Goto, Drained, InFlight, disk
<1>18. ASSUME NEW a \in Session, CloseHTTP(a) PROVE Summed'
  BY <1>18, CaptureAssumption DEF CloseHTTP, Goto, Exit, Drained, InFlight, disk
<1>19. ASSUME NEW a \in Session, RemovePID(a) PROVE Summed'
  BY <1>19, CaptureAssumption DEF RemovePID, Goto, disk
<1>20. ASSUME NEW a \in Session, IngestAppend(a) PROVE Summed'
  BY <1>20, CaptureAssumption DEF IngestAppend, Goto, disk
<1>21. ASSUME NEW a \in Session, CloseFile(a) PROVE Summed'
  BY <1>21, CaptureAssumption DEF CloseFile, Goto, disk
<1>22. ASSUME NEW a \in Session, WriteFinal(a) PROVE Summed'
  BY <1>22, CaptureAssumption DEF WriteFinal, Goto, Exit, disk
<1>23. ASSUME NEW a \in Session, Progress(a) PROVE Summed'
  BY <1>23, CaptureAssumption DEF Progress, Goto, disk
<1>24. CASE UNCHANGED vars
  BY <1>24 DEF vars, disk
<1> QED
  BY <1>1, <1>2, <1>3, <1>4, <1>5, <1>6, <1>7, <1>8, <1>9, <1>10, <1>11, <1>12, <1>13, <1>14,
     <1>15, <1>16, <1>17, <1>18, <1>19, <1>20, <1>21, <1>22, <1>23, <1>24
  DEF Next, StartStep, StopStep

\* Without overlapping starts, every step keeps one session under way, and what it wrote.
LEMMA StepTurn ==
    ASSUME SafeInv, SafeInv', TurnInv, Overlap = FALSE, [Next]_vars PROVE TurnInv'
<1> USE DEF SafeInv, TypeOK, ActiveIsLive, OwnSteps, Resting, Rest, Receiving,
        Draining, ProcOf, Session, TurnInv, OneBusy, StartWrote, LiveIsKnown
<1>1. ASSUME NEW a \in Session, Begin(a) PROVE TurnInv'
  <2>0. \A b \in Session : pc[b] \in Resting
    BY <1>1 DEF Begin
  <2>1. CASE LiveCollision
    <3>1. pc' = [pc EXCEPT ![a] = "refused"] /\ UNCHANGED <<alive, meta, pid, active>>
      BY <1>1, <2>1 DEF Begin, Goto, disk
    <3> QED BY <1>1, <3>1 DEF Begin
  <2>2. CASE ~LiveCollision
    <3>1. \A b \in Session : pc[b] \in Rest
      <4> SUFFICES ASSUME NEW b \in Session, pc[b] = "live" PROVE FALSE
        BY <2>0
      <4>1. pid = ProcOf(b) /\ ProcOf(b) \in alive
        OBVIOUS
      <4>2. ProcOf(b) # None
        BY CaptureAssumption DEF Serve, None
      <4> QED BY <2>2, <4>1, <4>2 DEF LiveCollision
    <3>2. /\ pc' = [pc EXCEPT ![a] = "meta"] /\ UNCHANGED <<meta, pid, active>>
          /\ alive' = alive \cup {ProcOf(a)}
      BY <1>1, <2>2 DEF Begin, Goto, disk
    <3> QED BY <3>1, <3>2
  <2> QED BY <2>1, <2>2
<1>2. ASSUME NEW a \in Session, TruncateMeta(a) PROVE TurnInv'
  BY <1>2, CaptureAssumption DEF TruncateMeta, Goto, disk
<1>3. ASSUME NEW a \in Session, OpenSpans(a) PROVE TurnInv'
  BY <1>3, CaptureAssumption DEF OpenSpans, Goto, disk
<1>4. ASSUME NEW a \in Session, Bind(a) PROVE TurnInv'
  BY <1>4, CaptureAssumption DEF Bind, Goto, disk
<1>5. ASSUME NEW a \in Session, BindFails(a) PROVE TurnInv'
  BY <1>5, CaptureAssumption DEF BindFails, Goto, Exit, disk
<1>6. ASSUME NEW a \in Session, WritePID(a) PROVE TurnInv'
  BY <1>6, CaptureAssumption DEF WritePID, Goto, disk
<1>7. ASSUME NEW a \in Session, WritePIDFails(a) PROVE TurnInv'
  BY <1>7, CaptureAssumption DEF WritePIDFails, Goto, disk
<1>8. ASSUME NEW a \in Session, Register(a) PROVE TurnInv'
  BY <1>8, CaptureAssumption DEF Register, Goto, disk
<1>9. ASSUME NEW e \in Exports, Accept(e) PROVE TurnInv'
  BY <1>9, CaptureAssumption DEF Accept, Goto, disk
<1>10. ASSUME NEW e \in Exports, AppendSpans(e) PROVE TurnInv'
  BY <1>10, CaptureAssumption DEF AppendSpans, Goto, disk
<1>11. ASSUME NEW e \in Exports, AppendFails(e) PROVE TurnInv'
  BY <1>11, CaptureAssumption DEF AppendFails, Goto, disk
<1>12. CASE ApiStop
  BY <1>12, CaptureAssumption DEF ApiStop, Goto, SignalPid, Dies, Handles, disk
<1>13. CASE CliStop
  BY <1>13, CaptureAssumption DEF CliStop, SignalPid, Dies, Handles, disk
<1>14. ASSUME NEW a \in Session, TakeSignal(a) PROVE TurnInv'
  BY <1>14, CaptureAssumption DEF TakeSignal, Goto, disk
<1>15. ASSUME NEW a \in Session, ChildEnds(a) PROVE TurnInv'
  BY <1>15, CaptureAssumption DEF ChildEnds, Goto, disk
<1>16. ASSUME NEW p \in alive, Crash(p) PROVE TurnInv'
  <2>1. OneBusy'
    BY <1>16 DEF Crash, Dies
  <2>2. StartWrote'
    BY <1>16 DEF Crash, Dies, disk
  <2>3. LiveIsKnown'
    BY <1>16, CaptureAssumption DEF Crash, Dies, disk
  <2> QED BY <2>1, <2>2, <2>3
<1>17. ASSUME NEW a \in Session, CloseGRPC(a) PROVE TurnInv'
  BY <1>17, CaptureAssumption DEF CloseGRPC, Goto, Drained, InFlight, disk
<1>18. ASSUME NEW a \in Session, CloseHTTP(a) PROVE TurnInv'
  BY <1>18, CaptureAssumption DEF CloseHTTP, Goto, Exit, Drained, InFlight, disk
<1>19. ASSUME NEW a \in Session, RemovePID(a) PROVE TurnInv'
  BY <1>19, CaptureAssumption DEF RemovePID, Goto, disk
<1>20. ASSUME NEW a \in Session, IngestAppend(a) PROVE TurnInv'
  BY <1>20, CaptureAssumption DEF IngestAppend, Goto, disk
<1>21. ASSUME NEW a \in Session, CloseFile(a) PROVE TurnInv'
  BY <1>21, CaptureAssumption DEF CloseFile, Goto, disk
<1>22. ASSUME NEW a \in Session, WriteFinal(a) PROVE TurnInv'
  BY <1>22, CaptureAssumption DEF WriteFinal, Goto, Exit, disk
<1>23. ASSUME NEW a \in Session, Progress(a) PROVE TurnInv'
  BY <1>23, CaptureAssumption DEF Progress, Goto, disk
<1>24. CASE UNCHANGED vars
  BY <1>24 DEF vars, disk
<1> QED
  BY <1>1, <1>2, <1>3, <1>4, <1>5, <1>6, <1>7, <1>8, <1>9, <1>10, <1>11, <1>12, <1>13, <1>14,
     <1>15, <1>16, <1>17, <1>18, <1>19, <1>20, <1>21, <1>22, <1>23, <1>24
  DEF Next, StartStep, StopStep

(***************************************************************************)
(* The inductive invariant: what the receivers and the exports they have   *)
(* taken hold on to, whichever sessions start, stop, fail and die.         *)
(***************************************************************************)
THEOREM CaptureInvariant == Spec => []SafeInv
<1>1. SafeInv /\ [Next]_vars => SafeInv'
  <2> SUFFICES ASSUME SafeInv, [Next]_vars PROVE SafeInv'
    OBVIOUS
  <2>1. TypeOK'
    BY StepType DEF SafeInv
  <2> QED BY <2>1, StepReceiver, StepActive, StepSummed DEF SafeInv
<1> QED BY InitSafe, <1>1, PTL DEF Spec

\* Type correctness: pidfile, meta.json and the counts are what the code can write.
THEOREM CaptureTypes == Spec => []TypeOK
<1>1. SafeInv => TypeOK
  BY DEF SafeInv
<1> QED BY CaptureInvariant, <1>1, PTL

(***************************************************************************)
(* Receiver.Stop drains before Finalize, so an acknowledged export is on   *)
(* disk and none finds its session finalised, for any number of sessions   *)
(* and exports, overlapping or not.                                        *)
(***************************************************************************)
THEOREM AcknowledgedIsKept == Spec => []AckedIsKept
<1>1. SafeInv => AckedIsKept
  BY DEF SafeInv
<1> QED BY CaptureInvariant, <1>1, PTL

(***************************************************************************)
(* The meta.json that Finalize leaves counts every acknowledged export.    *)
(***************************************************************************)
THEOREM FinalMetaCounts == Spec => []FinalCounts
<1>1. SafeInv => FinalCounts
  <2> SUFFICES ASSUME SafeInv, NEW a \in Session, pc[a] = "final", meta.by = a
               PROVE  meta.state = "stopped" /\ meta.count >= Cardinality(Acked(a))
    BY DEF FinalCounts
  <2>1. meta.state = "stopped" /\ meta.count = Cardinality(took[a])
    BY DEF SafeInv, Summed
  <2>2. Acked(a) \subseteq took[a]
    BY DEF SafeInv, ExportHeld, Acked
  <2>3. IsFiniteSet(took[a])
    BY TookBounded DEF SafeInv
  <2>4. Cardinality(Acked(a)) <= Cardinality(took[a]) /\ IsFiniteSet(Acked(a))
    BY <2>2, <2>3, FS_Subset
  <2>5. Cardinality(Acked(a)) \in Nat /\ Cardinality(took[a]) \in Nat
    BY <2>3, <2>4, FS_CardinalityType
  <2> QED BY <2>1, <2>4, <2>5
<1> QED BY CaptureInvariant, <1>1, PTL

(***************************************************************************)
(* Where a start does not run beside another start or a stop of the same   *)
(* name, NewSession's look at the pidfile is enough: at most one session   *)
(* is up, and meta.json, pidfile and registry all name it.                 *)
(***************************************************************************)
THEOREM LiveSessionsKnown ==
    ASSUME Overlap = FALSE PROVE Spec => []LiveIsKnown
<1>1. Init => TurnInv
  BY DEF Init, TurnInv, OneBusy, StartWrote, LiveIsKnown, Rest, Resting
<1>2. SafeInv /\ SafeInv' /\ TurnInv /\ [Next]_vars => TurnInv'
  BY StepTurn
<1>3. TurnInv => LiveIsKnown
  BY DEF TurnInv
<1> QED BY CaptureInvariant, <1>1, <1>2, <1>3, PTL DEF Spec

=============================================================================
