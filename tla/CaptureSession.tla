--------------------------- MODULE CaptureSession ----------------------------
(***************************************************************************)
(* Capture sessions: an OTLP receiver that appends the spans it is sent to *)
(* a session directory.  A session is started by a request to `polyflow    *)
(* serve` or by `polyflow capture start` or `capture run`, each a process  *)
(* of its own, or made at once from a dump (ingest); it is stopped through *)
(* the manager that started it or by a signal to the process in its        *)
(* pidfile.                                                                *)
(*                                                                         *)
(* The module follows the sessions of one name, which share a directory:   *)
(* meta.json, the pidfile and the spans file.  Ports belong to the other   *)
(* programs of the machine: a bind may fail.                               *)
(***************************************************************************)
EXTENDS Integers, FiniteSets

CONSTANTS
    Api,        \* sessions started by a request to serve
    Cli,        \* sessions of `capture start`
    Wrapped,    \* sessions of `capture run`
    Ingests,    \* sessions made from a dump, through serve
    Exports,    \* span exports sent to the receivers
    Stops,      \* bound on stop requests and stop commands
    Crashes,    \* bound on processes killed from outside
    Errors,     \* bound on failed binds, pidfiles and span writes
    Overlap     \* whether a start may run while another start or a stop is under way

Session == Api \cup Cli \cup Wrapped \cup Ingests
Serve   == "serve"
None    == "none"

ASSUME CaptureAssumption ==
    /\ Stops \in Nat /\ Crashes \in Nat /\ Errors \in Nat
    /\ Overlap \in BOOLEAN
    /\ IsFiniteSet(Exports)
    /\ Serve \notin Session /\ None \notin Session
    /\ Api \cap Cli = {} /\ Api \cap Wrapped = {} /\ Ingests \cap (Cli \cup Wrapped) = {}
    /\ Api \cap Ingests = {} /\ Cli \cap Wrapped = {}

Transport == {"grpc", "http"}

\* The process of a session.
ProcOf(a) == IF a \in Api \cup Ingests THEN Serve ELSE a

VARIABLES
    pc,        \* where each session is
    lis,       \* transports on which its receiver takes new exports
    open,      \* sessions whose spans file is open for appending
    took,      \* exports each session has counted
    ex,        \* exports: step, session and transport
    meta,      \* meta.json: absent, torn while it is written, or the state of a session
    pid,       \* the pidfile: a process or None
    spans,     \* exports whose spans are in the spans file
    active,    \* the entry of serve's manager for the name
    watch,     \* sessions whose progress loop is running
    sig,       \* processes with a SIGTERM in their channel
    alive,     \* running processes
    left       \* the bounds: stops, crashes and errors still to come

disk == <<meta, pid, spans>>
vars == <<pc, lis, open, took, ex, meta, pid, spans, active, watch, sig, alive, left>>

Init ==
    /\ pc = [a \in Session |-> "idle"]
    /\ lis = [a \in Session |-> {}]
    /\ open = {}
    /\ took = [a \in Session |-> {}]
    /\ ex = [e \in Exports |-> [pc |-> "idle", at |-> None, by |-> "http"]]
    /\ meta = [state |-> "absent", by |-> None, count |-> 0] /\ pid = None /\ spans = {}
    /\ active = None /\ watch = {} /\ sig = {}
    /\ alive = {Serve}
    /\ left = [stops |-> Stops, crashes |-> Crashes, errors |-> Errors]

Torn == [state |-> "torn", by |-> None, count |-> 0]

Resting == {"idle", "live", "refused", "failed", "killed", "final"}

Goto(a, step) == pc' = [pc EXCEPT ![a] = step]

\* The process of a command ends with its session, and with it the signals it has not read.
Exit(a) ==
    /\ alive' = IF ProcOf(a) = Serve THEN alive ELSE alive \ {a}
    /\ sig' = sig \ {a}

(***************************************************************************)
(* Start                                                                   *)
(***************************************************************************)
\* Mutant: the liveness of the process in the pidfile is not looked at.
LiveCollision_Never == FALSE

\* NewSession: the pidfile of the directory names a process that is alive.
LiveCollision == pid # None /\ pid \in alive

Begin(a) ==
    /\ pc[a] = "idle"
    /\ ProcOf(a) = Serve => Serve \in alive
    /\ Overlap \/ \A b \in Session : pc[b] \in Resting
    /\ IF LiveCollision
       THEN Goto(a, "refused") /\ UNCHANGED alive
       ELSE Goto(a, "meta") /\ alive' = alive \cup {ProcOf(a)}
    /\ UNCHANGED <<lis, open, took, ex, disk, active, watch, sig, left>>

\* writeMeta truncates meta.json, then writes it.
TruncateMeta(a) ==
    /\ pc[a] = "meta"
    /\ meta' = Torn
    /\ Goto(a, "open")
    /\ UNCHANGED <<lis, open, took, ex, pid, spans, active, watch, sig, alive, left>>

OpenSpans(a) ==
    /\ pc[a] = "open"
    /\ meta' = [state |-> "running", by |-> a, count |-> 0]
    /\ open' = open \cup {a}
    /\ Goto(a, IF a \in Ingests THEN "append" ELSE "bind")
    /\ UNCHANGED <<lis, took, ex, pid, spans, active, watch, sig, alive, left>>

\* Receiver.Start binds both ports.
Bind(a) ==
    /\ pc[a] = "bind"
    /\ lis' = [lis EXCEPT ![a] = Transport]
    /\ Goto(a, "pid")
    /\ UNCHANGED <<open, took, ex, disk, active, watch, sig, alive, left>>

\* A port is in use: Start returns; the new meta.json stays.
BindFails(a) ==
    /\ pc[a] = "bind"
    /\ left.errors > 0
    /\ left' = [left EXCEPT !.errors = @ - 1]
    /\ Goto(a, "failed")
    /\ Exit(a)
    /\ UNCHANGED <<lis, open, took, ex, disk, active, watch>>

WritePID(a) ==
    /\ pc[a] = "pid"
    /\ pid' = ProcOf(a)
    /\ Goto(a, "register")
    /\ UNCHANGED <<lis, open, took, ex, meta, spans, active, watch, sig, alive, left>>

\* The pidfile cannot be written: the receiver is stopped and Start returns.
WritePIDFails(a) ==
    /\ pc[a] = "pid"
    /\ left.errors > 0
    /\ left' = [left EXCEPT !.errors = @ - 1]
    /\ Goto(a, "undo")
    /\ UNCHANGED <<lis, open, took, ex, disk, active, watch, sig, alive>>

\* The manager's registry; serve also starts the progress loop.
Register(a) ==
    /\ pc[a] = "register"
    /\ IF ProcOf(a) = Serve THEN active' = a /\ watch' = watch \cup {a} ELSE UNCHANGED <<active, watch>>
    /\ Goto(a, "live")
    /\ UNCHANGED <<lis, open, took, ex, disk, sig, alive, left>>

(***************************************************************************)
(* Exports                                                                 *)
(***************************************************************************)
Accept(e) ==
    /\ ex[e].pc = "idle"
    /\ \E a \in Session : \E t \in lis[a] : ex' = [ex EXCEPT ![e] = [pc |-> "body", at |-> a, by |-> t]]
    /\ UNCHANGED <<pc, lis, open, took, disk, active, watch, sig, alive, left>>

\* Session.Append under the session's mutex; after Finalize it is refused.
AppendSpans(e) ==
    /\ ex[e].pc = "body"
    /\ IF ex[e].at \in open
       THEN /\ took' = [took EXCEPT ![ex[e].at] = @ \cup {e}]
            /\ spans' = spans \cup {e}
            /\ ex' = [ex EXCEPT ![e].pc = "acked"]
       ELSE /\ ex' = [ex EXCEPT ![e].pc = "late"]
            /\ UNCHANGED <<took, spans>>
    /\ UNCHANGED <<pc, lis, open, meta, pid, active, watch, sig, alive, left>>

\* The write fails after the spans were counted; the client gets an error.
AppendFails(e) ==
    /\ ex[e].pc = "body"
    /\ left.errors > 0
    /\ left' = [left EXCEPT !.errors = @ - 1]
    /\ ex[e].at \in open
    /\ took' = [took EXCEPT ![ex[e].at] = @ \cup {e}]
    /\ ex' = [ex EXCEPT ![e].pc = "error"]
    /\ UNCHANGED <<pc, lis, open, disk, active, watch, sig, alive>>

(***************************************************************************)
(* Stop                                                                    *)
(***************************************************************************)
\* Everything the process p held is gone; what it has written stays.
Dies(p) ==
    LET gone == {a \in Session : ProcOf(a) = p /\ pc[a] \notin Resting \ {"live"}} IN
    /\ alive' = alive \ {p}
    /\ pc' = [a \in Session |-> IF a \in gone THEN "killed" ELSE pc[a]]
    /\ lis' = [a \in Session |-> IF a \in gone THEN {} ELSE lis[a]]
    /\ open' = {a \in open : ProcOf(a) # p}
    /\ ex' = [e \in Exports |-> IF ex[e].pc = "body" /\ ProcOf(ex[e].at) = p
                                THEN [ex[e] EXCEPT !.pc = "lost"] ELSE ex[e]]
    /\ sig' = sig \ {p}
    /\ active' = IF p = Serve THEN None ELSE active
    /\ watch' = IF p = Serve THEN {} ELSE watch

\* SIGTERM: only `capture start` handles it, from the moment its session is up.
Handles(p) == p \in Cli /\ pc[p] \notin {"meta", "open", "bind", "pid", "register", "undo", "drop"}

SignalPid ==
    /\ pid # None /\ pid \in alive
    /\ IF Handles(pid)
       THEN /\ sig' = sig \cup {pid}
            /\ UNCHANGED <<pc, lis, open, ex, active, watch, alive>>
       ELSE Dies(pid)

\* Stop request to serve: its own session, or else the process in the pidfile.
ApiStop ==
    /\ Serve \in alive
    /\ left.stops > 0
    /\ left' = [left EXCEPT !.stops = @ - 1]
    /\ \/ /\ active # None
          /\ Goto(active, "close")
          /\ active' = None
          /\ UNCHANGED <<lis, open, ex, watch, sig, alive>>
       \/ /\ active = None
          /\ SignalPid
    /\ UNCHANGED <<took, disk>>

\* `polyflow capture stop`
CliStop ==
    /\ left.stops > 0
    /\ left' = [left EXCEPT !.stops = @ - 1]
    /\ SignalPid
    /\ UNCHANGED <<took, disk>>


\* <-quit in `capture start`
TakeSignal(c) ==
    /\ pc[c] = "live" /\ c \in sig
    /\ sig' = sig \ {c}
    /\ Goto(c, "close")
    /\ UNCHANGED <<lis, open, took, ex, disk, active, watch, alive, left>>

\* The command under `capture run` has ended.
ChildEnds(c) ==
    /\ c \in Wrapped
    /\ pc[c] = "live"
    /\ Goto(c, "close")
    /\ UNCHANGED <<lis, open, took, ex, disk, active, watch, sig, alive, left>>

Crash(p) ==
    /\ p \in alive
    /\ left.crashes > 0
    /\ left' = [left EXCEPT !.crashes = @ - 1]
    /\ Dies(p)
    /\ UNCHANGED <<took, disk>>

InFlight(a, t) == \E e \in Exports : ex[e].pc = "body" /\ ex[e].at = a /\ ex[e].by = t

\* Mutant: the receiver does not wait for the exports it has taken.
Drained_Now(a, t) == TRUE

\* GracefulStop and Shutdown return when the handlers have.
Drained(a, t) == ~InFlight(a, t)

\* Receiver.Stop: the gRPC server first, then the HTTP server.
CloseGRPC(a) ==
    /\ pc[a] \in {"close", "undo"}
    /\ "grpc" \in lis[a] \/ Drained(a, "grpc")
    /\ IF "grpc" \in lis[a]
       THEN lis' = [lis EXCEPT ![a] = @ \ {"grpc"}] /\ UNCHANGED pc
       ELSE lis' = [lis EXCEPT ![a] = {}] /\ Goto(a, IF pc[a] = "close" THEN "drain" ELSE "drop")
    /\ UNCHANGED <<open, took, ex, disk, active, watch, sig, alive, left>>

CloseHTTP(a) ==
    /\ pc[a] \in {"drain", "drop"}
    /\ Drained(a, "http")
    /\ IF pc[a] = "drain"
       THEN Goto(a, "stopped") /\ UNCHANGED <<alive, sig>>
       ELSE Goto(a, "failed") /\ Exit(a)
    /\ UNCHANGED <<lis, open, took, ex, disk, active, watch, left>>

RemovePID(a) ==
    /\ pc[a] = "stopped"
    /\ pid' = None
    /\ Goto(a, "closefile")
    /\ UNCHANGED <<lis, open, took, ex, meta, spans, active, watch, sig, alive, left>>

\* Ingest appends the dump, which is none of Exports, and goes on to Finalize.
IngestAppend(a) ==
    /\ pc[a] = "append"
    /\ Goto(a, "closefile")
    /\ UNCHANGED <<lis, open, took, ex, disk, active, watch, sig, alive, left>>

\* Finalize closes the spans file, then writes meta.json.
CloseFile(a) ==
    /\ pc[a] = "closefile"
    /\ open' = open \ {a}
    /\ meta' = Torn
    /\ Goto(a, "sum")
    /\ UNCHANGED <<lis, took, ex, pid, spans, active, watch, sig, alive, left>>

\* Mutant: the counters are those of the start.
WriteFinal_Zero(a) ==
    /\ pc[a] = "sum"
    /\ meta' = [state |-> "stopped", by |-> a, count |-> 0]
    /\ Goto(a, "final")
    /\ Exit(a)
    /\ UNCHANGED <<lis, open, took, ex, pid, spans, active, watch, left>>

WriteFinal(a) ==
    /\ pc[a] = "sum"
    /\ meta' = [state |-> "stopped", by |-> a, count |-> Cardinality(took[a])]
    /\ Goto(a, "final")
    /\ Exit(a)
    /\ UNCHANGED <<lis, open, took, ex, pid, spans, active, watch, left>>

\* streamCaptureProgress: the loop ends when the name is no longer active.
Progress(a) ==
    /\ a \in watch
    /\ watch' = IF active = None THEN watch \ {a} ELSE watch
    /\ UNCHANGED <<pc, lis, open, took, ex, disk, active, sig, alive, left>>

StartStep(a) ==
    \/ TruncateMeta(a) \/ OpenSpans(a) \/ Bind(a) \/ WritePID(a) \/ Register(a) \/ IngestAppend(a)

StopStep(a) ==
    \/ TakeSignal(a) \/ CloseGRPC(a) \/ CloseHTTP(a) \/ RemovePID(a) \/ CloseFile(a) \/ WriteFinal(a)

Next ==
    \/ \E a \in Session :
          \/ Begin(a) \/ StartStep(a) \/ BindFails(a) \/ WritePIDFails(a)
          \/ ChildEnds(a) \/ StopStep(a) \/ Progress(a)
    \/ \E e \in Exports : Accept(e) \/ AppendSpans(e) \/ AppendFails(e)
    \/ ApiStop \/ CliStop
    \/ \E p \in alive : Crash(p)

Spec == Init /\ [][Next]_vars

(***************************************************************************)
(* A process that is alive goes on with a start or a stop, with the        *)
(* exports it has taken and with its progress loops.                       *)
(***************************************************************************)
FairSpec ==
    /\ Spec
    /\ \A a \in Session : WF_vars(StartStep(a)) /\ WF_vars(StopStep(a)) /\ WF_vars(Progress(a))
    /\ \A e \in Exports : WF_vars(AppendSpans(e))

TypeOK ==
    /\ pc \in [Session -> Resting \cup {"meta", "open", "bind", "pid", "register", "undo", "drop", "append",
                                        "close", "drain", "stopped", "closefile", "sum"}]
    /\ lis \in [Session -> SUBSET Transport]
    /\ open \subseteq Session
    /\ took \in [Session -> SUBSET Exports]
    /\ ex \in [Exports -> [pc : {"idle", "body", "acked", "late", "error", "lost"},
                           at : Session \cup {None}, by : Transport]]
    /\ meta \in [state : {"absent", "torn", "running", "stopped"}, by : Session \cup {None},
                 count : 0..Cardinality(Exports)]
    /\ pid \in Cli \cup Wrapped \cup {Serve, None}
    /\ spans \subseteq Exports
    /\ active \in Session \cup {None}
    /\ watch \subseteq Session /\ sig \subseteq Session
    /\ alive \subseteq Cli \cup Wrapped \cup {Serve}
    /\ left \in [stops : 0..Stops, crashes : 0..Crashes, errors : 0..Errors]

(***************************************************************************)
(* An export that was acknowledged is in the spans file, whatever becomes  *)
(* of the process afterwards, and none is turned away because its session  *)
(* was finalised under it: the receiver has drained before Finalize.       *)
(***************************************************************************)
AckedIsKept ==
    \A e \in Exports :
        /\ ex[e].pc = "acked" => e \in spans
        /\ ex[e].pc # "late"

Acked(a) == {e \in Exports : ex[e].pc = "acked" /\ ex[e].at = a}

(***************************************************************************)
(* The final meta.json of a session counts every export it acknowledged.   *)
(***************************************************************************)
FinalCounts ==
    \A a \in Session :
        pc[a] = "final" /\ meta.by = a =>
            meta.state = "stopped" /\ meta.count >= Cardinality(Acked(a))

(***************************************************************************)
(* A session that is up can be found and stopped: meta.json shows it as    *)
(* running, the pidfile names its process and, if serve started it, it is  *)
(* the one in serve's registry.  So there is one at most.  It holds as     *)
(* long as starts do not overlap with other starts and stops of the name.  *)
(***************************************************************************)
LiveIsKnown ==
    \A a \in Session : pc[a] = "live" =>
        /\ meta = [state |-> "running", by |-> a, count |-> 0]
        /\ pid = ProcOf(a)
        /\ ProcOf(a) = Serve => active = a


(***************************************************************************)
(* A stop from either surface finalises the session (refuted: a signal     *)
(* kills serve, and the command of `capture run`).                         *)
(***************************************************************************)
StoppedIsFinal ==
    [][\A a \in Session : pc[a] = "live" /\ pc'[a] = "killed" => left.crashes # left'.crashes]_vars

=============================================================================
