------------------------------ MODULE ParsePool ------------------------------
(***************************************************************************)
(* The parse phase of an index run: for each service in turn a pool of     *)
(* goroutines parses the service's files; .templ files go to a sidecar     *)
(* process over a pipe, one client of which the whole run shares, and are  *)
(* parsed in process when the sidecar is missing, fails or answers with an *)
(* error.  The results reach the indexer in the order of the files.        *)
(*                                                                         *)
(* A result is modelled by the file it was made from and by who made it;   *)
(* what a parser extracts is left out.                                     *)
(***************************************************************************)
EXTENDS Integers, Sequences, FiniteSets

CONSTANTS
    Services,     \* number of services, indexed one after the other
    PerService,   \* files of a service that have to be parsed
    Templ,        \* the files with the extension .templ
    Inferred,     \* services whose templ version no registry row satisfies
    Workers       \* goroutines of a pool that parse at a time

ASSUME PoolAssumption ==
    /\ Services \in Nat \ {0} /\ PerService \in Nat
    /\ Templ \subseteq 1..(Services * PerService)
    /\ Inferred \subseteq 1..Services
    /\ Workers \in Nat \ {0}

File == 1..(Services * PerService)
None == 0
FilesOf(s) == ((s - 1) * PerService + 1)..(s * PerService)
ServiceOf(f) == CHOOSE s \in 1..Services : f \in FilesOf(s)

VARIABLES
    svc,       \* the service whose pool is running
    pc,        \* the goroutine of each file
    reply,     \* the frame a goroutine has read from the sidecar
    result,    \* results[idx]: the file it was made from and its maker
    batch,     \* the results the indexer has taken from the pool, in order
    notes,     \* the coverage notes of each service's router
    client,    \* the manager's entry for the backend: none, live, dead or failed
    mu,        \* the goroutine that holds the client's mutex, or None
    proc,      \* the sidecar process: none, up, hung, exited (or killed)
    started,   \* sidecar processes started so far
    stdin,     \* frames written to the sidecar and not yet read
    busy,      \* the request the sidecar is handling, or None
    stdout,    \* frames written by the sidecar and not yet read
    run        \* the run: parsing, over (its deferred calls are due) or ended

pipe   == <<proc, started, stdin, busy, stdout>>
vars   == <<svc, pc, reply, result, batch, notes, client, mu, pipe, run>>

NoReply  == [of |-> None, kind |-> "none"]
NoResult == [of |-> None, by |-> "none"]

\* wg.Add and go func for every file of service s
Launch(s) == [f \in File |-> IF f \in FilesOf(s) THEN "sem" ELSE "idle"]

Init ==
    /\ svc = 1
    /\ pc = Launch(1)
    /\ reply = [f \in File |-> NoReply]
    /\ result = [f \in File |-> NoResult]
    /\ batch = <<>>
    /\ notes = [s \in 1..Services |-> <<>>]
    /\ client = "none" /\ mu = None
    /\ proc = "none" /\ started = 0
    /\ stdin = <<>> /\ busy = None /\ stdout = <<>>
    /\ run = "parsing"

Goto(f, step) == pc' = [pc EXCEPT ![f] = step]

(***************************************************************************)
(* The goroutine of a file                                                 *)
(***************************************************************************)
Parsing == {f \in File : pc[f] \notin {"idle", "sem", "done"}}

\* sem <- struct{}{}
Acquire(f) ==
    /\ pc[f] = "sem"
    /\ Cardinality(Parsing) < Workers
    /\ Goto(f, "route")
    /\ UNCHANGED <<svc, reply, result, batch, notes, client, mu, pipe, run>>

\* note: once per key and router
Noted(s, key) ==
    IF \E i \in 1..Len(notes[s]) : notes[s][i] = key THEN notes
    ELSE [notes EXCEPT ![s] = Append(@, key)]

\* ParserFor, or the parser of the extension; the selection is made on the first .templ file
Route(f) ==
    /\ pc[f] = "route"
    /\ IF f \in Templ
       THEN /\ Goto(f, "client")
            /\ notes' = IF svc \in Inferred THEN Noted(svc, "inferred") ELSE notes
       ELSE /\ Goto(f, "parse")
            /\ UNCHANGED notes
    /\ UNCHANGED <<svc, reply, result, batch, client, mu, pipe, run>>

\* Mutant: a sidecar that could not be started, or died, is started again.
GetClient_Again(f) ==
    /\ pc[f] = "client"
    /\ \/ /\ client = "live"
          /\ Goto(f, "enter")
          /\ UNCHANGED <<client, pipe>>
       \/ /\ client # "live"
          /\ client' = "live"
          /\ proc' = "up" /\ started' = started + 1
          /\ stdin' = <<>> /\ busy' = None /\ stdout' = <<>>
          /\ Goto(f, "enter")
       \/ /\ client # "live"
          /\ client' = "failed"
          /\ Goto(f, "fallback")
          /\ UNCHANGED pipe
    /\ UNCHANGED <<svc, reply, result, batch, notes, mu, run>>

\* Manager.Client, under the manager's mutex: one attempt to start the sidecar in a run
GetClient(f) ==
    /\ pc[f] = "client"
    /\ \/ /\ client \in {"live", "dead"}
          /\ Goto(f, "enter")
          /\ UNCHANGED <<client, pipe>>
       \/ /\ client = "failed"
          /\ Goto(f, "fallback")
          /\ UNCHANGED <<client, pipe>>
       \/ /\ client = "none"
          /\ client' = "live"
          /\ proc' = "up" /\ started' = started + 1
          /\ UNCHANGED <<stdin, busy, stdout>>
          /\ Goto(f, "enter")
       \/ /\ client = "none"
          /\ client' = "failed"
          /\ Goto(f, "fallback")
          /\ UNCHANGED pipe
    /\ UNCHANGED <<svc, reply, result, batch, notes, mu, run>>

\* Mutant: the round trip takes no lock.
Enter_Unlocked(f) ==
    /\ pc[f] = "enter"
    /\ Goto(f, IF client = "dead" THEN "fallback" ELSE "write")
    /\ UNCHANGED <<svc, reply, result, batch, notes, client, mu, pipe, run>>

\* RoundTrip takes the client's mutex; a dead client returns at once.
Enter(f) ==
    /\ pc[f] = "enter"
    /\ mu = None
    /\ IF client = "dead"
       THEN Goto(f, "fallback") /\ UNCHANGED mu
       ELSE Goto(f, "write") /\ mu' = f
    /\ UNCHANGED <<svc, reply, result, batch, notes, client, pipe, run>>

\* Mutant: the mutex is not released on the error path.
Kill_Locked(f) ==
    /\ client' = "dead"
    /\ proc' = "exited"
    /\ Goto(f, "fallback")
    /\ UNCHANGED <<svc, reply, result, batch, notes, mu, started, stdin, busy, stdout, run>>

\* kill: the client is dead, the process killed and reaped; RoundTrip returns the error.
Kill(f) ==
    /\ client' = "dead"
    /\ proc' = "exited"
    /\ mu' = None
    /\ Goto(f, "fallback")
    /\ UNCHANGED <<svc, reply, result, batch, notes, started, stdin, busy, stdout, run>>

\* WriteFrame
Write(f) ==
    /\ pc[f] = "write"
    /\ \/ /\ proc \in {"up", "hung"}
          /\ stdin' = Append(stdin, f)
          /\ Goto(f, "read")
          /\ UNCHANGED <<svc, reply, result, batch, notes, client, mu, proc, started, busy, stdout, run>>
       \/ /\ proc = "exited"
          /\ Kill(f)

\* ReadFrame: the next frame, or an error when it is too large or the process is gone.
Read(f) ==
    /\ pc[f] = "read"
    /\ \/ /\ stdout # <<>>
          /\ Head(stdout).kind # "oversize"
          /\ reply' = [reply EXCEPT ![f] = Head(stdout)]
          /\ stdout' = Tail(stdout)
          /\ mu' = None
          /\ Goto(f, "check")
          /\ UNCHANGED <<svc, result, batch, notes, client, proc, started, stdin, busy, run>>
       \/ /\ stdout # <<>>
          /\ Head(stdout).kind = "oversize"
          /\ Kill(f)
       \/ /\ stdout = <<>>
          /\ proc = "exited"
          /\ Kill(f)

\* The answer is a parse, or it cannot be decoded or carries an error.
Check(f) ==
    /\ pc[f] = "check"
    /\ IF reply[f].kind = "parse"
       THEN /\ result' = [result EXCEPT ![f] = [of |-> reply[f].of, by |-> "sidecar"]]
            /\ Goto(f, "done")
       ELSE /\ Goto(f, "fallback")
            /\ UNCHANGED result
    /\ UNCHANGED <<svc, reply, batch, notes, client, mu, pipe, run>>

\* fallback: a note, then the in-process parser
Fallback(f) ==
    /\ pc[f] = "fallback"
    /\ notes' = Noted(svc, "fallback")
    /\ Goto(f, "parse")
    /\ UNCHANGED <<svc, reply, result, batch, client, mu, pipe, run>>

\* The in-process parser; it may return an error.
Parse(f) ==
    /\ pc[f] = "parse"
    /\ \E by \in {"process", "error"} : result' = [result EXCEPT ![f] = [of |-> f, by |-> by]]
    /\ Goto(f, "done")
    /\ UNCHANGED <<svc, reply, batch, notes, client, mu, pipe, run>>

(***************************************************************************)
(* The sidecar process: one frame in, one frame out                        *)
(***************************************************************************)
TakeRequest ==
    /\ proc = "up" /\ busy = None /\ stdin # <<>>
    /\ busy' = Head(stdin)
    /\ stdin' = Tail(stdin)
    /\ UNCHANGED <<svc, pc, reply, result, batch, notes, client, mu, proc, started, stdout, run>>

\* The frame may be a parse, an error, not JSON, or announce too many bytes.
Respond ==
    /\ proc = "up" /\ busy # None
    /\ \E kind \in {"parse", "error", "oversize"} :
          stdout' = Append(stdout, [of |-> busy, kind |-> kind])
    /\ busy' = None
    /\ UNCHANGED <<svc, pc, reply, result, batch, notes, client, mu, proc, started, stdin, run>>

SidecarExits ==
    /\ proc = "up"
    /\ proc' = "exited"
    /\ UNCHANGED <<svc, pc, reply, result, batch, notes, client, mu, started, stdin, busy, stdout, run>>

\* The sidecar stops answering without dying.
SidecarHangs ==
    /\ proc = "up"
    /\ proc' = "hung"
    /\ UNCHANGED <<svc, pc, reply, result, batch, notes, client, mu, started, stdin, busy, stdout, run>>

(***************************************************************************)
(* The indexer                                                             *)
(***************************************************************************)
Waited == \A f \in FilesOf(svc) : pc[f] = "done"

\* Mutant: results are sent as they are made.
Deliver_AsMade ==
    /\ run = "parsing" /\ svc <= Services
    /\ \E f \in FilesOf(svc) :
          /\ pc[f] = "done"
          /\ \A i \in 1..Len(batch) : batch[i] # result[f]
          /\ batch' = Append(batch, result[f])
    /\ UNCHANGED <<svc, pc, reply, result, notes, client, mu, pipe, run>>

\* After wg.Wait the results are sent in order and taken by the loop over the channel.
Deliver ==
    /\ run = "parsing" /\ svc <= Services
    /\ Waited
    /\ Len(batch) < svc * PerService
    /\ batch' = Append(batch, result[Len(batch) + 1])
    /\ UNCHANGED <<svc, pc, reply, result, notes, client, mu, pipe, run>>

\* A node or edge cannot be written: Run returns.
WriteFails ==
    /\ run = "parsing" /\ svc <= Services
    /\ Waited
    /\ Len(batch) < svc * PerService
    /\ run' = "over"
    /\ UNCHANGED <<svc, pc, reply, result, batch, notes, client, mu, pipe>>

NextService ==
    /\ run = "parsing" /\ svc <= Services
    /\ Len(batch) = svc * PerService
    /\ svc' = svc + 1
    /\ pc' = Launch(svc + 1)
    /\ run' = IF svc = Services THEN "over" ELSE run
    /\ UNCHANGED <<reply, result, batch, notes, client, mu, pipe>>

\* The deferred Manager.Shutdown closes the client, which takes its mutex.
Shutdown ==
    /\ run = "over"
    /\ mu = None
    /\ run' = "ended"
    /\ IF client = "live" THEN client' = "dead" /\ proc' = "exited" ELSE UNCHANGED <<client, proc>>
    /\ UNCHANGED <<svc, pc, reply, result, batch, notes, mu, started, stdin, busy, stdout>>

Worker(f) ==
    \/ Acquire(f) \/ Route(f) \/ GetClient(f) \/ Enter(f) \/ Write(f) \/ Read(f)
    \/ Check(f) \/ Fallback(f) \/ Parse(f)

Sidecar == TakeRequest \/ Respond

Indexer == Deliver \/ WriteFails \/ NextService \/ Shutdown

Next == (\E f \in File : Worker(f)) \/ Sidecar \/ SidecarExits \/ SidecarHangs \/ Indexer

Spec == Init /\ [][Next]_vars

(***************************************************************************)
(* Goroutines that can run do run, and so does a sidecar that does not     *)
(* hang.  A semaphore slot or the mutex goes to one of the waiting         *)
(* goroutines; that each of them gets it in the end needs no strong        *)
(* fairness, since everyone takes it once.                                 *)
(***************************************************************************)
FairSpec ==
    /\ Spec
    /\ \A f \in File : WF_vars(Worker(f))
    /\ WF_vars(Sidecar)
    /\ WF_vars(Indexer)

TypeOK ==
    /\ svc \in 1..(Services + 1)
    /\ pc \in [File -> {"idle", "sem", "route", "client", "enter", "write", "read",
                        "check", "fallback", "parse", "done"}]
    /\ reply \in [File -> [of : File \cup {None}, kind : {"none", "parse", "error", "oversize"}]]
    /\ result \in [File -> [of : File \cup {None}, by : {"none", "sidecar", "process", "error"}]]
    /\ batch \in Seq([of : File \cup {None}, by : {"none", "sidecar", "process", "error"}])
    /\ notes \in [1..Services -> Seq({"inferred", "fallback"})]
    /\ client \in {"none", "live", "dead", "failed"}
    /\ mu \in File \cup {None}
    /\ proc \in {"none", "up", "hung", "exited"}
    /\ started \in Nat
    /\ stdin \in Seq(File) /\ busy \in File \cup {None}
    /\ stdout \in Seq([of : File, kind : {"parse", "error", "oversize"}])
    /\ run \in {"parsing", "over", "ended"}

(***************************************************************************)
(* Every result is the parse of its own file, although all goroutines of   *)
(* all services share one pipe on which frames carry no identifier, and    *)
(* the sidecar may answer with an error or die at any point.               *)
(***************************************************************************)
OwnResult == \A f \in File : pc[f] = "done" => result[f].of = f

(***************************************************************************)
(* The indexer takes the results in the order of the files, whatever the   *)
(* order in which the goroutines finished: no file twice, none left out.   *)
(***************************************************************************)
InFileOrder == \A i \in 1..Len(batch) : batch[i].of = i

(***************************************************************************)
(* A run starts one sidecar process at most, and none is left running when *)
(* the run has ended, whether it ran to its end or failed.                 *)
(***************************************************************************)
OneSidecar == started <= 1 /\ (run = "ended" => proc \in {"none", "exited"})

(***************************************************************************)
(* The parse phase ends although the sidecar may die at any point; the one *)
(* thing that stops it is a sidecar that neither answers nor dies, because *)
(* RoundTrip has no deadline and holds the client's mutex.                 *)
(***************************************************************************)
PhaseEnds == <>(run = "ended") \/ <>[](proc = "hung")

=============================================================================
