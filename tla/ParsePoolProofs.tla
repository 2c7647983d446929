--------------------------- MODULE ParsePoolProofs ---------------------------
(***************************************************************************)
(* OwnResult, InFileOrder and OneSidecar for any number of services, files *)
(* and workers.  The inductive invariant says what is in the pipe: nothing *)
(* while nobody is inside RoundTrip, and one frame, of the goroutine that  *)
(* holds the mutex, while somebody waits for an answer.                    *)
(***************************************************************************)
EXTENDS ParsePool, TLAPS

\* The mutex is held by the goroutine that is inside RoundTrip, on a live client.
LockHeld ==
    /\ \A f \in File : pc[f] \in {"write", "read"} <=> mu = f
    /\ mu # None => client = "live"

\* What the manager's entry says of the process.
ClientKnows ==
    /\ client \in {"none", "failed"} => proc = "none" /\ started = 0
    /\ client \in {"live", "dead"} => proc # "none" /\ started = 1
    /\ client = "dead" => proc = "exited"
    /\ run = "ended" => client # "live"
    /\ \A f \in File : pc[f] \in {"enter", "write", "read"} => client \in {"live", "dead"}

Empty == stdin = <<>> /\ busy = None /\ stdout = <<>>

\* The one frame under way is the request of f or the answer to it.
Carries(f) ==
    \/ stdin = <<f>> /\ busy = None /\ stdout = <<>>
    \/ stdin = <<>> /\ busy = f /\ stdout = <<>>
    \/ stdin = <<>> /\ busy = None /\ stdout # <<>> /\ Head(stdout).of = f /\ Tail(stdout) = <<>>

PipeHolds ==
    /\ client # "dead" /\ (\A f \in File : pc[f] # "read") => Empty
    /\ client # "dead" => \A f \in File : pc[f] = "read" => Carries(f)

OwnReply == \A f \in File : pc[f] = "check" => reply[f].of = f

\* Where the loop over the services and the channel stands.
Progress ==
    /\ \A f \in File : pc[f] # "idle" => f \in FilesOf(svc)
    /\ (svc - 1) * PerService <= Len(batch)
    /\ run # "parsing" \/ svc <= Services
    /\ Len(batch) > (svc - 1) * PerService => svc <= Services /\ Waited /\ Len(batch) <= svc * PerService
    /\ run # "parsing" => \A f \in File : pc[f] \in {"idle", "done"}

IInv ==
    /\ TypeOK /\ LockHeld /\ ClientKnows /\ PipeHolds /\ OwnReply
    /\ OwnResult /\ Progress /\ InFileOrder

(***************************************************************************)
(* Sequences of one element.                                               *)
(***************************************************************************)
LEMMA OneElement ==
    ASSUME NEW x
    PROVE  /\ Append(<<>>, x) = <<x>> /\ <<x>> # <<>>
           /\ Head(<<x>>) = x /\ Tail(<<x>>) = <<>>
  OBVIOUS

LEMMA HeadOf ==
    ASSUME NEW S, NEW q \in Seq(S), q # <<>>
    PROVE  Head(q) \in S
  OBVIOUS

(***************************************************************************)
(* File numbers start at 1, so None is not one of them.                    *)
(***************************************************************************)
LEMMA FileNumbers ==
    /\ None \notin File
    /\ Services * PerService \in Nat
    /\ \A s \in 1..Services : FilesOf(s) = {f \in Int : (s - 1) * PerService + 1 <= f /\ f <= s * PerService}
  BY PoolAssumption DEF None, File, FilesOf

LEMMA InitInv == Init => IInv
  <1> SUFFICES ASSUME Init PROVE IInv
    OBVIOUS
  <1> USE PoolAssumption DEF Init
  <1>1. TypeOK
    BY DEF TypeOK, Launch, NoReply, NoResult, None
  <1>2. LockHeld /\ ClientKnows /\ PipeHolds /\ OwnReply /\ OwnResult
    BY FileNumbers DEF LockHeld, ClientKnows, PipeHolds, OwnReply, OwnResult, Launch, Empty, None
  <1>3. Progress /\ InFileOrder
    <2>1. Len(batch) = 0 /\ (svc - 1) * PerService = 0
      OBVIOUS
    <2>2. InFileOrder
      BY <2>1 DEF InFileOrder
    <2>3. QED
      BY <2>1, <2>2 DEF Progress, Launch
  <1>4. QED
    BY <1>1, <1>2, <1>3 DEF IInv

(***************************************************************************)
(* A step of one goroutine that keeps the mutex, the client and the pipe   *)
(* and does not enter or leave RoundTrip, nor finish.                      *)
(***************************************************************************)
LEMMA Elsewhere ==
    ASSUME IInv, NEW f \in File, NEW step \in {"route", "client", "fallback", "parse", "done"},
           pc[f] \in {"sem", "route", "client", "check", "fallback", "parse", "enter"},
           Goto(f, step), UNCHANGED <<svc, reply, batch, client, mu, pipe, run>>
    PROVE  LockHeld' /\ ClientKnows' /\ PipeHolds' /\ OwnReply' /\ Progress' /\ InFileOrder'
                /\ run = "parsing" /\ svc <= Services
  <1> USE DEF IInv, Goto, pipe
  <1>0. pc \in [File -> {"idle", "sem", "route", "client", "enter", "write", "read",
                        "check", "fallback", "parse", "done"}]
    BY DEF TypeOK
  <1>1. LockHeld' /\ ClientKnows'
    BY <1>0, Zenon DEF LockHeld, ClientKnows
  <1>2. PipeHolds' /\ OwnReply'
    BY <1>0 DEF PipeHolds, OwnReply, Empty, Carries
  <1>3. run = "parsing" /\ svc <= Services
    BY DEF Progress
  <1>4. ~Waited /\ f \in FilesOf(svc)
    BY DEF Progress, Waited
  <1>5. Progress'
    BY <1>0, <1>3, <1>4 DEF Progress
  <1>6. InFileOrder'
    BY DEF InFileOrder
  <1>7. QED
    BY <1>1, <1>2, <1>3, <1>5, <1>6

\* A step of a goroutine keeps the results of the others.
LEMMA OthersKeep ==
    ASSUME IInv, NEW f \in File, NEW step, Goto(f, step), step # "done", result' = result
    PROVE  OwnResult'
  BY DEF IInv, OwnResult, Goto, TypeOK

\* The notes stay sequences of keys.
LEMMA NotedType ==
    ASSUME IInv, NEW key \in {"inferred", "fallback"}, svc <= Services
    PROVE  Noted(svc, key) \in [1..Services -> Seq({"inferred", "fallback"})]
  <1>1. svc \in 1..Services
    BY PoolAssumption DEF IInv, TypeOK
  <1>2. Append(notes[svc], key) \in Seq({"inferred", "fallback"})
    BY <1>1 DEF IInv, TypeOK
  <1>3. QED
    BY <1>1, <1>2 DEF Noted, IInv, TypeOK

LEMMA AcquireInv == ASSUME IInv, NEW f \in File, Acquire(f) PROVE IInv'
  <1>1. TypeOK'
    BY DEF IInv, TypeOK, Acquire, Goto, pipe
  <1>2. QED
    BY <1>1, Elsewhere, OthersKeep DEF IInv, Acquire

LEMMA RouteInv == ASSUME IInv, NEW f \in File, Route(f) PROVE IInv'
  <1> DEFINE step == IF f \in Templ THEN "client" ELSE "parse"
  <1>1. /\ Goto(f, step) /\ step \in {"client", "parse"} /\ pc[f] = "route"
        /\ UNCHANGED <<svc, reply, result, batch, client, mu, pipe, run>>
    BY DEF Route
  <1>2. /\ LockHeld' /\ ClientKnows' /\ PipeHolds' /\ OwnReply' /\ Progress' /\ InFileOrder'
        /\ svc <= Services
    <2> HIDE DEF step
    <2> QED BY <1>1, Elsewhere
  <1>3. OwnResult'
    <2> HIDE DEF step
    <2> QED BY <1>1, OthersKeep
  <1>4. notes' \in [1..Services -> Seq({"inferred", "fallback"})]
    BY <1>2, NotedType DEF Route, IInv, TypeOK
  <1>5. TypeOK'
    BY <1>1, <1>4 DEF IInv, TypeOK, Goto, pipe
  <1>6. QED
    BY <1>2, <1>3, <1>5 DEF IInv

LEMMA FallbackInv == ASSUME IInv, NEW f \in File, Fallback(f) PROVE IInv'
  <1>1. /\ LockHeld' /\ ClientKnows' /\ PipeHolds' /\ OwnReply' /\ Progress' /\ InFileOrder'
        /\ svc <= Services
    BY Elsewhere DEF Fallback
  <1>2. OwnResult'
    BY OthersKeep DEF Fallback
  <1>3. TypeOK'
    BY <1>1, NotedType DEF IInv, TypeOK, Fallback, Goto, pipe
  <1>4. QED
    BY <1>1, <1>2, <1>3 DEF IInv

LEMMA ParseInv == ASSUME IInv, NEW f \in File, Parse(f) PROVE IInv'
  <1>1. LockHeld' /\ ClientKnows' /\ PipeHolds' /\ OwnReply' /\ Progress' /\ InFileOrder'
    BY Elsewhere DEF Parse
  <1>2. OwnResult' /\ TypeOK'
    BY DEF IInv, TypeOK, OwnResult, Parse, Goto, pipe
  <1>3. QED
    BY <1>1, <1>2 DEF IInv

LEMMA CheckInv == ASSUME IInv, NEW f \in File, Check(f) PROVE IInv'
  <1> DEFINE step == IF reply[f].kind = "parse" THEN "done" ELSE "fallback"
  <1>1. /\ Goto(f, step) /\ step \in {"done", "fallback"} /\ pc[f] = "check"
        /\ UNCHANGED <<svc, reply, batch, client, mu, pipe, run>>
    BY DEF Check
  <1>2. LockHeld' /\ ClientKnows' /\ PipeHolds' /\ OwnReply' /\ Progress' /\ InFileOrder'
    <2> HIDE DEF step
    <2> QED BY <1>1, Elsewhere
  <1>3. reply[f].of = f
    BY <1>1 DEF IInv, OwnReply
  <1>4. result' \in [File -> [of : File \cup {None}, by : {"none", "sidecar", "process", "error"}]]
    <2>1. result \in [File -> [of : File \cup {None}, by : {"none", "sidecar", "process", "error"}]]
      BY DEF IInv, TypeOK
    <2>2. [of |-> f, by |-> "sidecar"] \in [of : File \cup {None}, by : {"none", "sidecar", "process", "error"}]
      OBVIOUS
    <2>3. result' = result \/ result' = [result EXCEPT ![f] = [of |-> f, by |-> "sidecar"]]
      BY <1>3 DEF Check
    <2>4. QED
      BY <2>1, <2>2, <2>3
  <1>5. TypeOK'
    <2>1. notes' = notes
      BY DEF Check
    <2> HIDE DEF step
    <2>2. QED
      BY <1>1, <1>4, <2>1 DEF IInv, TypeOK, Goto, pipe
  <1>6. OwnResult'
    <2>1. \A g \in File \ {f} : pc'[g] = pc[g] /\ result'[g] = result[g]
      BY <1>1 DEF IInv, TypeOK, Check, Goto
    <2>2. pc'[f] = "done" => result'[f].of = f
      BY <1>1, <1>3 DEF IInv, TypeOK, Check, Goto
    <2>3. QED
      BY <2>1, <2>2 DEF IInv, OwnResult
  <1>7. QED
    BY <1>2, <1>5, <1>6 DEF IInv

\* The program counters, for the leaves that need no other type.
LEMMA Counters ==
    ASSUME IInv, NEW f \in File, NEW step, Goto(f, step)
    PROVE  /\ pc'[f] = step
           /\ \A g \in File \ {f} : pc'[g] = pc[g]
           /\ step \in {"route", "client", "enter", "write", "read", "check", "fallback", "parse", "done"}
                => pc' \in [File -> {"idle", "sem", "route", "client", "enter", "write", "read",
                                    "check", "fallback", "parse", "done"}]
  BY DEF IInv, TypeOK, Goto

\* A goroutine that is parsing keeps the pool from being waited for.
LEMMA StillParsing ==
    ASSUME IInv, NEW f \in File, pc[f] \notin {"idle", "sem", "done"}
    PROVE  run = "parsing" /\ ~Waited /\ f \in FilesOf(svc) /\ svc <= Services
  BY DEF IInv, Progress, Waited

LEMMA ProgressKept ==
    ASSUME IInv, NEW f \in File, pc[f] \notin {"idle", "sem", "done"}, NEW step, Goto(f, step),
           step # "done", UNCHANGED <<svc, batch, run>>
    PROVE  Progress' /\ InFileOrder'
  <1>1. run = "parsing" /\ ~Waited /\ f \in FilesOf(svc) /\ svc <= Services
    BY StillParsing
  <1>2. \A g \in File : pc'[g] # "idle" => g \in FilesOf(svc)
    BY <1>1, Counters DEF IInv, Progress
  <1>3. QED
    BY <1>1, <1>2 DEF IInv, Progress, InFileOrder

LEMMA GetClientInv == ASSUME IInv, NEW f \in File, GetClient(f) PROVE IInv'
  <1> DEFINE Same == UNCHANGED <<svc, reply, result, batch, notes, mu, run>>
  <1>1. Same /\ pc[f] = "client"
    BY DEF GetClient
  <1>2. CASE client \in {"live", "dead"} /\ Goto(f, "enter") /\ UNCHANGED <<client, pipe>>
    <2>1. Progress' /\ InFileOrder' /\ OwnResult'
      BY <1>1, <1>2, ProgressKept, OthersKeep
    <2>2. TypeOK'
      BY <1>1, <1>2, Counters DEF IInv, TypeOK, pipe
    <2>3. LockHeld'
      BY <1>1, <1>2, Counters DEF IInv, LockHeld
    <2>4. ClientKnows'
      BY <1>1, <1>2, Counters DEF IInv, ClientKnows, pipe
    <2>5. PipeHolds' /\ OwnReply'
      BY <1>1, <1>2, Counters DEF IInv, PipeHolds, OwnReply, pipe, Empty, Carries
    <2>6. QED
      BY <2>1, <2>2, <2>3, <2>4, <2>5 DEF IInv
  <1>3. CASE Goto(f, "fallback") /\ UNCHANGED <<client, pipe>>
    <2>1. LockHeld' /\ ClientKnows' /\ PipeHolds' /\ OwnReply' /\ Progress' /\ InFileOrder'
      BY <1>1, <1>3, Elsewhere
    <2>2. OwnResult'
      BY <1>1, <1>3, OthersKeep
    <2>3. TypeOK'
      BY <1>1, <1>3, Counters DEF IInv, TypeOK, pipe
    <2>4. QED
      BY <2>1, <2>2, <2>3 DEF IInv
  <1>4. CASE /\ client = "none" /\ client' = "live"
             /\ proc' = "up" /\ started' = started + 1
             /\ UNCHANGED <<stdin, busy, stdout>>
             /\ Goto(f, "enter")
    <2>1. Progress' /\ InFileOrder' /\ OwnResult'
      BY <1>1, <1>4, ProgressKept, OthersKeep
    <2>2. TypeOK'
      BY <1>1, <1>4, Counters DEF IInv, TypeOK
    <2>3. LockHeld'
      BY <1>1, <1>4, Counters DEF IInv, LockHeld
    <2>4. ClientKnows'
      BY <1>1, <1>4, Counters, StillParsing DEF IInv, ClientKnows
    <2>5. PipeHolds' /\ OwnReply'
      BY <1>1, <1>4, Counters DEF IInv, PipeHolds, OwnReply, Empty, Carries
    <2>6. QED
      BY <2>1, <2>2, <2>3, <2>4, <2>5 DEF IInv
  <1>5. CASE client = "none" /\ client' = "failed" /\ Goto(f, "fallback") /\ UNCHANGED pipe
    <2>1. Progress' /\ InFileOrder' /\ OwnResult'
      BY <1>1, <1>5, ProgressKept, OthersKeep
    <2>2. TypeOK'
      BY <1>1, <1>5, Counters DEF IInv, TypeOK, pipe
    <2>3. LockHeld'
      BY <1>1, <1>5, Counters DEF IInv, LockHeld
    <2>4. ClientKnows'
      BY <1>1, <1>5, Counters DEF IInv, ClientKnows, pipe
    <2>5. PipeHolds' /\ OwnReply'
      BY <1>1, <1>5, Counters DEF IInv, PipeHolds, OwnReply, pipe, Empty, Carries
    <2>6. QED
      BY <2>1, <2>2, <2>3, <2>4, <2>5 DEF IInv
  <1>6. QED
    BY <1>2, <1>3, <1>4, <1>5 DEF GetClient

LEMMA EnterInv == ASSUME IInv, NEW f \in File, Enter(f) PROVE IInv'
  <1>1. CASE client = "dead"
    <2>1. Goto(f, "fallback") /\ pc[f] = "enter"
          /\ UNCHANGED <<svc, reply, result, batch, notes, client, mu, pipe, run>>
      BY <1>1 DEF Enter
    <2>2. LockHeld' /\ ClientKnows' /\ PipeHolds' /\ OwnReply' /\ Progress' /\ InFileOrder'
      BY <2>1, Elsewhere
    <2>3. OwnResult'
      BY <2>1, OthersKeep
    <2>4. TypeOK'
      BY <2>1, Counters DEF IInv, TypeOK, pipe
    <2>5. QED
      BY <2>2, <2>3, <2>4 DEF IInv
  <1>2. CASE client # "dead"
    <2>1. Goto(f, "write") /\ pc[f] = "enter" /\ mu = None /\ mu' = f
          /\ UNCHANGED <<svc, reply, result, batch, notes, client, pipe, run>>
      BY <1>2 DEF Enter
    <2>2. client = "live" /\ \A g \in File : pc[g] \notin {"write", "read"}
      BY <1>2, <2>1, FileNumbers DEF IInv, ClientKnows, LockHeld
    <2>3. Progress' /\ InFileOrder' /\ OwnResult'
      BY <2>1, ProgressKept, OthersKeep
    <2>4. TypeOK'
      BY <2>1, Counters DEF IInv, TypeOK, pipe
    <2>5. LockHeld'
      BY <2>1, <2>2, Counters DEF LockHeld
    <2>6. ClientKnows'
      BY <2>1, <2>2, Counters DEF IInv, ClientKnows, pipe
    <2>7. PipeHolds' /\ OwnReply'
      BY <2>1, <2>2, Counters DEF IInv, PipeHolds, OwnReply, pipe, Empty, Carries
    <2>8. QED
      BY <2>3, <2>4, <2>5, <2>6, <2>7 DEF IInv
  <1>3. QED
    BY <1>1, <1>2

LEMMA KillInv ==
    ASSUME IInv, NEW f \in File, pc[f] \in {"write", "read"}, Kill(f)
    PROVE  IInv'
  <1>1. Goto(f, "fallback") /\ mu = f /\ client = "live" /\ mu' = None
    BY FileNumbers DEF Kill, IInv, LockHeld
  <1>2. \A g \in File : pc'[g] \notin {"write", "read"}
    BY <1>1, Counters DEF IInv, LockHeld
  <1>3. Progress' /\ InFileOrder' /\ OwnResult'
    BY <1>1, ProgressKept, OthersKeep DEF Kill
  <1>4. TypeOK'
    BY <1>1, Counters DEF IInv, TypeOK, Kill
  <1>5. LockHeld'
    BY <1>1, <1>2, FileNumbers DEF LockHeld
  <1>6. ClientKnows'
    BY <1>1, <1>2, Counters DEF IInv, ClientKnows, Kill
  <1>7. PipeHolds' /\ OwnReply'
    BY <1>1, Counters DEF IInv, PipeHolds, OwnReply, Kill
  <1>8. QED
    BY <1>3, <1>4, <1>5, <1>6, <1>7 DEF IInv

LEMMA WriteInv == ASSUME IInv, NEW f \in File, Write(f) PROVE IInv'
  <1>1. CASE Kill(f)
    BY <1>1, KillInv DEF Write
  <1>2. CASE /\ stdin' = Append(stdin, f)
             /\ Goto(f, "read")
             /\ UNCHANGED <<svc, reply, result, batch, notes, client, mu, proc, started, busy, stdout, run>>
    <2>1. pc[f] = "write" /\ mu = f /\ client = "live"
      BY FileNumbers DEF Write, IInv, LockHeld
    <2>2. \A g \in File : pc[g] # "read"
      BY <2>1 DEF IInv, LockHeld
    <2>3. Empty
      BY <2>1, <2>2 DEF IInv, PipeHolds
    <2>4. stdin' = <<f>>
      BY <1>2, <2>3, OneElement DEF Empty
    <2>5. Progress' /\ InFileOrder' /\ OwnResult'
      BY <1>2, <2>1, ProgressKept, OthersKeep
    <2>6. TypeOK'
      BY <1>2, <2>1, Counters DEF IInv, TypeOK
    <2>7. LockHeld'
      BY <1>2, <2>1, Counters DEF IInv, LockHeld
    <2>8. ClientKnows'
      BY <1>2, <2>1, Counters DEF IInv, ClientKnows
    <2>9. PipeHolds' /\ OwnReply'
      BY <1>2, <2>1, <2>2, <2>3, <2>4, Counters DEF IInv, PipeHolds, OwnReply, Empty, Carries
    <2>10. QED
      BY <2>5, <2>6, <2>7, <2>8, <2>9 DEF IInv
  <1>3. QED
    BY <1>1, <1>2 DEF Write

LEMMA ReadInv == ASSUME IInv, NEW f \in File, Read(f) PROVE IInv'
  <1>1. CASE Kill(f)
    BY <1>1, KillInv DEF Read
  <1>2. CASE /\ stdout # <<>>
             /\ reply' = [reply EXCEPT ![f] = Head(stdout)]
             /\ stdout' = Tail(stdout)
             /\ mu' = None
             /\ Goto(f, "check")
             /\ UNCHANGED <<svc, result, batch, notes, client, proc, started, stdin, busy, run>>
    <2>1. pc[f] = "read" /\ mu = f /\ client = "live"
      BY FileNumbers DEF Read, IInv, LockHeld
    <2>2. \A g \in File \ {f} : pc[g] \notin {"write", "read"}
      BY <2>1 DEF IInv, LockHeld
    <2>3. Carries(f)
      BY <2>1 DEF IInv, PipeHolds
    <2>4. stdin = <<>> /\ busy = None /\ Head(stdout).of = f /\ Tail(stdout) = <<>>
      BY <1>2, <2>3 DEF Carries
    <2>5. Head(stdout) \in [of : File, kind : {"parse", "error", "oversize"}]
      BY <1>2, HeadOf DEF IInv, TypeOK
    <2>6. Progress' /\ InFileOrder' /\ OwnResult'
      BY <1>2, <2>1, ProgressKept, OthersKeep
    <2>7. TypeOK'
      <3>1. reply' \in [File -> [of : File \cup {None}, kind : {"none", "parse", "error", "oversize"}]]
        BY <1>2, <2>5 DEF IInv, TypeOK
      <3>2. QED
        BY <1>2, <2>4, <3>1, Counters DEF IInv, TypeOK
    <2>8. LockHeld'
      BY <1>2, <2>1, <2>2, FileNumbers, Counters DEF LockHeld
    <2>9. ClientKnows'
      BY <1>2, <2>1, Counters DEF IInv, ClientKnows
    <2>10. PipeHolds'
      BY <1>2, <2>1, <2>2, <2>4, Counters DEF PipeHolds, Empty
    <2>11. OwnReply'
      <3>1. \A g \in File \ {f} : reply'[g] = reply[g] /\ pc'[g] = pc[g]
        BY <1>2, Counters DEF IInv, TypeOK
      <3>2. reply'[f] = Head(stdout)
        BY <1>2 DEF IInv, TypeOK
      <3>3. QED
        BY <2>4, <3>1, <3>2 DEF IInv, OwnReply
    <2>12. QED
      BY <2>6, <2>7, <2>8, <2>9, <2>10, <2>11 DEF IInv
  <1>3. QED
    BY <1>1, <1>2 DEF Read

\* A step of the sidecar touches nothing but the pipe.
LEMMA SidecarElsewhere ==
    ASSUME IInv, UNCHANGED <<svc, pc, reply, result, batch, notes, client, mu, started, run>>,
           proc \in {"up", "hung"}, proc' # "none"
    PROVE  LockHeld' /\ ClientKnows' /\ OwnReply' /\ OwnResult' /\ Progress' /\ InFileOrder' /\ client # "dead"
  <1>1. LockHeld' /\ OwnReply' /\ OwnResult' /\ InFileOrder'
    BY DEF IInv, LockHeld, OwnReply, OwnResult, InFileOrder
  <1>2. Progress'
    BY DEF IInv, Progress, Waited
  <1>3. client # "dead" /\ ClientKnows'
    BY DEF IInv, ClientKnows
  <1>4. QED
    BY <1>1, <1>2, <1>3

LEMMA SidecarInv ==
    ASSUME IInv, TakeRequest \/ Respond \/ SidecarExits \/ SidecarHangs
    PROVE  IInv'
  <1>1. CASE TakeRequest
    <2>1. LockHeld' /\ ClientKnows' /\ OwnReply' /\ OwnResult' /\ Progress' /\ InFileOrder' /\ client # "dead"
      BY <1>1, SidecarElsewhere DEF TakeRequest
    <2>2. PICK f \in File : pc[f] = "read"
      BY <1>1, <2>1 DEF TakeRequest, IInv, PipeHolds, Empty
    <2>3. stdin = <<f>> /\ busy = None /\ stdout = <<>>
      BY <1>1, <2>1, <2>2 DEF TakeRequest, IInv, PipeHolds, Carries
    <2>4. busy' = f /\ stdin' = <<>> /\ stdout' = <<>>
      BY <1>1, <2>3, OneElement DEF TakeRequest
    <2>5. \A g \in File : pc[g] = "read" => g = f
      BY <2>2 DEF IInv, LockHeld
    <2>6. PipeHolds'
      BY <1>1, <2>2, <2>4, <2>5 DEF PipeHolds, Carries, TakeRequest
    <2>7. TypeOK'
      BY <1>1, <2>4 DEF IInv, TypeOK, TakeRequest
    <2>8. QED
      BY <2>1, <2>6, <2>7 DEF IInv
  <1>2. CASE Respond
    <2>1. LockHeld' /\ ClientKnows' /\ OwnReply' /\ OwnResult' /\ Progress' /\ InFileOrder' /\ client # "dead"
      BY <1>2, SidecarElsewhere DEF Respond
    <2>2. PICK f \in File : pc[f] = "read"
      BY <1>2, <2>1 DEF Respond, IInv, PipeHolds, Empty
    <2>3. stdin = <<>> /\ busy = f /\ stdout = <<>>
      BY <1>2, <2>1, <2>2 DEF Respond, IInv, PipeHolds, Carries
    <2>4. PICK kind \in {"parse", "error", "oversize"} : stdout' = Append(stdout, [of |-> busy, kind |-> kind])
      BY <1>2 DEF Respond
    <2>5. stdout' = <<[of |-> f, kind |-> kind]>> /\ busy' = None /\ stdin' = <<>>
      BY <1>2, <2>3, <2>4, OneElement DEF Respond
    <2>6. stdout' # <<>> /\ Head(stdout').of = f /\ Tail(stdout') = <<>>
      BY <2>5, OneElement
    <2>7. \A g \in File : pc[g] = "read" => g = f
      BY <2>2 DEF IInv, LockHeld
    <2>8. PipeHolds'
      BY <1>2, <2>2, <2>5, <2>6, <2>7 DEF PipeHolds, Carries, Respond
    <2>9. TypeOK'
      BY <1>2, <2>5 DEF IInv, TypeOK, Respond
    <2>10. QED
      BY <2>1, <2>8, <2>9 DEF IInv
  <1>3. CASE SidecarExits \/ SidecarHangs
    <2>1. LockHeld' /\ ClientKnows' /\ OwnReply' /\ OwnResult' /\ Progress' /\ InFileOrder' /\ client # "dead"
      BY <1>3, SidecarElsewhere DEF SidecarExits, SidecarHangs
    <2>2. PipeHolds' /\ TypeOK'
      BY <1>3 DEF IInv, PipeHolds, Empty, Carries, TypeOK, SidecarExits, SidecarHangs
    <2>3. QED
      BY <2>1, <2>2 DEF IInv
  <1>4. QED
    BY <1>1, <1>2, <1>3

LEMMA DeliverInv == ASSUME IInv, Deliver PROVE IInv'
  <1>1. svc \in 1..Services /\ Len(batch) \in Nat
    BY PoolAssumption DEF Deliver, IInv, TypeOK
  <1> DEFINE i == Len(batch) + 1
  <1>2. i \in FilesOf(svc) /\ i \in File
    <2>1. (svc - 1) * PerService + 1 <= i /\ i <= svc * PerService
      BY <1>1, PoolAssumption DEF Deliver, IInv, Progress
    <2>2. svc * PerService <= Services * PerService
      BY <1>1, PoolAssumption
    <2>3. (svc - 1) * PerService \in Nat /\ svc * PerService \in Nat
      BY <1>1, PoolAssumption
    <2>4. QED
      BY <1>1, <2>1, <2>2, <2>3, FileNumbers DEF File, FilesOf
  <1>3. result[i].of = i
    BY <1>2 DEF Deliver, Waited, IInv, OwnResult
  <1>4. result[i] \in [of : File \cup {None}, by : {"none", "sidecar", "process", "error"}]
    BY <1>2 DEF IInv, TypeOK
  <1>5. Len(batch') = i /\ (\A j \in 1..Len(batch) : batch'[j] = batch[j]) /\ batch'[i] = result[i]
    BY <1>1 DEF Deliver, IInv, TypeOK
  <1>6. InFileOrder'
    BY <1>1, <1>3, <1>5 DEF InFileOrder, IInv
  <1>7. TypeOK'
    BY <1>4 DEF IInv, TypeOK, Deliver, pipe
  <1>8. Progress'
    <2>1. Waited' /\ svc' = svc /\ run' = run /\ pc' = pc
      BY DEF Deliver, Waited
    <2>2. i <= svc * PerService /\ (svc - 1) * PerService <= i
      BY <1>1, PoolAssumption DEF Deliver, IInv, Progress
    <2>3. QED
      BY <1>1, <1>5, <2>1, <2>2 DEF IInv, Progress, Deliver
  <1>9. LockHeld' /\ OwnReply' /\ OwnResult'
    BY DEF IInv, LockHeld, OwnReply, OwnResult, Deliver
  <1>10. ClientKnows' /\ PipeHolds'
    BY DEF IInv, ClientKnows, PipeHolds, Empty, Carries, Deliver, pipe
  <1>11. QED
    BY <1>6, <1>7, <1>8, <1>9, <1>10 DEF IInv

LEMMA WriteFailsInv == ASSUME IInv, WriteFails PROVE IInv'
  <1>1. LockHeld' /\ OwnReply' /\ OwnResult' /\ InFileOrder'
    BY DEF IInv, LockHeld, OwnReply, OwnResult, InFileOrder, WriteFails
  <1>2. ClientKnows' /\ PipeHolds'
    BY DEF IInv, ClientKnows, PipeHolds, Empty, Carries, WriteFails, pipe
  <1>3. Progress'
    <2>1. \A f \in File : pc[f] \in {"idle", "done"}
      BY DEF WriteFails, Waited, IInv, Progress
    <2>2. QED
      BY <2>1 DEF IInv, Progress, WriteFails, Waited
  <1>4. TypeOK'
    BY DEF IInv, TypeOK, WriteFails, pipe
  <1>5. QED
    BY <1>1, <1>2, <1>3, <1>4 DEF IInv

LEMMA NextServiceInv == ASSUME IInv, NextService PROVE IInv'
  <1>1. svc \in 1..Services /\ Len(batch) = svc * PerService
    BY PoolAssumption DEF NextService, IInv, TypeOK
  <1>2. \A f \in File : pc[f] \in {"idle", "done"}
    <2>1. CASE PerService = 0
      BY <1>1, <2>1, FileNumbers DEF IInv, Progress, FilesOf
    <2>2. CASE PerService # 0
      <3>1. Len(batch) > (svc - 1) * PerService
        BY <1>1, <2>2, PoolAssumption
      <3>2. QED
        BY <3>1 DEF IInv, Progress, Waited
    <2>3. QED
      BY <2>1, <2>2
  <1>3. mu = None
    BY <1>2 DEF IInv, LockHeld, TypeOK
  <1>4. pc' = Launch(svc + 1) /\ \A f \in File : pc'[f] \in {"sem", "idle"}
    BY DEF NextService, Launch
  <1>5. LockHeld' /\ OwnReply' /\ OwnResult'
    BY <1>3, <1>4, FileNumbers DEF LockHeld, OwnReply, OwnResult, NextService
  <1>6. ClientKnows'
    BY <1>4 DEF IInv, ClientKnows, NextService, pipe
  <1>7. PipeHolds'
    BY <1>2, <1>4 DEF IInv, PipeHolds, Empty, Carries, NextService, pipe
  <1>8. TypeOK' /\ InFileOrder'
    <2>1. svc' \in 1..(Services + 1) /\ run' \in {"parsing", "over", "ended"}
      BY <1>1, PoolAssumption DEF NextService
    <2>2. pc' \in [File -> {"idle", "sem", "route", "client", "enter", "write", "read",
                           "check", "fallback", "parse", "done"}]
      BY <1>4 DEF Launch
    <2>3. QED
      BY <2>1, <2>2 DEF IInv, TypeOK, InFileOrder, NextService, pipe
  <1>9. Progress'
    <2>1. svc' = svc + 1 /\ batch' = batch /\ run = "parsing"
      BY DEF NextService
    <2>2. (svc' - 1) * PerService = Len(batch')
      BY <1>1, <2>1
    <2>3. \A f \in File : pc'[f] # "idle" => f \in FilesOf(svc')
      BY <1>4, <2>1 DEF Launch
    <2>4. run' # "parsing" => \A f \in File : pc'[f] = "idle"
      <3>1. SUFFICES ASSUME svc = Services, NEW f \in File PROVE f \notin FilesOf(Services + 1)
        BY <1>4, <2>1 DEF NextService, Launch
      <3>2. QED
        BY PoolAssumption, FileNumbers DEF File, FilesOf
    <2>5. run' = "parsing" => svc' <= Services
      BY <1>1, <2>1, PoolAssumption DEF NextService
    <2>6. QED
      BY <1>1, <2>2, <2>3, <2>4, <2>5 DEF Progress
  <1>10. QED
    BY <1>5, <1>6, <1>7, <1>8, <1>9 DEF IInv

LEMMA ShutdownInv == ASSUME IInv, Shutdown PROVE IInv'
  <1>1. mu = None /\ run = "over" /\ run' = "ended"
        /\ UNCHANGED <<svc, pc, reply, result, batch, notes, mu, started, stdin, busy, stdout>>
        /\ (client = "live" => client' = "dead" /\ proc' = "exited")
        /\ (client # "live" => client' = client /\ proc' = proc)
    BY DEF Shutdown
  <1>2. LockHeld' /\ OwnReply' /\ OwnResult' /\ InFileOrder'
    BY <1>1 DEF IInv, LockHeld, OwnReply, OwnResult, InFileOrder
  <1>3. ClientKnows'
    BY <1>1 DEF IInv, ClientKnows, TypeOK
  <1>4. PipeHolds'
    BY <1>1 DEF IInv, PipeHolds, Empty, Carries
  <1>5. Progress'
    BY <1>1 DEF IInv, Progress, Waited
  <1>6. TypeOK'
    BY <1>1 DEF IInv, TypeOK
  <1>7. QED
    BY <1>2, <1>3, <1>4, <1>5, <1>6 DEF IInv

LEMMA StepInv == IInv /\ [Next]_vars => IInv'
  <1> SUFFICES ASSUME IInv, [Next]_vars PROVE IInv'
    OBVIOUS
  <1>1. ASSUME NEW f \in File, Worker(f) PROVE IInv'
    BY <1>1, AcquireInv, RouteInv, GetClientInv, EnterInv, WriteInv, ReadInv, CheckInv, FallbackInv, ParseInv
      DEF Worker
  <1>2. CASE Sidecar \/ SidecarExits \/ SidecarHangs
    BY <1>2, SidecarInv DEF Sidecar
  <1>3. CASE Indexer
    BY <1>3, DeliverInv, WriteFailsInv, NextServiceInv, ShutdownInv DEF Indexer
  <1>4. CASE UNCHANGED vars
    <2>1. LockHeld' /\ OwnReply' /\ OwnResult' /\ InFileOrder'
      BY <1>4 DEF IInv, LockHeld, OwnReply, OwnResult, InFileOrder, vars, pipe
    <2>2. ClientKnows' /\ PipeHolds'
      BY <1>4 DEF IInv, ClientKnows, PipeHolds, Empty, Carries, vars, pipe
    <2>3. Progress' /\ TypeOK'
      BY <1>4 DEF IInv, Progress, Waited, TypeOK, vars, pipe
    <2>4. QED
      BY <2>1, <2>2, <2>3 DEF IInv
  <1>5. QED
    BY <1>1, <1>2, <1>3, <1>4 DEF Next

(***************************************************************************)
(* What the pipe, the mutex and the manager's entry hold at every step of  *)
(* the parse phase.                                                        *)
(***************************************************************************)
THEOREM PoolInvariant == Spec => []IInv
  BY InitInv, StepInv, PTL DEF Spec

(***************************************************************************)
(* Type correctness of the parse phase.                                    *)
(***************************************************************************)
THEOREM PoolTypes == Spec => []TypeOK
  <1>1. IInv => TypeOK
    BY DEF IInv
  <1>2. QED
    BY <1>1, PoolInvariant, PTL

(***************************************************************************)
(* However many goroutines share the sidecar's pipe and whenever it fails, *)
(* every result is the parse of its own file.                              *)
(***************************************************************************)
THEOREM ResultsAreOwn == Spec => []OwnResult
  <1>1. IInv => OwnResult
    BY DEF IInv
  <1>2. QED
    BY <1>1, PoolInvariant, PTL

(***************************************************************************)
(* WorkerPool.Run: the indexer takes the results in the order of the files *)
(* for any number of services, files and workers.                          *)
(***************************************************************************)
THEOREM ResultsInOrder == Spec => []InFileOrder
  <1>1. IInv => InFileOrder
    BY DEF IInv
  <1>2. QED
    BY <1>1, PoolInvariant, PTL

(***************************************************************************)
(* Manager: at most one sidecar is started, and Shutdown leaves none.      *)
(***************************************************************************)
THEOREM NoSidecarLeft == Spec => []OneSidecar
  <1>1. IInv => OneSidecar
    BY DEF IInv, ClientKnows, OneSidecar, TypeOK
  <1>2. QED
    BY <1>1, PoolInvariant, PTL

=============================================================================
