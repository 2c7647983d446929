------------------------------ MODULE JobsPage ------------------------------
(***************************************************************************)
(* The browser's view of the job manager (web/src/stores/jobs.ts): the     *)
(* index button shows activeIndexJob, which is set by the replies to       *)
(* POST /api/jobs and by the job events of the /api/events stream.  The    *)
(* two travel on connections of their own: a reply may be handled after an *)
(* event that was sent later.  The server stays up here; JobManager has    *)
(* its restarts.                                                           *)
(***************************************************************************)
EXTENDS JobManager

CONSTANT MaxClicks   \* clicks on a button that is answered 409

ASSUME PageConstants == MaxClicks \in Nat

VARIABLES
  activeIndexJob,  \* the job the button shows, None when it offers to start one
  handled,         \* jobs whose 202 reply the page has handled
  refusals,        \* 409 replies under way: the running job each one names
  clicks           \* refused requests so far

pageVars == <<activeIndexJob, handled, refusals, clicks>>
vars     == <<jobVars, pageVars>>

-----------------------------------------------------------------------------
PageInit ==
  /\ Init
  /\ activeIndexJob = None /\ handled = {} /\ refusals = {} /\ clicks = 0

(* startIndex, from any open page: the server accepts...                   *)
ClickIndex(j) == Start(IndexKind, j) /\ UNCHANGED pageVars

(* ... or refuses with 409, and names the running job.  The page keeps it
   when it is an index job. *)
ClickRefused(j) ==
  /\ clicks < MaxClicks /\ running[IndexKind] = j
  /\ clicks' = clicks + 1
  /\ refusals' = refusals \cup {j}
  /\ UNCHANGED <<jobVars, activeIndexJob, handled>>

(* setActiveIndexJob(data.job): whatever the state of the job is by now.   *)
HandleReply(j) ==
  /\ caller[j] = "returned" /\ j \notin handled
  /\ handled' = handled \cup {j}
  /\ activeIndexJob' = j
  /\ UNCHANGED <<jobVars, refusals, clicks>>

HandleRefusal(j) ==
  /\ j \in refusals
  /\ refusals' = refusals \ {j}
  /\ activeIndexJob' = j
  /\ UNCHANGED <<jobVars, handled, clicks>>


(* handleJobEvent.                                                         *)
HandleJobEvent ==
  /\ Deliver
  /\ activeIndexJob' = IF Head(sse).state = "running" THEN Head(sse).job ELSE None
  /\ UNCHANGED <<handled, refusals, clicks>>

ServerStep(j) == (CallerStep(j) \/ RunStep(j)) /\ UNCHANGED pageVars

PageNext ==
  \/ \E j \in Job : ClickIndex(j) \/ ClickRefused(j) \/ HandleReply(j) \/ HandleRefusal(j)
  \/ HandleJobEvent
  \/ \E j \in Job : ServerStep(j)

(* The server's threads are scheduled, and replies and events arrive.      *)
PageSpec ==
  /\ PageInit /\ [][PageNext]_vars
  /\ \A j \in Job : /\ WF_vars(CallerStep(j) /\ UNCHANGED pageVars)
                    /\ WF_vars(RunStep(j) /\ UNCHANGED pageVars)
                    /\ WF_vars(HandleReply(j)) /\ WF_vars(HandleRefusal(j))
  /\ WF_vars(HandleJobEvent)

-----------------------------------------------------------------------------

(* "The single running "index" job the top-bar button reflects": the button
   does not go on showing a job that is over. *)
ButtonReflectsRunning ==
  \A j \in Job : (activeIndexJob = j /\ pc[j] = "done") ~> (activeIndexJob # j)

=============================================================================
