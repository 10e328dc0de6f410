------------------------------ MODULE AsyncPoll ------------------------------
(***************************************************************************)
(* pollAsync over pollStandardNetworkStatusForResource: one asynchronous   *)
(* operation of the backend and the provider that polls its status until   *)
(* it completes, the polling breaks, or the context ends.                  *)
(***************************************************************************)
EXTENDS RetryLoop

CONSTANT Codes      \* the status codes the backend may complete with

ASSUME CodesAssumption == Codes \subseteq Statuses

VARIABLES
  job,        \* the backend's operation: [done, code, resource]
  resource,   \* the URL captured by the poll closure, as known or not
  shown       \* history: the last status that arrived named the object

vars == <<ctx, pc, remaining, blips, verdict, job, resource, shown>>

Contract == INSTANCE AsyncContract

TypeOK ==
  /\ LoopTypeOK
  /\ job \in Job(Codes)
  /\ resource \in BOOLEAN /\ shown \in BOOLEAN

Init ==
  /\ LoopInit
  /\ job = Running
  /\ resource = FALSE /\ shown = FALSE

(* The backend: it may name the object it is building before it is done,   *)
(* and completes with a code.  A failed completion may name one too.       *)
NameObject ==
  /\ ~job.done /\ ~job.resource
  /\ job' = [job EXCEPT !.resource = TRUE]
  /\ UNCHANGED <<loopVars, resource, shown>>

Complete(code, named) ==
  /\ ~job.done
  /\ job' = [done |-> TRUE, code |-> code, resource |-> job.resource \/ named]
  /\ UNCHANGED <<loopVars, resource, shown>>

(* Mutant: the URL is captured on the completing poll only, as the comment *)
(* on the helper has it.                                                   *)
CaptureOnCompletion == resource' = IF job.done THEN job.resource ELSE resource

(* A status arrives.  The closure records result.resource every time, also *)
(* when the operation is still running or has failed.                      *)
CaptureResource == resource' = job.resource

StatusArrives ==
  /\ pc = "call" /\ ctx = "live"
  /\ shown' = job.resource

StatusPending ==
  /\ StatusArrives /\ ~job.done
  /\ CaptureResource
  /\ pc' = "interval"
  /\ UNCHANGED <<ctx, remaining, blips, verdict, job>>

(* Mutant: completed is all the loop asks for.                             *)
AnyCompletionSucceeds ==
  /\ StatusArrives /\ job.done
  /\ CaptureResource
  /\ Return(Plain("ok"))
  /\ UNCHANGED job

StatusSucceeded ==
  /\ StatusArrives /\ job.done /\ isSuccessStatus(job.code)
  /\ CaptureResource
  /\ Return(Plain("ok"))
  /\ UNCHANGED job

(* Mutant: only a server error ends the wait, as in the loop before this.  *)
OnlyServerErrorsFail ==
  /\ StatusArrives /\ job.done /\ ~isSuccessStatus(job.code)
  /\ CaptureResource
  /\ \/ job.code >= 500 /\ Return(asyncFailedError(job.code))
     \/ /\ job.code < 500
        /\ pc' = "interval" /\ UNCHANGED <<ctx, remaining, blips, verdict>>
  /\ UNCHANGED job

StatusFailed ==
  /\ StatusArrives /\ job.done /\ ~isSuccessStatus(job.code)
  /\ CaptureResource
  /\ Return(asyncFailedError(job.code))
  /\ UNCHANGED job

Poll ==
  \/ StatusPending \/ StatusSucceeded \/ StatusFailed
  \/ CallFails /\ UNCHANGED <<job, resource, shown>>

Sleep == Wait /\ UNCHANGED <<job, resource, shown>>

Backend ==
  \/ NameObject
  \/ \E code \in Codes, named \in BOOLEAN : Complete(code, named)

(* A returned poll stays returned.                                         *)
Returned == pc = "done" /\ UNCHANGED vars

Next ==
  \/ Backend
  \/ ContextEnds /\ UNCHANGED <<job, resource, shown>>
  \/ Poll
  \/ Sleep
  \/ Returned

(* Every request is answered or given up on, and every timer fires.  The   *)
(* backend and the context owe nothing.                                    *)
Fairness == WF_vars(Poll) /\ WF_vars(Sleep)

Spec == Init /\ [][Next]_vars

FairSpec == Spec /\ Fairness

-----------------------------------------------------------------------------
(* A returned poll blames or credits the backend only for what the backend *)
(* did: success needs a 2xx (or omitted) code and the object's URL as the  *)
(* backend gave it, a failure carries the backend's own non-2xx code (the  *)
(* callers decide on it whether a name lookup is safe), and "cancelled" is *)
(* reported only for a context that was.  Whatever ended it, a poll hands  *)
(* over the URL that the last status showed: the create that times out     *)
(* after it records the object.  "deadline" promises nothing about the     *)
(* context: a call may time out while the operation has time left.         *)
VerdictIsTheServers ==
  /\ verdict.kind = "ok" =>
       job.done /\ isSuccessStatus(job.code) /\ resource = job.resource
  /\ verdict.kind = "failed" =>
       job.done /\ ~isSuccessStatus(job.code) /\ verdict.code = job.code
  /\ verdict.kind = "cancelled" => ctx = "cancelled"
  /\ pc = "done" => resource = shown

(* The budget belongs to the operation: however many statuses arrive in    *)
(* between, at most Budget transient failures are survived, and what is    *)
(* left of the budget is what was not survived.                            *)
BudgetIsPerOperation == blips <= Budget /\ blips + remaining = Budget

(* Once the context has ended the handler gets its verdict: no wait and no *)
(* retry outlives the resource's timeout.                                  *)
ContextBoundsTheWait == (ctx # "live") ~> (pc = "done")

(* Whatever code an operation completes with, the poll returns: a          *)
(* completion is never polled past.                                        *)
CompletionIsNoticed == job.done ~> (pc = "done")

(* The loop is an implementation of what the handlers rely on.             *)
ImplementsContract == Contract!Spec
=============================================================================
