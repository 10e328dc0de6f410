---------------------------- MODULE AsyncContract ----------------------------
(***************************************************************************)
(* What the provider's handlers may rely on when they wait for an          *)
(* asynchronous operation of the backend: the operation goes its own way,  *)
(* the wait ends at most once, the verdict it ends with is one the         *)
(* operation or the context justifies at that moment, and the handler has  *)
(* the object's URL as soon as one status has shown it, whatever the       *)
(* verdict.  AsyncPoll implements it.                                      *)
(***************************************************************************)
EXTENDS ApiErrors

CONSTANT Codes      \* the status codes the backend may complete with

VARIABLES
  job,        \* the backend's operation: [done, code, resource]
  ctx,        \* the context of the wait
  shown,      \* history: the last status that arrived named the object
  resource,   \* the handler has the new object's URL
  verdict     \* how the wait ended

contractVars == <<job, ctx, shown, resource, verdict>>

Init ==
  /\ job = Running
  /\ ctx \in {"live", "cancelled"}
  /\ shown = FALSE /\ resource = FALSE
  /\ verdict = Plain("none")

JobMoves ==
  /\ ~job.done
  /\ job' \in Job(Codes)
  /\ job.resource => job'.resource
  /\ UNCHANGED <<ctx, shown, resource, verdict>>

ContextEnds ==
  /\ ctx = "live"
  /\ ctx' \in {"deadline", "cancelled"}
  /\ UNCHANGED <<job, shown, resource, verdict>>

(* A status that is not the last is read, and names the object or not.     *)
Learn ==
  /\ verdict = Plain("none")
  /\ shown' = job.resource /\ resource' = shown'
  /\ UNCHANGED <<job, ctx, verdict>>

Conclude ==
  /\ verdict = Plain("none")
  /\ Justified(verdict', job, ctx)
  /\ shown' \in {shown, job.resource} /\ resource' = shown'
  /\ verdict'.kind \in {"ok", "failed"} => shown' = job.resource
  /\ UNCHANGED <<job, ctx>>

Next == JobMoves \/ ContextEnds \/ Learn \/ Conclude

Spec == Init /\ [][Next]_contractVars
=============================================================================
