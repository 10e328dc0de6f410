------------------------------ MODULE RetryLoop ------------------------------
(***************************************************************************)
(* The loop pollAsync and pollUntilConverged have in common: call, retry a *)
(* transient failure while the budget lasts, wait and call again, and stop *)
(* when the context ends.  What a successful call says is left to the      *)
(* modules that extend this one.                                           *)
(*                                                                         *)
(* Durations (the interval, the doubling backoff) are left out: a wait     *)
(* ends when its timer fires or when the context ends, so every order of   *)
(* the two is possible.                                                    *)
(***************************************************************************)
EXTENDS ApiErrors

CONSTANTS
  Budget,     \* transientBudget: transient failures one operation may have
  Failures    \* the failed calls the environment may answer with

ASSUME BudgetAssumption == Budget \in Nat
(* Nobody but the operation's own context cancels a call.                  *)
ASSUME FailuresAssumption ==
  Failures \subseteq {f \in Failure : f.wraps # "cancelled"}

VARIABLES
  ctx,        \* the operation's context: "live", "deadline" or "cancelled"
  pc,         \* "call" (request in flight), "backoff", "interval" or "done"
  remaining,  \* what is left of the budget
  blips,      \* history: transient failures survived, counted to Budget + 1
  verdict     \* what the loop returned

loopVars == <<ctx, pc, remaining, blips, verdict>>

(* The context may be cancelled (Ctrl-C) before the first call.            *)
LoopInit ==
  /\ ctx \in {"live", "cancelled"}
  /\ pc = "call"
  /\ remaining = Budget
  /\ blips = 0
  /\ verdict = Plain("none")

LoopTypeOK ==
  /\ ctx \in {"live", "deadline", "cancelled"}
  /\ pc \in {"call", "backoff", "interval", "done"}
  /\ remaining \in 0..Budget
  /\ blips \in 0..(Budget + 1)
  /\ verdict \in Verdict

CountBlip == blips' = IF blips > Budget THEN blips ELSE blips + 1

(* What a call in flight may fail with: a failure of its own, and once the *)
(* context has ended, the context's error, in a wording of the dialler's   *)
(* ("i/o timeout") or of the client's.                                     *)
CallFailures ==
  IF ctx = "live"
  THEN Failures
  ELSE Failures \cup [resp : {0}, fragment : BOOLEAN, wraps : {ctx}]

(* The resource's timeout expires, or Terraform cancels the operation.     *)
ContextEnds ==
  /\ ctx = "live" /\ pc # "done"
  /\ ctx' \in {"deadline", "cancelled"}
  /\ UNCHANGED <<pc, remaining, blips, verdict>>

Return(v) ==
  /\ pc' = "done"
  /\ verdict' = v
  /\ UNCHANGED <<ctx, remaining, blips>>

(* Mutant: the budget is never spent.                                      *)
RetryWithoutCount(f) ==
  /\ pc = "call"
  /\ classifyAPIError(f) = "transient"
  /\ remaining > 0
  /\ CountBlip
  /\ pc' = "backoff"
  /\ UNCHANGED <<ctx, remaining, verdict>>

(* Mutant: the loop retries whatever is left of the budget.                *)
RetryForEver(f) ==
  /\ pc = "call"
  /\ classifyAPIError(f) = "transient"
  /\ remaining' = remaining - 1
  /\ CountBlip
  /\ pc' = "backoff"
  /\ UNCHANGED <<ctx, verdict>>

(* A transient failure within the budget: take one unit and back off.      *)
Retry(f) ==
  /\ pc = "call"
  /\ classifyAPIError(f) = "transient"
  /\ remaining > 0
  /\ remaining' = remaining - 1
  /\ CountBlip
  /\ pc' = "backoff"
  /\ UNCHANGED <<ctx, verdict>>

(* Any other failure ends the loop; %w keeps what errors.Is finds in it,   *)
(* also when that is a timeout of the call under a context that lives on.  *)
GiveUp(f) ==
  /\ pc = "call"
  /\ classifyAPIError(f) # "transient" \/ remaining = 0
  /\ Return(Plain(IF f.wraps = "none" THEN "broken" ELSE f.wraps))

CallFails == \E f \in CallFailures : Retry(f) \/ GiveUp(f)

(* sleepCtx returned nil: the timer fired.  When the context ends at that  *)
(* very moment, select may still choose the timer.                         *)
TimerFires ==
  /\ pc \in {"backoff", "interval"}
  /\ pc' = "call"
  /\ UNCHANGED <<ctx, remaining, blips, verdict>>

(* sleepCtx returned the context's error.                                  *)
SleepInterrupted ==
  /\ pc \in {"backoff", "interval"}
  /\ ctx # "live"
  /\ Return(Plain(ctx))

Wait == TimerFires \/ SleepInterrupted
=============================================================================
