------------------------------ MODULE ApiErrors ------------------------------
(***************************************************************************)
(* How the provider reads an answer of the SASE backend: errors.go buckets *)
(* a failed call, async.go decides whether a completed asynchronous        *)
(* operation succeeded, and every handler acts on those two decisions.     *)
(*                                                                         *)
(* A failed call is a record: resp is the HTTP status that came with the   *)
(* error, or 0 when there was no response; fragment says that the error    *)
(* text has one of the fragments the provider retries ("unexpected eof",   *)
(* "timeout", ...); wraps is the error of package context that errors.Is   *)
(* finds in it.  A dialler's "i/o timeout" and an http.Client's timeout    *)
(* are context.DeadlineExceeded to errors.Is, whatever became of the       *)
(* operation's own context.  An error with resp = 200 is a body that was   *)
(* cut short or that did not decode: the SDK returns the response next to  *)
(* the error.                                                              *)
(***************************************************************************)
EXTENDS Integers

Statuses == {0} \cup 100..599

Failure == [resp : Statuses, fragment : BOOLEAN,
            wraps : {"none", "deadline", "cancelled"}]

(* A response decides alone; only without one is the text searched.        *)
classifyAPIError(f) ==
  CASE f.resp = 404                -> "notfound"
    [] f.resp = 409                -> "conflict"
    [] f.resp >= 500               -> "transient"
    [] f.resp = 0 /\ f.fragment    -> "transient"
    [] OTHER                       -> "other"

isNotFound(f) == classifyAPIError(f) = "notfound"

(* result.statusCode = 0 is a completion that omitted the code.            *)
isSuccessStatus(code) == code = 0 \/ code \in 200..299

(***************************************************************************)
(* The error pollAsync returns, as its callers can tell it apart with      *)
(* errors.As (asyncFailedError) and errors.Is (DeadlineExceeded): "failed" *)
(* carries the status code of the completion, "broken" is a call that      *)
(* failed, "deadline" and "cancelled" wrap context.DeadlineExceeded and    *)
(* context.Canceled, "ok" is nil, and "none" stands for a poll that has    *)
(* not returned.                                                           *)
(***************************************************************************)
Verdict ==
  [kind : {"none", "ok", "broken", "deadline", "cancelled"}, code : {0}]
    \cup [kind : {"failed"}, code : Statuses]

Plain(kind) == [kind |-> kind, code |-> 0]

asyncFailedError(code) == [kind |-> "failed", code |-> code]

isAsyncConflict(v) ==
  /\ v.kind = "failed"
  /\ classifyAPIError([resp |-> v.code, fragment |-> FALSE, wraps |-> "none"])
       = "conflict"

(***************************************************************************)
(* What a wait for an asynchronous operation may end with: the verdict v   *)
(* is one the operation j = [done, code, resource] and the context c       *)
(* justify at that moment.  A call may fail at any time, and may fail with *)
(* a timeout of its own: "deadline" says nothing about the context.        *)
(* AsyncPoll shows that the polling loop keeps to this, and the modules of *)
(* the handlers rely on nothing else about the loop.                       *)
(***************************************************************************)
Job(Codes) == [done : BOOLEAN, code : Codes \cup {0}, resource : BOOLEAN]

Running == [done |-> FALSE, code |-> 0, resource |-> FALSE]

Justified(v, j, c) ==
  \/ v \in {Plain("broken"), Plain("deadline")}
  \/ c = "cancelled" /\ v = Plain("cancelled")
  \/ j.done /\ isSuccessStatus(j.code)  /\ v = Plain("ok")
  \/ j.done /\ ~isSuccessStatus(j.code) /\ v = asyncFailedError(j.code)
=============================================================================
