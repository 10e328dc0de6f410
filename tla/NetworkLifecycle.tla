-------------------------- MODULE NetworkLifecycle --------------------------
(***************************************************************************)
(* One checkpointsase_network address through its life: Terraform core     *)
(* calls the create, read, delete and import handlers of                   *)
(* resource_network.go, the tenant provisions and tears down networks      *)
(* behind asynchronous operations, and the console and other workspaces    *)
(* act on the same tenant.  All the networks of the model have the         *)
(* configured name, so that every one of them is what a lookup by name     *)
(* finds and what a create collides with.                                  *)
(*                                                                         *)
(* A handler's call and the effect of its answer are one step; between two *)
(* calls everybody else may move.  The polling loops are replaced by what  *)
(* they promise (Justified in ApiErrors, implemented by AsyncPoll).        *)
(***************************************************************************)
EXTENDS ApiErrors, FiniteSets

CONSTANTS
  NetId,      \* the ids the tenant may give to networks
  NoId,       \* the empty id
  MaxFaults,  \* bound: failed, lost, refused or interrupted calls
  MaxEdits    \* bound: edits of the configuration, the console and imports

ASSUME NoIdAssumption == NoId \notin NetId
ASSUME BoundsAssumption == MaxFaults \in Nat /\ MaxEdits \in Nat

VARIABLES
  tenant,     \* NetId -> [phase, owner, job], the backend's networks
  state,      \* Terraform's record of the address: [id, tainted]
  want,       \* the configuration declares the network
  op,         \* the operation Terraform core is running, and its handler
  told,       \* history: networks the operator imported or was warned about
  refused,    \* history: networks whose poll reported a conflict
  timedOut,   \* history: networks whose create timed out with the URL known
  faults, edits

vars == <<tenant, state, want, op, told, refused, timedOut, faults, edits>>

history == <<told, refused, timedOut>>
bounds == <<faults, edits>>

Codes == {200, 409, 500}

Phase == {"unborn", "provisioning", "live", "deleting", "gone"}

Network ==
  [phase : Phase, owner : {"none", "terraform", "other"}, job : Job(Codes)]

(* pc is the call the handler makes next; id is d.Id(); target is the      *)
(* network the POST started and url that a poll has read its URL; ended    *)
(* that the poll left a context behind that has ended; errors that the     *)
(* diagnostics hold an Error.                                              *)
Operation ==
  [pc : {"idle", "post", "poll", "list", "read", "delete", "wait"},
   kind : {"none", "create", "replace", "destroy", "refresh", "import"},
   id : NetId \cup {NoId}, target : NetId \cup {NoId}, url : BOOLEAN,
   ended : BOOLEAN, errors : BOOLEAN]

Idle == [pc |-> "idle", kind |-> "none", id |-> NoId, target |-> NoId,
         url |-> FALSE, ended |-> FALSE, errors |-> FALSE]

TypeOK ==
  /\ tenant \in [NetId -> Network]
  /\ state \in [id : NetId \cup {NoId}, tainted : BOOLEAN]
  /\ want \in BOOLEAN
  /\ op \in Operation /\ (op.pc = "poll" => op.target \in NetId)
  /\ told \subseteq NetId
  /\ refused \subseteq NetId
  /\ timedOut \subseteq NetId
  /\ faults \in 0..MaxFaults
  /\ edits \in 0..MaxEdits

Unborn == [phase |-> "unborn", owner |-> "none", job |-> Running]

NoRecord == [id |-> NoId, tainted |-> FALSE]

Init ==
  /\ tenant = [n \in NetId |-> Unborn]
  /\ state = NoRecord
  /\ want \in BOOLEAN
  /\ op = Idle
  /\ told = {} /\ refused = {} /\ timedOut = {}
  /\ faults = 0 /\ edits = 0

Fault == faults < MaxFaults /\ faults' = faults + 1 /\ UNCHANGED edits
Edit == edits < MaxEdits /\ edits' = edits + 1 /\ UNCHANGED faults

(* GET finds a network, and the list shows it, from the POST that starts   *)
(* it until its teardown is over.                                          *)
Exists(n) ==
  n \in NetId /\ tenant[n].phase \in {"provisioning", "live", "deleting"}

(* Names are unique among the networks that are up or going down.          *)
NameTaken(n) ==
  \E m \in NetId \ {n} : tenant[m].phase \in {"live", "deleting"}

SetPhase(n, p) == tenant' = [tenant EXCEPT ![n].phase = p]

-----------------------------------------------------------------------------
(* The SDK and Terraform core: what becomes of d.Id() and the diagnostics  *)
(* when a handler returns.                                                 *)

(* An id is recorded even when the create failed, and is tainted then.     *)
CreateReturns(id, errors) ==
  /\ state' = [id |-> id, tainted |-> errors /\ id # NoId]
  /\ op' = Idle

(* A failed delete, like a failed update, leaves the record as it was.     *)
DeleteReturns(id) ==
  /\ state' = IF id = NoId THEN NoRecord ELSE state
  /\ op' = IF op.kind = "replace" /\ id = NoId
           THEN [Idle EXCEPT !.pc = "post", !.kind = "create"]
           ELSE Idle

ReadReturns(id, errors) ==
  /\ CASE op.kind = "create"  -> state' = [id |-> id,
                                           tainted |-> errors /\ id # NoId]
       [] op.kind = "refresh" -> state' = IF id = NoId THEN NoRecord ELSE state
       [] op.kind = "import"  -> state' = IF errors THEN state
                                          ELSE [id |-> id, tainted |-> FALSE]
  /\ op' = Idle

(* terraform apply: the plan is made from the record and the configuration *)
Apply ==
  /\ op = Idle
  /\ \/ /\ want /\ state.id = NoId
        /\ op' = [Idle EXCEPT !.pc = "post", !.kind = "create"]
     \/ /\ want /\ state.id # NoId /\ state.tainted
        /\ op' = [Idle EXCEPT !.pc = "delete", !.kind = "replace",
                              !.id = state.id]
     \/ /\ ~want /\ state.id # NoId
        /\ op' = [Idle EXCEPT !.pc = "delete", !.kind = "destroy",
                              !.id = state.id]
  /\ UNCHANGED <<tenant, state, want, history, bounds>>

(* The refresh that precedes a plan, unless -refresh=false or a saved plan *)
(* leaves it out: an Apply need not follow a Refresh.                      *)
Refresh ==
  /\ op = Idle /\ state.id # NoId
  /\ op' = [Idle EXCEPT !.pc = "read", !.kind = "refresh", !.id = state.id]
  /\ UNCHANGED <<tenant, state, want, history, bounds>>

(* terraform import: ResourceNetworkImportState reads the id it is given.  *)
Import(n) ==
  /\ op = Idle /\ state.id = NoId /\ tenant[n].phase # "unborn"
  /\ Edit
  /\ op' = [Idle EXCEPT !.pc = "read", !.kind = "import", !.id = n]
  /\ told' = told \cup {n}
  /\ UNCHANGED <<tenant, state, want, refused, timedOut>>

EditConfig ==
  /\ op = Idle
  /\ Edit
  /\ want' = ~want
  /\ UNCHANGED <<tenant, state, op, history>>

(* The process dies: core keeps the record of before the operation.        *)
Crash ==
  /\ op # Idle
  /\ Fault
  /\ op' = Idle
  /\ UNCHANGED <<tenant, state, want, history>>

-----------------------------------------------------------------------------
(* resourceNetworkCreate                                                   *)

Post(n) ==
  /\ op.pc = "post"
  /\ tenant[n].phase = "unborn"
  /\ tenant' = [tenant EXCEPT ![n].phase = "provisioning",
                              ![n].owner = "terraform"]
  /\ UNCHANGED <<want, history>>

(* Mutant: the operation the POST started is not remembered.               *)
AcceptedUntracked(n) ==
  /\ Post(n)
  /\ op' = [op EXCEPT !.pc = "poll"]
  /\ UNCHANGED <<state, bounds>>

CreateAccepted(n) ==
  /\ Post(n)
  /\ op' = [op EXCEPT !.pc = "poll", !.target = n]
  /\ UNCHANGED <<state, bounds>>

(* The POST fails, and the tenant has acted on it all the same.            *)
CreateReplyLost(n) ==
  /\ Post(n)
  /\ Fault
  /\ CreateReturns(NoId, TRUE)

(* The POST fails; a tenant that is out of ids (a bound) always refuses.   *)
CreateRefused ==
  /\ op.pc = "post"
  /\ IF \E n \in NetId : tenant[n].phase = "unborn"
     THEN Fault ELSE UNCHANGED bounds
  /\ CreateReturns(NoId, TRUE)
  /\ UNCHANGED <<tenant, want, history>>

(* A status that is not the last may already name the network.             *)
PollPending ==
  /\ op.pc = "poll"
  /\ ~tenant[op.target].job.done
  /\ op' = [op EXCEPT !.url = tenant[op.target].job.resource]
  /\ UNCHANGED <<tenant, state, want, history, bounds>>

(* The wait ends, in context c, with a verdict the operation or c          *)
(* justifies; one that the operation is not to blame for is a fault.       *)
PollEnds(v, c) ==
  /\ op.pc = "poll"
  /\ Justified(v, tenant[op.target].job, c)
  /\ IF v.kind \in {"ok", "failed"} THEN UNCHANGED bounds ELSE Fault
  /\ refused' = IF v = asyncFailedError(409)
                THEN refused \cup {op.target} ELSE refused
  /\ UNCHANGED <<tenant, want, told>>

(* d.SetId(getIdFromUrl(resource)), "" when the completion named nothing.  *)
CreateSucceeds ==
  /\ PollEnds(Plain("ok"), "live")
  /\ op' = [op EXCEPT
       !.pc = "read",
       !.id = IF tenant[op.target].job.resource THEN op.target ELSE NoId]
  /\ UNCHANGED <<state, timedOut>>

(* Mutant: a timed-out create returns without the id (P81-146570).         *)
TimesOutWithoutId(c) ==
  /\ PollEnds(Plain("deadline"), c)
  /\ op.url
  /\ CreateReturns(NoId, TRUE)
  /\ timedOut' = timedOut \cup {op.target}

(* The handler takes every deadline for its own, also that of a call which *)
(* timed out while the operation had time left.                            *)
CreateTimesOut(c) ==
  /\ PollEnds(Plain("deadline"), c)
  /\ op.url
  /\ CreateReturns(op.target, TRUE)
  /\ timedOut' = timedOut \cup {op.target}

CreateConflicts(v, c) ==
  /\ isAsyncConflict(v)
  /\ PollEnds(v, c)
  /\ CreateReturns(NoId, TRUE)
  /\ UNCHANGED timedOut

(* Mutant: a conflict is looked up by name as well.                        *)
LookUpTheWinner(v, c) ==
  /\ v.kind # "ok"
  /\ ~(v.kind = "deadline" /\ op.url)
  /\ PollEnds(v, c)
  /\ op' = [op EXCEPT !.pc = "list", !.ended = c # "live", !.errors = TRUE]
  /\ UNCHANGED <<state, timedOut>>

(* Any other error: look for the network by name.                          *)
LookUp(v, c) ==
  /\ v.kind # "ok" /\ ~isAsyncConflict(v)
  /\ ~(v.kind = "deadline" /\ op.url)
  /\ PollEnds(v, c)
  /\ op' = [op EXCEPT !.pc = "list", !.ended = c # "live", !.errors = TRUE]
  /\ UNCHANGED <<state, timedOut>>

CreateFails(c) ==
  \/ CreateTimesOut(c)
  \/ \E v \in {Plain("broken"), Plain("deadline"), Plain("cancelled"),
               asyncFailedError(409), asyncFailedError(500)} :
       CreateConflicts(v, c) \/ LookUp(v, c)

Adopt(n) ==
  /\ op.pc = "list" /\ ~op.ended
  /\ Exists(n)
  /\ op' = [op EXCEPT !.pc = "read", !.id = n]
  /\ told' = told \cup {n}
  /\ UNCHANGED <<tenant, state, want, refused, timedOut, bounds>>

NothingToAdopt ==
  /\ op.pc = "list" /\ ~op.ended
  /\ \A n \in NetId : ~Exists(n)
  /\ CreateReturns(NoId, TRUE)
  /\ UNCHANGED <<tenant, want, history, bounds>>

ListFails ==
  /\ op.pc = "list"
  /\ IF op.ended THEN UNCHANGED bounds ELSE Fault
  /\ CreateReturns(NoId, TRUE)
  /\ UNCHANGED <<tenant, want, history>>

Create ==
  \/ \E n \in NetId : CreateAccepted(n) \/ CreateReplyLost(n) \/ Adopt(n)
  \/ CreateRefused \/ PollPending \/ CreateSucceeds
  \/ \E c \in {"live", "deadline", "cancelled"} : CreateFails(c)
  \/ NothingToAdopt \/ ListFails

-----------------------------------------------------------------------------
(* resourceNetworkRead, also as the tail of a create and of an import      *)

ReadFinds ==
  /\ op.pc = "read" /\ Exists(op.id)
  /\ ReadReturns(op.id, op.errors)
  /\ UNCHANGED <<tenant, want, history, bounds>>

(* 404 clears the id.  An import reports it as an error, and a GET without *)
(* an id is not this network's: it may fail in any way.                    *)
ReadGone ==
  /\ op.pc = "read" /\ ~Exists(op.id)
  /\ ReadReturns(NoId, op.errors \/ op.kind = "import")
  /\ UNCHANGED <<tenant, want, history, bounds>>

(* The GET of the network or of the region catalogue fails.                *)
ReadFails ==
  /\ op.pc = "read"
  /\ Fault
  /\ ReadReturns(op.id, TRUE)
  /\ UNCHANGED <<tenant, want, history>>

Read == ReadFinds \/ ReadGone \/ ReadFails

-----------------------------------------------------------------------------
(* resourceNetworkDelete                                                   *)

(* Mutant: a 404 is an error, so that a retained id can never be retired.  *)
DeleteOfGoneFails ==
  /\ op.pc = "delete" /\ ~Exists(op.id)
  /\ DeleteReturns(op.id)
  /\ UNCHANGED <<tenant, want, history, bounds>>

DeleteOfGone ==
  /\ op.pc = "delete" /\ ~Exists(op.id)
  /\ DeleteReturns(NoId)
  /\ UNCHANGED <<tenant, want, history, bounds>>

(* The call fails or its inline result is not 2xx.                         *)
DeleteRefused ==
  /\ op.pc = "delete"
  /\ Fault
  /\ DeleteReturns(op.id)
  /\ UNCHANGED <<tenant, want, history>>

TearDown(n) == Exists(n) /\ SetPhase(n, "deleting")

DeleteReplyLost ==
  /\ op.pc = "delete" /\ TearDown(op.id)
  /\ Fault
  /\ DeleteReturns(op.id)
  /\ UNCHANGED <<want, history>>

DeleteAccepted ==
  /\ op.pc = "delete" /\ TearDown(op.id)
  /\ op' = [op EXCEPT !.pc = "wait"]
  /\ UNCHANGED <<state, want, history, bounds>>

WaitSeesGone ==
  /\ op.pc = "wait" /\ ~Exists(op.id)
  /\ DeleteReturns(NoId)
  /\ UNCHANGED <<tenant, want, history, bounds>>

(* Mutant: a wait that gave up clears the id, as an unwaited delete did.   *)
WaitForgets ==
  /\ op.pc = "wait"
  /\ Fault
  /\ DeleteReturns(NoId)
  /\ UNCHANGED <<tenant, want, history>>

(* The budget is spent or the context has ended: the id stays.             *)
WaitGivesUp ==
  /\ op.pc = "wait"
  /\ Fault
  /\ DeleteReturns(op.id)
  /\ UNCHANGED <<tenant, want, history>>

Delete ==
  \/ DeleteOfGone \/ DeleteRefused \/ DeleteReplyLost \/ DeleteAccepted
  \/ WaitSeesGone \/ WaitGivesUp

-----------------------------------------------------------------------------
(* The tenant, and everybody else who acts on it                           *)

NameObject(n) ==
  /\ tenant[n].phase = "provisioning" /\ ~tenant[n].job.resource
  /\ tenant' = [tenant EXCEPT ![n].job = [@ EXCEPT !.resource = TRUE]]
  /\ UNCHANGED <<state, want, op, history, bounds>>

(* A provisioning ends up live, refused because the name is taken, or      *)
(* failed, in which case the network may stay or go.                       *)
SettleAs(n, code, p, named) ==
  /\ tenant[n].phase = "provisioning"
  /\ code = 409 <=> NameTaken(n)
  /\ code = 200 => p = "live"
  /\ code = 409 => p = "gone"
  /\ IF code = 500 THEN Fault ELSE UNCHANGED bounds
  /\ tenant' = [tenant EXCEPT
       ![n].phase = p,
       ![n].job = [done |-> TRUE, code |-> code,
                   resource |-> @.resource \/ named]]
  /\ UNCHANGED <<state, want, op, history>>

Settle(n) ==
  \E code \in Codes, p \in {"live", "gone"}, named \in BOOLEAN :
    SettleAs(n, code, p, named)

(* A teardown ends; a provisioning it cut short has failed.                *)
FinishTeardown(n) ==
  /\ tenant[n].phase = "deleting"
  /\ tenant' = [tenant EXCEPT
       ![n].phase = "gone",
       ![n].job = IF @.done THEN @ ELSE [@ EXCEPT !.done = TRUE, !.code = 500]]
  /\ UNCHANGED <<state, want, op, history, bounds>>

ConsoleCreates(n) ==
  /\ tenant[n].phase = "unborn" /\ ~NameTaken(n)
  /\ Edit
  /\ tenant' = [tenant EXCEPT ![n].phase = "live", ![n].owner = "other"]
  /\ UNCHANGED <<state, want, op, history>>

ConsoleDeletes(n) ==
  /\ tenant[n].phase = "live"
  /\ Edit
  /\ SetPhase(n, "deleting")
  /\ UNCHANGED <<state, want, op, history>>

Backend == \E n \in NetId : Settle(n) \/ FinishTeardown(n)

Console == \E n \in NetId : ConsoleCreates(n) \/ ConsoleDeletes(n)

Handler == Create \/ Read \/ Delete

(* Nothing to do: an operator may leave the address alone.                 *)
Rest == op = Idle /\ UNCHANGED vars

Next ==
  \/ Apply \/ Refresh \/ EditConfig \/ Crash \/ Rest
  \/ Handler
  \/ Backend \/ Console
  \/ \E n \in NetId : NameObject(n) \/ Import(n)

Spec == Init /\ [][Next]_vars

(* Every call returns, the tenant finishes what it has started, and an     *)
(* operator who has a change to apply keeps applying it, however often     *)
(* refreshes come in between.                                              *)
Fairness == WF_vars(Handler) /\ WF_vars(Backend) /\ SF_vars(Apply)

FairSpec == Spec /\ Fairness

-----------------------------------------------------------------------------
(* A network leaves the state only once the tenant no longer has it:       *)
(* neither a read that failed, nor a delete that was only accepted, nor a  *)
(* wait that gave up or was cut short makes Terraform forget one.          *)
ForgetsOnlyTheGone ==
  [][state.id # NoId /\ state'.id # state.id
       => tenant[state.id].phase = "gone"]_vars

(* Terraform's record never comes to name somebody else's network unless   *)
(* the operator imported it or was shown the adoption warning, and a       *)
(* create whose poll reported a conflict ends there: it adopts nothing,    *)
(* with or without a warning (the network a lookup would find is the one   *)
(* that won), and the network the refused operation named is never         *)
(* recorded.                                                               *)
OnlyToldNetworksAreTakenOver ==
  /\ \A n \in {state.id, op.id} \ {NoId} :
       tenant[n].owner = "other" => n \in told
  /\ op.target \in refused => op.id = NoId
  /\ state.id \notin refused

(* A create that timed out after a poll had read the network's URL leaves  *)
(* no orphan: as long as that network exists, the record names it, through *)
(* every later refresh, retry, replacement, failed delete and crash.       *)
TimedOutCreateLeavesNoOrphan ==
  \A n \in timedOut : Exists(n) => state.id = n

(* Taken out of the configuration for good, the network is eventually out  *)
(* of the state as well (and then out of the tenant, by                    *)
(* ForgetsOnlyTheGone): an id that a failed wait left behind never wedges  *)
(* the address, with or without a refresh before the retry.                *)
DestroyCompletes == <>[](~want) => <>[](state.id = NoId)

(* The adoption warning asks the operator to confirm that the network that *)
(* was "adopted into Terraform state" is the right one: applying the       *)
(* unchanged configuration again must not destroy it.                      *)
AdoptedNetworkSurvivesReapply ==
  [][op.kind = "replace" /\ op.pc = "delete" /\ op'.pc = "wait"
       => ~(tenant[op.id].owner = "other")]_vars

(* The record of the address implements Terraform's promise about it.      *)
Promise ==
  INSTANCE ManagedObject WITH
    Object <- NetId, None <- NoId,
    made <- {n \in NetId : tenant[n].phase # "unborn"},
    gone <- {n \in NetId : tenant[n].phase = "gone"},
    tracked <- state.id

KeepsThePromise == Promise!Spec
=============================================================================
