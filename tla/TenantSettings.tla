--------------------------- MODULE TenantSettings ---------------------------
(***************************************************************************)
(* One resource address of one of the kinds that manage a setting and not  *)
(* an object: a document that exists as soon as its tenant or its network  *)
(* does, and that every write replaces as a whole.  Their create adopts    *)
(* the document, and they differ in when the create records an id, in      *)
(* whether a write is waited for, in what a 404 means to a read, and in    *)
(* what a delete does: empty the document, switch it off, or make no call. *)
(*                                                                         *)
(* A call and the effect of its answer are one step; between two calls the *)
(* backend and the console may move.  Polling is what it promises          *)
(* (Justified in ApiErrors, implemented by AsyncPoll).  Documents are      *)
(* numbers here; DocumentCycle looks inside them.                          *)
(***************************************************************************)
EXTENDS ApiErrors

CONSTANTS
  MaxVal,     \* the documents a configuration asks for are 1..MaxVal
  Budget,     \* policyReReadTransientBudget
  MaxFaults,  \* bound: failed, lost, refused or interrupted calls
  MaxEdits    \* bound: edits of the configuration, the console and imports

ASSUME BoundsAssumption ==
  /\ MaxVal \in Nat \ {0} /\ Budget \in Nat
  /\ MaxFaults \in Nat /\ MaxEdits \in Nat

VARIABLES
  kind,      \* the kind of setting at the address
  tenant,    \* the setting on the tenant: [there, doc, author, next, job]
  state,     \* Terraform's record: [id, tainted, at, val]
  want,      \* the configured document, 0 when the resource is not declared
  op,        \* the operation Terraform core is running, and its handler
  landed,    \* history: what the last accepted write has put in force
  outcome,   \* history: how the last operation returned
  lost,      \* history: why the record no longer has the setting
  faults, edits

vars == <<kind, tenant, state, want, op, landed, outcome, lost, faults, edits>>

history == <<landed, outcome, lost>>
bounds == <<faults, edits>>

Policies == {"access_policy", "https_inspection_policy"}
PrivateDNS == {"enhanced_network_private_dns", "enhanced_region_private_dns"}
TenantWide == Policies \cup {"internet_access_status", "support_options"}
PerNetwork == PrivateDNS \cup {"firewall_policy", "split_tunneling"}
Kind == TenantWide \cup PerNetwork

(* Their create records the id before it writes, and these others write    *)
(* without looking first.                                                  *)
IdFirst == PrivateDNS \cup {"firewall_policy", "support_options"}
Unprobed == Policies \cup {"internet_access_status"}

Codes == {0, 200, 409, 500}

(* Document 0 is the one of a deleted policy or a setting switched off;    *)
(* next is what the change under way puts in force.                        *)
Setting ==
  [there : BOOLEAN, doc : 0..MaxVal, author : {"console", "provider"},
   next : 0..MaxVal, job : Job(Codes)]

(* at says that the record has the ids of its network, id that it has one  *)
(* of its own.                                                             *)
Record == [id : BOOLEAN, tainted : BOOLEAN, at : BOOLEAN, val : 0..MaxVal]

NoRecord == [id |-> FALSE, tainted |-> FALSE, at |-> FALSE, val |-> 0]

(* pc is the handler's next call, id whether d.Id() is set, at whether     *)
(* d.Get knows the network, val the planned document, left the re-reads    *)
(* that may still fail.                                                    *)
Operation ==
  [pc : {"idle", "probe", "look", "write", "reread", "put", "wait", "read",
         "delete", "clear", "clearing"},
   kind : {"none", "create", "update", "replace", "destroy", "plan", "import"},
   id : BOOLEAN, at : BOOLEAN, val : 0..MaxVal, left : 0..Budget]

Idle == [pc |-> "idle", kind |-> "none", id |-> FALSE, at |-> FALSE,
         val |-> 0, left |-> Budget]

Nothing == -1

TypeOK ==
  /\ kind \in Kind
  /\ tenant \in Setting
  /\ kind \in TenantWide => tenant.there
  /\ state \in Record
  /\ want \in 0..MaxVal
  /\ op \in Operation
  /\ op.pc \in {"delete", "clear", "clearing"} =>
       op.kind \in {"replace", "destroy"} /\ state.id
  /\ op.pc \in {"probe", "look", "write", "reread", "put", "wait"} =>
       op.kind \in {"create", "update"}
  /\ op.kind \in {"create", "import"} => state = NoRecord
  /\ landed \in 0..MaxVal \cup {Nothing}
  /\ outcome \in {"none", "ok", "error", "crash"}
  /\ lost \in {"none", "error", "crash", "warning", "delete"}
  /\ faults \in 0..MaxFaults /\ edits \in 0..MaxEdits

NoJob == [Running EXCEPT !.done = TRUE, !.code = 200]

Init ==
  /\ kind \in Kind
  /\ tenant \in [there : {TRUE}, doc : 0..MaxVal, author : {"console"},
                 next : {0}, job : {NoJob}]
  /\ state = NoRecord
  /\ want \in 0..MaxVal
  /\ op = Idle
  /\ landed = Nothing /\ outcome = "none" /\ lost = "none"
  /\ faults = 0 /\ edits = 0

Fault == faults < MaxFaults /\ faults' = faults + 1 /\ UNCHANGED edits
Edit == edits < MaxEdits /\ edits' = edits + 1 /\ UNCHANGED faults

-----------------------------------------------------------------------------
(* Terraform core and the SDK: what follows from a record, and what a      *)
(* handler's return makes of it.                                           *)

(* A record without its network's id differs from the configuration in an  *)
(* attribute that only a replacement changes.                              *)
Replaced(s) == s.tainted \/ ~s.at

FirstCall ==
  IF kind \in Unprobed THEN "write"
  ELSE "probe"

UpdateCall ==
  CASE kind \in Unprobed            -> "write"
    [] kind = "support_options"     -> "write"
    [] kind = "firewall_policy"     -> "look"
    [] OTHER                        -> "put"

Planned(s) ==
  CASE ~s.id /\ want # 0 ->
         [Idle EXCEPT !.pc = FirstCall, !.kind = "create", !.at = TRUE,
                      !.val = want]
    [] s.id /\ want = 0 ->
         [Idle EXCEPT !.pc = "delete", !.kind = "destroy", !.id = TRUE,
                      !.at = s.at]
    [] s.id /\ want # 0 /\ Replaced(s) ->
         [Idle EXCEPT !.pc = "delete", !.kind = "replace", !.id = TRUE,
                      !.at = s.at]
    [] s.id /\ want # 0 /\ ~Replaced(s) /\ s.val # want ->
         [Idle EXCEPT !.pc = UpdateCall, !.kind = "update", !.id = TRUE,
                      !.at = TRUE, !.val = want]
    [] OTHER -> Idle

(* What is in force, or is about to be, is the provider's work.            *)
Ours(t) ==
  \/ t.author = "provider" /\ t.doc # 0
  \/ ~t.job.done /\ t.next # 0

(* Why a setting of ours is not in the record s; the first cause stays.    *)
LostTo(s, cause) ==
  CASE s.id \/ ~Ours(tenant') -> "none"
    [] ~s.id /\ Ours(tenant') /\ lost = "none" -> cause
    [] OTHER -> lost

(* An Error of a create taints what it records: the id, and no attribute   *)
(* (d.Partial); after an Error of anything else the record is the prior    *)
(* one.                                                                    *)
Errs ==
  /\ state' = IF op.kind = "create" /\ op.id
              THEN [id |-> TRUE, tainted |-> TRUE, at |-> kind \in TenantWide,
                    val |-> 0]
              ELSE state
  /\ op' = Idle
  /\ outcome' = "error"
  /\ lost' = LostTo(state', "error")

(* A read returns with the record s.  A create that set no id has created  *)
(* nothing as far as the SDK is concerned.                                 *)
Records(s) ==
  /\ state' = s
  /\ op' = IF op.kind = "plan" THEN Planned(s) ELSE Idle
  /\ outcome' = "ok"
  /\ lost' = LostTo(s, lost)

(* A delete returns with d.SetId("").                                      *)
Clears(cause) ==
  /\ state' = NoRecord
  /\ op' = IF op.kind = "replace" THEN Planned(NoRecord) ELSE Idle
  /\ outcome' = "ok"
  /\ lost' = LostTo(NoRecord, cause)

(* terraform apply refreshes the record and plans from it.                 *)
Apply ==
  /\ op = Idle
  /\ op' = IF ~state.id THEN Planned(state)
           ELSE [Idle EXCEPT !.pc = "read", !.kind = "plan", !.id = TRUE,
                             !.at = state.at]
  /\ op' # op
  /\ UNCHANGED <<kind, tenant, state, want, history, bounds>>

(* terraform apply -refresh=false, or of a saved plan.                     *)
ApplyStale ==
  /\ op = Idle /\ state.id /\ Planned(state) # Idle
  /\ op' = Planned(state)
  /\ UNCHANGED <<kind, tenant, state, want, history, bounds>>

(* terraform untaint, which the guidance of a failed re-read asks for.     *)
Untaint ==
  /\ op = Idle /\ state.tainted
  /\ state' = [state EXCEPT !.tainted = FALSE]
  /\ UNCHANGED <<kind, tenant, want, op, history, bounds>>

EditConfig ==
  /\ op = Idle
  /\ Edit
  /\ want' \in 0..MaxVal \ {want}
  /\ UNCHANGED <<kind, tenant, state, op, history>>

(* The process dies: core keeps the record of before the operation.        *)
Crash ==
  /\ op # Idle
  /\ Fault
  /\ UNCHANGED <<kind, tenant, state, want, landed>>
  /\ op' = Idle
  /\ outcome' = "crash"
  /\ lost' = LostTo(state, "crash")

Import ==
  /\ op = Idle /\ ~state.id
  /\ Edit
  /\ op' = [Idle EXCEPT !.pc = "read", !.kind = "import", !.id = TRUE,
                       !.at = TRUE]
  /\ UNCHANGED <<kind, tenant, state, want, history>>

-----------------------------------------------------------------------------
(* A call reaches the setting if its path has the network's id, which      *)
(* private DNS also finds in the id of the resource.  A path with an empty *)
(* segment is another route and answers no 404.                            *)

(* Mutant: the address is taken from the attributes alone.                 *)
AttributesOnly == op.at

Addressed == op.at \/ kind \in PrivateDNS

Reachable == tenant.there /\ Addressed

(* A call that is not refused for its address fails for some other reason. *)
CallFails(pc) ==
  /\ op.pc = pc
  /\ IF Reachable THEN Fault ELSE UNCHANGED bounds
  /\ UNCHANGED <<kind, tenant, want, landed>>
  /\ Errs

CallPasses(pc) ==
  /\ op.pc = pc /\ Reachable
  /\ UNCHANGED <<kind, tenant, state, want, history, bounds>>

(* Mutant: the create leaves the id to whatever comes after the write.     *)
ProbeKeepsNoId(id) ==
  CallPasses("probe") /\ op' = [op EXCEPT !.pc = UpdateCall]

(* The create looks whether there is something to adopt.                   *)
ProbeThen(id) ==
  CallPasses("probe") /\ op' = [op EXCEPT !.pc = UpdateCall, !.id = id]

Probe(id) == ProbeThen(id) \/ CallFails("probe")

-----------------------------------------------------------------------------
(* Writes that have taken effect when they return                          *)

WriteLands(val) ==
  /\ tenant' = [tenant EXCEPT !.doc = val, !.author = "provider"]
  /\ landed' = val
  /\ UNCHANGED <<kind, want>>

WriteAccepted(then) ==
  /\ op.pc = "write"
  /\ WriteLands(op.val)
  /\ op' = [op EXCEPT !.pc = then, !.id = TRUE]
  /\ UNCHANGED <<state, outcome, lost, bounds>>

WriteReplyLost ==
  /\ op.pc = "write"
  /\ Fault
  /\ WriteLands(op.val)
  /\ Errs

Write(then) == WriteAccepted(then) \/ WriteReplyLost \/ CallFails("write")

Shown ==
  IF op.id
  THEN [id |-> TRUE, tainted |-> op.kind = "plan" /\ state.tainted,
        at |-> TRUE, val |-> tenant.doc]
  ELSE NoRecord

ReadFrom(pc) ==
  /\ op.pc = pc /\ Reachable
  /\ UNCHANGED <<kind, tenant, want, landed, bounds>>
  /\ Records(Shown)

(* Mutant: the budget is checked one failure too late.                     *)
RetriedOnceMore ==
  /\ op.pc = "reread" /\ op.left >= 0
  /\ Fault
  /\ op' = [op EXCEPT !.left = @ - 1]
  /\ UNCHANGED <<kind, tenant, state, want, history>>

(* Only transient failures are retried, and only so often; the other ones, *)
(* and a context that ends, are not.                                       *)
RereadRetried ==
  /\ op.pc = "reread" /\ op.left > 0
  /\ Fault
  /\ op' = [op EXCEPT !.left = @ - 1]
  /\ UNCHANGED <<kind, tenant, state, want, history>>

rereadAfterWrite == ReadFrom("reread") \/ RereadRetried \/ CallFails("reread")

-----------------------------------------------------------------------------
(* Writes that start an operation, and the wait for it                     *)

PutTaken(pc, val) ==
  /\ op.pc = pc /\ Reachable /\ tenant.job.done
  /\ tenant' = [tenant EXCEPT !.next = val, !.job = Running]
  /\ landed' = Nothing
  /\ UNCHANGED <<kind, want>>

PutAccepted(pc, val, then) ==
  /\ PutTaken(pc, val)
  /\ op' = [op EXCEPT !.pc = then]
  /\ UNCHANGED <<state, outcome, lost, bounds>>

(* Accepted without a status to ask for, or with a reply that is lost.     *)
PutUnfollowed(pc, val) == Fault /\ PutTaken(pc, val) /\ Errs

(* The backend works on one change at a time.                              *)
PutRefused(pc) ==
  /\ op.pc = pc
  /\ IF Reachable /\ tenant.job.done THEN Fault ELSE UNCHANGED bounds
  /\ UNCHANGED <<kind, tenant, want, landed>>
  /\ Errs

Failures ==
  {Plain("broken"), Plain("deadline"), Plain("cancelled"),
   asyncFailedError(409), asyncFailedError(500)}

WaitEnds(pc, v) ==
  /\ op.pc = pc
  /\ \E c \in {"live", "deadline", "cancelled"} : Justified(v, tenant.job, c)
  /\ IF v.kind \in {"ok", "failed"} THEN UNCHANGED bounds ELSE Fault
  /\ UNCHANGED <<kind, tenant, want, landed>>

(* Mutant: the wait is over when it ends, however it ends.                 *)
AnyVerdict(pc) == \E v \in Failures \cup {Plain("ok")} : WaitEnds(pc, v)

WaitOk(pc) == WaitEnds(pc, Plain("ok"))

WaitFails(pc) == (\E v \in Failures : WaitEnds(pc, v)) /\ Errs

ThenRead == op' = [op EXCEPT !.pc = "read", !.id = TRUE]

PutAndWait ==
  \/ PutAccepted("put", op.val, "wait")
  \/ PutUnfollowed("put", op.val)
  \/ PutRefused("put")
  \/ WaitOk("wait") /\ ThenRead /\ UNCHANGED <<state, outcome, lost>>
  \/ WaitFails("wait")

-----------------------------------------------------------------------------
(* Reads.  A setting of the tenant is always there, so a 404 is an error;  *)
(* one of a network goes with it.                                          *)

ReadStrict == ReadFrom("read") \/ CallFails("read")

ReadGone ==
  /\ op.pc = "read" /\ Addressed /\ ~tenant.there
  /\ UNCHANGED <<kind, tenant, want, landed, bounds>>
  /\ Records(NoRecord)

ReadTolerant ==
  \/ ReadFrom("read") \/ ReadGone
  \/ ~(Addressed /\ ~tenant.there) /\ CallFails("read")

-----------------------------------------------------------------------------
(* Deletes                                                                 *)

DeletePolicy ==
  /\ op.pc = "delete"
  /\ WriteLands(0)
  /\ \/ Clears("delete") /\ UNCHANGED bounds
     \/ Fault /\ Errs

(* No call: the setting stays as it is, and a warning says so or not.      *)
LeavesInForce(cause) ==
  /\ op.pc = "delete"
  /\ UNCHANGED <<kind, tenant, want, landed, bounds>>
  /\ Clears(cause)

(* The write of a delete, and the wait for it; one that is accepted with   *)
(* no status to ask for is an error, unless it passes for done.            *)
ClearAndWait(pc) ==
  \/ PutAccepted(pc, 0, "clearing")
  \/ PutUnfollowed(pc, 0)
  \/ PutRefused(pc)
  \/ WaitOk("clearing") /\ Clears("delete")
  \/ WaitFails("clearing")

-----------------------------------------------------------------------------
(* The handlers                                                            *)

resourceAccessPolicyWrite ==
  kind = "access_policy" /\ (Write("reread") \/ rereadAfterWrite)
resourceAccessPolicyRead == kind = "access_policy" /\ ReadStrict
resourceAccessPolicyDelete ==
  kind = "access_policy" /\ (DeletePolicy \/ CallFails("delete"))

resourceHttpsInspectionPolicyWrite ==
  kind = "https_inspection_policy" /\ (Write("reread") \/ rereadAfterWrite)
resourceHttpsInspectionPolicyRead ==
  kind = "https_inspection_policy" /\ ReadStrict
resourceHttpsInspectionPolicyDelete ==
  kind = "https_inspection_policy" /\ (DeletePolicy \/ CallFails("delete"))

resourceInternetAccessStatusWrite ==
  kind = "internet_access_status" /\ (Write("reread") \/ rereadAfterWrite)
resourceInternetAccessStatusRead ==
  kind = "internet_access_status" /\ ReadStrict
resourceInternetAccessStatusDelete ==
  kind = "internet_access_status" /\ LeavesInForce("warning")

resourceSupportOptionsCreate == kind = "support_options" /\ Probe(TRUE)
resourceSupportOptionsUpdate == kind = "support_options" /\ Write("read")
resourceSupportOptionsRead == kind = "support_options" /\ ReadStrict
resourceSupportOptionsDelete ==
  kind = "support_options" /\ LeavesInForce("delete")

(* The update reads the policy for its id.  A write with no status to ask  *)
(* for passes for done.                                                    *)
resourceFirewallPolicyCreate == kind = "firewall_policy" /\ Probe(TRUE)
resourceFirewallPolicyUpdate ==
  /\ kind = "firewall_policy"
  /\ \/ CallPasses("look") /\ op' = [op EXCEPT !.pc = "put"]
     \/ CallFails("look")
     \/ PutAndWait
     \/ Fault /\ PutTaken("put", op.val) /\ ThenRead
           /\ UNCHANGED <<state, outcome, lost>>
resourceFirewallPolicyRead == kind = "firewall_policy" /\ ReadStrict

(* Mutant: whether there are rules is not looked at.                       *)
ForgottenUnread ==
  /\ op.pc = "delete" /\ Addressed
  /\ UNCHANGED <<kind, tenant, want, landed, bounds>>
  /\ Clears("delete")

(* A network that is gone took its rules with it, and no rules need no     *)
(* write.                                                                  *)
NothingToClear ==
  /\ op.pc = "delete" /\ Addressed /\ (tenant.there => tenant.doc = 0)
  /\ UNCHANGED <<kind, tenant, want, landed, bounds>>
  /\ Clears("delete")

SomethingToClear ==
  /\ CallPasses("delete") /\ tenant.doc # 0
  /\ op' = [op EXCEPT !.pc = "clear"]

resourceFirewallPolicyDelete ==
  /\ kind = "firewall_policy"
  /\ \/ NothingToClear \/ SomethingToClear
     \/ (Addressed => tenant.there) /\ CallFails("delete")
     \/ ClearAndWait("clear")
     \/ Fault /\ PutTaken("clear", 0) /\ Clears("delete")

resourceSplitTunnelingCreate == kind = "split_tunneling" /\ Probe(FALSE)
writeSplitTunneling == kind = "split_tunneling" /\ PutAndWait
resourceSplitTunnelingRead == kind = "split_tunneling" /\ ReadTolerant
resourceSplitTunnelingDelete ==
  kind = "split_tunneling" /\ LeavesInForce("warning")

resourceEnhancedNetworkPrivateDNSCreate ==
  kind = "enhanced_network_private_dns" /\ Probe(TRUE)
resourceEnhancedNetworkPrivateDNSUpdate ==
  kind = "enhanced_network_private_dns" /\ PutAndWait
resourceEnhancedNetworkPrivateDNSRead ==
  kind = "enhanced_network_private_dns" /\ ReadTolerant
resourceEnhancedNetworkPrivateDNSDelete ==
  kind = "enhanced_network_private_dns" /\ ClearAndWait("delete")

resourceEnhancedRegionPrivateDNSCreate ==
  kind = "enhanced_region_private_dns" /\ Probe(TRUE)
resourceEnhancedRegionPrivateDNSUpdate ==
  kind = "enhanced_region_private_dns" /\ PutAndWait
resourceEnhancedRegionPrivateDNSRead ==
  kind = "enhanced_region_private_dns" /\ ReadTolerant
resourceEnhancedRegionPrivateDNSDelete ==
  kind = "enhanced_region_private_dns" /\ ClearAndWait("delete")

PolicyHandler ==
  \/ resourceAccessPolicyWrite \/ resourceAccessPolicyRead
  \/ resourceAccessPolicyDelete \/ resourceHttpsInspectionPolicyWrite
  \/ resourceHttpsInspectionPolicyRead \/ resourceHttpsInspectionPolicyDelete

TenantHandler ==
  \/ resourceInternetAccessStatusWrite \/ resourceInternetAccessStatusRead
  \/ resourceInternetAccessStatusDelete \/ resourceSupportOptionsCreate
  \/ resourceSupportOptionsUpdate \/ resourceSupportOptionsRead
  \/ resourceSupportOptionsDelete

NetworkHandler ==
  \/ resourceFirewallPolicyCreate \/ resourceFirewallPolicyUpdate
  \/ resourceFirewallPolicyRead \/ resourceFirewallPolicyDelete
  \/ resourceSplitTunnelingCreate \/ writeSplitTunneling
  \/ resourceSplitTunnelingRead \/ resourceSplitTunnelingDelete

PrivateDNSHandler ==
  \/ resourceEnhancedNetworkPrivateDNSCreate
  \/ resourceEnhancedNetworkPrivateDNSUpdate
  \/ resourceEnhancedNetworkPrivateDNSRead
  \/ resourceEnhancedNetworkPrivateDNSDelete
  \/ resourceEnhancedRegionPrivateDNSCreate
  \/ resourceEnhancedRegionPrivateDNSUpdate
  \/ resourceEnhancedRegionPrivateDNSRead
  \/ resourceEnhancedRegionPrivateDNSDelete

Handler ==
  PolicyHandler \/ TenantHandler \/ NetworkHandler \/ PrivateDNSHandler

-----------------------------------------------------------------------------
(* The backend, and everybody else who acts on the tenant                  *)

Ended(j, code) ==
  IF j.done THEN j ELSE [j EXCEPT !.done = TRUE, !.code = code]

TakesEffect(code) ==
  /\ tenant' = [tenant EXCEPT
       !.doc = tenant.next, !.author = "provider", !.job = Ended(@, code)]
  /\ landed' = tenant.next
  /\ UNCHANGED bounds

(* A change that failed may have taken effect all the same, and its        *)
(* completion may come without a result: its code is 0 then.               *)
FailsWith(code) ==
  /\ Fault
  /\ \/ /\ tenant' = [tenant EXCEPT !.job = Ended(@, code)]
        /\ UNCHANGED landed
     \/ /\ tenant' = [tenant EXCEPT
             !.doc = tenant.next, !.author = "provider",
             !.job = Ended(@, code)]
        /\ landed' = tenant.next

Backend ==
  /\ ~tenant.job.done
  /\ \/ \E code \in {0, 200} : TakesEffect(code)
     \/ \E code \in Codes \ {200} : FailsWith(code)
  /\ UNCHANGED <<kind, state, want, op, outcome, lost>>

ConsoleWrites ==
  /\ tenant.there
  /\ Edit
  /\ \E val \in 0..MaxVal \ {tenant.doc} :
       tenant' = [tenant EXCEPT !.doc = val, !.author = "console"]
  /\ UNCHANGED <<kind, state, want, op, history>>

(* The network goes, with its settings and whatever was under way.         *)
ConsoleRemoves ==
  /\ kind \in PerNetwork /\ tenant.there
  /\ Edit
  /\ tenant' = [tenant EXCEPT
       !.there = FALSE, !.doc = 0, !.author = "console",
       !.job = Ended(@, 500)]
  /\ UNCHANGED <<kind, state, want, op, history>>

Console == ConsoleWrites \/ ConsoleRemoves

(* Nothing to do: an operator may leave the address alone.                 *)
Rest == op = Idle /\ UNCHANGED vars

Next ==
  \/ Apply \/ ApplyStale \/ Untaint \/ EditConfig \/ Crash \/ Import \/ Rest
  \/ Handler \/ Backend \/ Console

Spec == Init /\ [][Next]_vars

(* Every call returns, the backend finishes what it has started, and an    *)
(* operator who has something to apply keeps applying it.                  *)
Fairness == WF_vars(Handler) /\ WF_vars(Backend) /\ SF_vars(Apply)

FairSpec == Spec /\ Fairness

-----------------------------------------------------------------------------
(* A change that failed, had no effect, and was completed without a        *)
(* result: isSuccessStatus takes it for done, as the comments on the two   *)
(* waits for private DNS and split tunneling warn.                         *)
FailedUnsaid == landed = Nothing /\ tenant.job.done /\ tenant.job.code = 0

(* A create or an update that returns without an error has put the         *)
(* configured document in force: not one that was merely accepted, failed  *)
(* with a code, or was left by an earlier operation.  Two cases are taken  *)
(* for written that may not be: a failure whose completion has no result,  *)
(* and a firewall policy accepted without a status to ask for.             *)
SuccessIsInForce ==
  [][op.pc \in {"read", "reread"} /\ op.kind \in {"create", "update"}
       /\ op' = Idle /\ outcome' = "ok"
     => \/ landed = op.val
        \/ FailedUnsaid
        \/ kind = "firewall_policy" /\ landed = Nothing]_vars

(* A setting leaves the state only once it is off: its network is gone, it *)
(* was found empty, or the provider's own write of the empty document has  *)
(* taken effect.  Three kinds make no call when they are deleted, a        *)
(* failure without a result passes for cleared, and so does a firewall     *)
(* policy without a status to ask for.                                     *)
ForgetsOnlyWhatIsOff ==
  [][state.id /\ ~state'.id
     => \/ ~tenant.there \/ tenant'.doc = 0 \/ landed' = 0
        \/ kind \in {"internet_access_status", "support_options",
                     "split_tunneling"} /\ op.pc = "delete"
        \/ FailedUnsaid
        \/ kind = "firewall_policy" /\ landed' = Nothing]_vars

(* What the provider has put in force, or is about to, is in the record,   *)
(* or the operator knows why not: an interrupted process, a warning, and,  *)
(* for the kinds that write before they record an id, an error.  The kinds *)
(* that record the id first lose nothing to an error.                      *)
NoSilentLoss ==
  op = Idle /\ ~state.id /\ Ours(tenant) =>
    lost \in CASE kind \in IdFirst   -> {"crash", "delete"}
               [] kind \notin IdFirst -> {"crash", "warning", "error"}

(* What cannot be refreshed any more: a record that an error has left      *)
(* without the id of the network, and a firewall policy without a network. *)
Stranded ==
  \/ state.id /\ ~state.at /\ kind \in {"firewall_policy", "split_tunneling"}
  \/ ~tenant.there

InStep ==
  IF want = 0 THEN ~state.id
  ELSE state.id /\ ~state.tainted /\ state.val = want /\ tenant.doc = want

(* Whatever was refused, lost or cut short before, applying the same       *)
(* configuration again eventually puts it in force and in the record.      *)
ApplyConverges == <>[](InStep \/ Stranded)

(* Re-applying sends the configured document and nothing else, in          *)
(* particular after an apply that failed.                                  *)
ReapplySendsTheConfiguration ==
  [][want # 0 /\ kind \in PrivateDNS /\ tenant.job.done /\ ~tenant'.job.done
     => tenant'.next = want]_vars
=============================================================================
