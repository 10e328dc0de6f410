---------------------------- MODULE AsyncResource ----------------------------
(***************************************************************************)
(* One resource address of one of the kinds whose calls are asynchronous:  *)
(* gateways, tunnels, applications, enhanced networks and their regions.   *)
(* Their handlers are put together from the same few calls, and differ in  *)
(* how a create learns the id, what a 404 means to a read and to a delete, *)
(* and whether an update or a delete is waited for.  Each handler below is *)
(* the disjunction of the steps its code is made of.                       *)
(*                                                                         *)
(* A call and the effect of its answer are one step; between two calls the *)
(* tenant and the console may move.  Polling is what it promises           *)
(* (Justified in ApiErrors, implemented by AsyncPoll).                     *)
(***************************************************************************)
EXTENDS ApiErrors

CONSTANTS
  Id,         \* the ids the tenant may give to objects
  NoId,       \* the empty id
  MaxVal,     \* the values an attribute is configured to are 1..MaxVal
  MaxFaults,  \* bound: failed, lost, refused or interrupted calls
  MaxEdits    \* bound: edits of the configuration, the console and imports

ASSUME NoIdAssumption == NoId \notin Id
ASSUME BoundsAssumption ==
  MaxVal \in Nat \ {0} /\ MaxFaults \in Nat /\ MaxEdits \in Nat

VARIABLES
  type,       \* the kind of resource at the address
  unread,     \* whether its value is of an attribute that no read returns
  tenant,     \* Id -> [phase, owner, val, next, job], the objects
  state,      \* Terraform's record: [id, tainted, val]
  want,       \* the configured value, 0 when the resource is not declared
  op,         \* the operation Terraform core is running, and its handler
  told,       \* history: objects the operator imported or was warned about
  reported,   \* history: objects an error, a warning or a crash left behind
  faults, edits

vars == <<type, unread, tenant, state, want, op, told, reported, faults, edits>>

history == <<told, reported>>
bounds == <<faults, edits>>

ResourceType ==
  {"gateway", "wireguard", "openvpn", "ipsec_single", "ipsec_redundant",
   "application", "enhanced_static_tunnel", "enhanced_dynamic_tunnel",
   "enhanced_network", "enhanced_region"}

(* Attributes of these only change by replacement.  A name belongs to one  *)
(* object, except where there are no names, and among applications.        *)
ForceNew == {"gateway", "application"}
Nameless == {"gateway", "enhanced_region"}
Unique == ResourceType \ (Nameless \cup {"application"})

(* Passphrases, a description, endpoints, the idle flag of a gateway: the  *)
(* attributes of these that the record keeps as they were planned.  The    *)
(* one attribute of an OpenVPN tunnel that may change is of this sort.     *)
Keeping ==
  {"gateway", "openvpn", "ipsec_single", "ipsec_redundant",
   "enhanced_static_tunnel", "enhanced_dynamic_tunnel"}

Readability ==
  /\ unread \in BOOLEAN
  /\ unread => type \in Keeping
  /\ type = "openvpn" => unread

Codes == {200, 409, 500}
Phase == {"unborn", "provisioning", "live", "deleting", "gone"}

(* An object of owner "pair" is half of an HA pair, made as a pair by      *)
(* somebody else; next is the value of an update under way.                *)
Object ==
  [phase : Phase, owner : {"none", "terraform", "other", "pair"},
   val : Int, next : Int, job : Job(Codes)]

Unborn == [phase |-> "unborn", owner |-> "none", val |-> 0, next |-> 0,
           job |-> Running]

(* pc is the handler's next call, id is d.Id(), target the object the POST *)
(* started, val the planned value.                                         *)
Operation ==
  [pc : {"idle", "post", "poll", "find", "adopt", "read", "put", "await",
         "delete", "confirmed", "wait"},
   kind : {"none", "create", "update", "replace", "destroy", "plan", "import"},
   id : Id \cup {NoId}, target : Id \cup {NoId}, val : 0..MaxVal]

Idle == [pc |-> "idle", kind |-> "none", id |-> NoId, target |-> NoId,
         val |-> 0]

NoRecord == [id |-> NoId, tainted |-> FALSE, val |-> 0]

TypeOK ==
  /\ type \in ResourceType /\ Readability
  /\ tenant \in [Id -> Object]
  /\ state \in [id : Id \cup {NoId}, tainted : BOOLEAN, val : Int]
  /\ want \in 0..MaxVal
  /\ op \in Operation
  /\ op.pc = "poll" => op.target \in Id
  /\ op.pc \in {"find", "adopt"} => op.target \in Id
  /\ op.pc \in {"put", "await", "delete", "confirmed", "wait"} =>
       op.id \in Id /\ op.id = state.id
  /\ told \subseteq Id /\ reported \subseteq Id
  /\ faults \in 0..MaxFaults /\ edits \in 0..MaxEdits

Init ==
  /\ type \in ResourceType
  /\ unread \in BOOLEAN /\ Readability
  /\ tenant = [n \in Id |-> Unborn]
  /\ state = NoRecord
  /\ want \in 0..MaxVal
  /\ op = Idle
  /\ told = {} /\ reported = {}
  /\ faults = 0 /\ edits = 0

Fault == faults < MaxFaults /\ faults' = faults + 1 /\ UNCHANGED edits
Edit == edits < MaxEdits /\ edits' = edits + 1 /\ UNCHANGED faults

Exists(n) ==
  n \in Id /\ tenant[n].phase \in {"provisioning", "live", "deleting"}

(* What a lookup by name finds: an object has its name once it is up.      *)
Named(n) == tenant[n].phase \in {"live", "deleting"}

NameTaken(n) == type \in Unique /\ \E m \in Id \ {n} : Named(m)

(* The create of n has ended with an answer that does not name n.          *)
Unnamed(n) ==
  /\ tenant[n].phase \notin {"unborn", "provisioning"}
  /\ ~tenant[n].job.resource

-----------------------------------------------------------------------------
(* Terraform core and the SDK: what follows from a record, and what a      *)
(* handler's return makes of it.                                           *)

(* An empty value of the idle flag is no difference, so that an imported   *)
(* gateway is not replaced.                                                *)
Differs(s) == s.val # want /\ ~(type = "gateway" /\ s.val = 0)

Replaced(s) == s.tainted \/ (Differs(s) /\ type \in ForceNew)

Planned(s) ==
  CASE s.id = NoId /\ want # 0 ->
         [Idle EXCEPT !.pc = "post", !.kind = "create", !.val = want]
    [] s.id # NoId /\ want = 0 ->
         [Idle EXCEPT !.pc = "delete", !.kind = "destroy", !.id = s.id]
    [] s.id # NoId /\ want # 0 /\ Replaced(s) ->
         [Idle EXCEPT !.pc = "delete", !.kind = "replace", !.id = s.id]
    [] s.id # NoId /\ want # 0 /\ ~Replaced(s) /\ Differs(s) ->
         [Idle EXCEPT !.pc = "put", !.kind = "update", !.id = s.id,
                      !.val = want]
    [] OTHER -> Idle

(* An Error of a create taints what it records, with the id only; after an *)
(* Error of an update, a refresh or a delete the record is the prior one   *)
(* (d.Partial).                                                            *)
CreateFailed ==
  /\ state' = NoRecord
  /\ op' = Idle
  /\ reported' = reported \cup ({op.target} \ {NoId})

UpdateFailed == UNCHANGED state /\ op' = Idle

DeleteReturns(id) ==
  /\ state' = IF id = NoId THEN NoRecord ELSE state
  /\ op' = IF id = NoId /\ op.kind = "replace" THEN Planned(NoRecord) ELSE Idle

ReadSucceeds(s) ==
  /\ state' = IF op.kind = "import" /\ s = NoRecord THEN state ELSE s
  /\ op' = IF op.kind = "plan" THEN Planned(s) ELSE Idle
  /\ UNCHANGED reported

ReadErrs ==
  /\ state' = IF op.kind = "create"
              THEN [id |-> op.id, tainted |-> op.id # NoId, val |-> 0]
              ELSE state
  /\ op' = Idle
  /\ reported' = IF op.kind = "create" /\ op.id = NoId
                 THEN reported \cup {op.target} ELSE reported

(* terraform apply refreshes the record and plans from it.                 *)
Apply ==
  /\ op = Idle
  /\ op' = IF state.id = NoId THEN Planned(state)
           ELSE [Idle EXCEPT !.pc = "read", !.kind = "plan", !.id = state.id]
  /\ op' # op
  /\ UNCHANGED <<type, unread, tenant, state, want, history, bounds>>

(* terraform apply -refresh=false, or of a saved plan.                     *)
ApplyStale ==
  /\ op = Idle /\ state.id # NoId /\ Planned(state) # Idle
  /\ op' = Planned(state)
  /\ UNCHANGED <<type, unread, tenant, state, want, history, bounds>>

Import(n) ==
  /\ op = Idle /\ state.id = NoId /\ tenant[n].phase # "unborn"
  /\ Edit
  /\ op' = [Idle EXCEPT !.pc = "read", !.kind = "import", !.id = n]
  /\ told' = told \cup {n}
  /\ UNCHANGED <<type, unread, tenant, state, want, reported>>

EditConfig ==
  /\ op = Idle
  /\ Edit
  /\ want' \in 0..MaxVal \ {want}
  /\ UNCHANGED <<type, unread, tenant, state, op, history>>

(* The process dies: core keeps the record of before the operation.        *)
Crash ==
  /\ op # Idle
  /\ Fault
  /\ op' = Idle
  /\ reported' = reported \cup ({op.target} \ {NoId})
  /\ UNCHANGED <<type, unread, tenant, state, want, told>>

-----------------------------------------------------------------------------
(* The steps of a create                                                   *)

Begin(n) ==
  /\ op.pc = "post" /\ tenant[n].phase = "unborn"
  /\ tenant' = [tenant EXCEPT
       ![n].phase = "provisioning", ![n].owner = "terraform",
       ![n].val = op.val, ![n].next = op.val]
  /\ UNCHANGED <<type, unread, want, told>>

(* Mutant: a create that waits for an operation it does not remember.      *)
AcceptedUntracked ==
  \E n \in Id :
    /\ Begin(n)
    /\ op' = [op EXCEPT !.pc = "poll"]
    /\ UNCHANGED <<state, reported, bounds>>

PostAccepted ==
  \E n \in Id :
    /\ Begin(n)
    /\ op' = [op EXCEPT !.pc = "poll", !.target = n]
    /\ UNCHANGED <<state, reported, bounds>>

PostReplyLost ==
  \E n \in Id :
    /\ Begin(n)
    /\ Fault
    /\ state' = NoRecord /\ op' = Idle
    /\ reported' = reported \cup {n}

(* A tenant that is out of ids (a bound) always refuses.                   *)
PostRefused ==
  /\ op.pc = "post"
  /\ IF \E n \in Id : tenant[n].phase = "unborn"
     THEN Fault ELSE UNCHANGED bounds
  /\ CreateFailed
  /\ UNCHANGED <<type, unread, tenant, want, told>>

Post == PostAccepted \/ PostReplyLost \/ PostRefused

(* The wait for the operation on n ends with a verdict that the operation  *)
(* or the context justifies; one it is not to blame for is a fault.        *)
PollEnds(n, v) ==
  /\ \E c \in {"live", "deadline", "cancelled"} : Justified(v, tenant[n].job, c)
  /\ IF v.kind \in {"ok", "failed"} THEN UNCHANGED bounds ELSE Fault
  /\ UNCHANGED <<type, unread, tenant, want>>

Failures ==
  {Plain("broken"), Plain("deadline"), Plain("cancelled"),
   asyncFailedError(409), asyncFailedError(500)}

CreateNotDone ==
  /\ op.pc = "poll"
  /\ \E v \in Failures : PollEnds(op.target, v)
  /\ CreateFailed
  /\ UNCHANGED told

CreateDone ==
  /\ op.pc = "poll"
  /\ PollEnds(op.target, Plain("ok"))
  /\ UNCHANGED <<state, told>>

(* The completion names the object, or it does not.                        *)
NamesItsObject == tenant[op.target].job.resource

(* Mutant: the id is looked up in the tenant, not taken from the answer.    *)
IdFromLookup ==
  /\ CreateDone /\ NamesItsObject
  /\ \E n \in Id :
       Named(n) /\ op' = [op EXCEPT !.pc = "read", !.id = n]
  /\ UNCHANGED reported

IdFromResource ==
  /\ CreateDone /\ NamesItsObject
  /\ op' = [op EXCEPT !.pc = "read", !.id = op.target]
  /\ UNCHANGED reported

(* Mutant: the create returns with neither an id nor an error.             *)
NoResourceIsIgnored ==
  /\ op.pc = "poll" /\ ~NamesItsObject
  /\ PollEnds(op.target, Plain("ok"))
  /\ state' = NoRecord /\ op' = Idle
  /\ UNCHANGED <<told, reported>>

NoResourceIsAnError ==
  /\ op.pc = "poll" /\ ~NamesItsObject
  /\ PollEnds(op.target, Plain("ok"))
  /\ CreateFailed
  /\ UNCHANGED told

(* d.SetId("") and on to the read.                                         *)
NoResourceIsRead ==
  /\ CreateDone /\ ~NamesItsObject
  /\ op' = [op EXCEPT !.pc = "read", !.id = NoId]
  /\ UNCHANGED reported

ThenFind == CreateDone /\ op' = [op EXCEPT !.pc = "find"] /\ UNCHANGED reported

NoResourceFinds == op.pc = "poll" /\ ~NamesItsObject /\ ThenFind

(* The first object of the name; no error of the list is told apart from a *)
(* list without it.                                                        *)
FindByName ==
  /\ op.pc = "find"
  /\ \/ \E n \in Id :
          /\ Named(n)
          /\ op' = [op EXCEPT !.pc = "read", !.id = n]
          /\ UNCHANGED <<state, reported, bounds>>
     \/ /\ \A n \in Id : ~Named(n)
        /\ CreateFailed
        /\ UNCHANGED bounds
     \/ Fault /\ CreateFailed
  /\ UNCHANGED <<type, unread, tenant, want, told>>

(* An enhanced network whose create was not refused as a conflict is       *)
(* looked for by name, on the context the poll may have ended.             *)
ConflictFails ==
  /\ op.pc = "poll"
  /\ PollEnds(op.target, asyncFailedError(409))
  /\ CreateFailed
  /\ UNCHANGED told

ThenAdopt ==
  /\ op.pc = "poll"
  /\ \E v \in Failures :
       /\ ~isAsyncConflict(v)
       /\ PollEnds(op.target, v)
       /\ IF v.kind \in {"deadline", "cancelled"}
          THEN CreateFailed
          ELSE /\ op' = [op EXCEPT !.pc = "adopt"]
               /\ UNCHANGED <<state, reported>>
  /\ UNCHANGED told

(* The list of networks shows those under construction too.  The poll's    *)
(* error is replaced by a warning, which names the network taken over.     *)
AdoptByName ==
  /\ op.pc = "adopt"
  /\ \/ \E n \in Id :
          /\ Exists(n)
          /\ op' = [op EXCEPT !.pc = "read", !.id = n]
          /\ told' = told \cup {n}
          /\ reported' = reported \cup {op.target}
          /\ UNCHANGED <<state, bounds>>
     \/ /\ \A n \in Id : ~Exists(n)
        /\ CreateFailed
        /\ UNCHANGED <<told, bounds>>
     \/ Fault /\ CreateFailed /\ UNCHANGED told
  /\ UNCHANGED <<type, unread, tenant, want>>

-----------------------------------------------------------------------------
(* The steps of a read, which also ends creates, updates and imports       *)

(* Of what no read returns the record keeps the planned or the prior       *)
(* value; an import has none, and assumes version 1 of an OpenVPN tunnel.  *)
Shown ==
  CASE ~unread -> tenant[op.id].val
    [] unread /\ op.kind = "plan" -> state.val
    [] unread /\ op.kind = "import" -> IF type = "openvpn" THEN 1 ELSE 0
    [] unread /\ op.kind \in {"create", "update"} -> op.val

ReadFinds ==
  /\ op.pc = "read" /\ Exists(op.id)
  /\ ReadSucceeds([id |-> op.id, val |-> Shown,
                   tainted |-> op.kind = "plan" /\ state.tainted])
  /\ UNCHANGED <<type, unread, tenant, want, told>>

(* Mutant: a 404 is an error like any other.                               *)
ReadOfGoneFails ==
  /\ op.pc = "read" /\ ~Exists(op.id)
  /\ ReadErrs
  /\ UNCHANGED <<type, unread, tenant, want, told, bounds>>

ReadClears ==
  /\ op.pc = "read" /\ ~Exists(op.id)
  /\ ReadSucceeds(NoRecord)
  /\ UNCHANGED <<type, unread, tenant, want, told, bounds>>

GoneIsAnError ==
  /\ op.pc = "read" /\ ~Exists(op.id)
  /\ ReadErrs
  /\ UNCHANGED <<type, unread, tenant, want, told, bounds>>

ReadFails ==
  /\ op.pc = "read"
  /\ Fault
  /\ ReadErrs
  /\ UNCHANGED <<type, unread, tenant, want, told>>

ReadTolerant ==
  (ReadFinds /\ UNCHANGED bounds) \/ ReadClears \/ ReadFails

ReadStrict ==
  (ReadFinds /\ UNCHANGED bounds) \/ GoneIsAnError \/ ReadFails

IsHA(n) == tenant[n].owner = "pair"

(* Only a confirmed member of an HA pair is refused; a check that fails is *)
(* passed over.                                                            *)
HARefused ==
  /\ op.pc = "read" /\ Exists(op.id) /\ IsHA(op.id)
  /\ ReadErrs
  /\ UNCHANGED <<type, unread, tenant, want, told, bounds>>

ReadUnlessHA ==
  \/ /\ ReadFinds
     /\ IF IsHA(op.id) THEN Fault ELSE UNCHANGED bounds
  \/ HARefused \/ ReadClears \/ ReadFails

-----------------------------------------------------------------------------
(* The steps of an update                                                  *)

(* resource stays what the completion of the create has set it to.         *)
Restarted(j) == [j EXCEPT !.done = FALSE, !.code = 0]

(* A scale of units is sent as the difference from the recorded one.       *)
Sent ==
  IF type = "enhanced_region"
  THEN tenant[op.id].val + op.val - state.val
  ELSE op.val

PutTaken ==
  /\ op.pc = "put"
  /\ tenant[op.id].phase = "live" /\ tenant[op.id].job.done
  /\ tenant' = [tenant EXCEPT
       ![op.id].next = Sent, ![op.id].job = Restarted(@)]
  /\ UNCHANGED <<type, unread, want, history>>

PutAccepted ==
  PutTaken /\ op' = [op EXCEPT !.pc = "await"] /\ UNCHANGED <<state, bounds>>

PutUnwaited ==
  PutTaken /\ op' = [op EXCEPT !.pc = "read"] /\ UNCHANGED <<state, bounds>>

PutReplyLost == PutTaken /\ Fault /\ UpdateFailed

(* Refused when the object is not there to be changed, or for any reason.  *)
PutRefused ==
  /\ op.pc = "put"
  /\ IF tenant[op.id].phase = "live" THEN Fault ELSE UNCHANGED bounds
  /\ UpdateFailed
  /\ UNCHANGED <<type, unread, tenant, want, history>>

UpdateDone ==
  /\ op.pc = "await"
  /\ PollEnds(op.id, Plain("ok"))
  /\ op' = [op EXCEPT !.pc = "read"]
  /\ UNCHANGED <<state, history>>

(* Mutant: an update that was not seen to end is recorded as planned.      *)
UnconfirmedIsRecorded ==
  /\ op.pc = "await"
  /\ \E v \in Failures : PollEnds(op.id, v)
  /\ state' = [state EXCEPT !.val = op.val] /\ op' = Idle
  /\ UNCHANGED history

UpdateNotDone ==
  /\ op.pc = "await"
  /\ \E v \in Failures : PollEnds(op.id, v)
  /\ UpdateFailed
  /\ UNCHANGED history

Put == PutReplyLost \/ PutRefused

UpdateWaited == Put \/ PutAccepted \/ UpdateDone \/ UpdateNotDone

-----------------------------------------------------------------------------
(* The steps of a delete                                                   *)

DeleteTaken(pc) ==
  /\ op.pc = pc /\ Exists(op.id)
  /\ tenant' = [tenant EXCEPT
       ![op.id].phase = "deleting", ![op.id].job = Restarted(@)]
  /\ UNCHANGED <<type, unread, want, history>>

DeleteAccepted(pc) ==
  /\ DeleteTaken(pc)
  /\ op' = [op EXCEPT !.pc = "wait"]
  /\ UNCHANGED <<state, bounds>>

DeleteReplyLost(pc) == DeleteTaken(pc) /\ Fault /\ DeleteReturns(op.id)

DeleteRefused(pc) ==
  /\ op.pc = pc
  /\ Fault
  /\ DeleteReturns(op.id)
  /\ UNCHANGED <<type, unread, tenant, want, history>>

DeleteOfGone(pc, id) ==
  /\ op.pc = pc /\ ~Exists(op.id)
  /\ DeleteReturns(id)
  /\ UNCHANGED <<type, unread, tenant, want, history, bounds>>

DeleteCall(pc) == DeleteAccepted(pc) \/ DeleteReplyLost(pc) \/ DeleteRefused(pc)

WaitDone ==
  /\ op.pc = "wait"
  /\ PollEnds(op.id, Plain("ok"))
  /\ DeleteReturns(NoId)
  /\ UNCHANGED history

(* Mutant: a delete counts as done once it was accepted.                   *)
WaitForgets ==
  /\ op.pc = "wait"
  /\ \E v \in Failures : PollEnds(op.id, v)
  /\ DeleteReturns(NoId)
  /\ UNCHANGED history

WaitFailed ==
  /\ op.pc = "wait"
  /\ \E v \in Failures : PollEnds(op.id, v)
  /\ DeleteReturns(op.id)
  /\ UNCHANGED history

DeleteWaited(pc) ==
  DeleteCall(pc) \/ DeleteOfGone(pc, op.id) \/ WaitDone \/ WaitFailed

(* The delete of a gateway has no status: its wait reads the gateway.      *)
WaitSeesGone == DeleteOfGone("wait", NoId)

(* It gives up for sure on a gateway whose teardown has failed.            *)
WaitGivesUp ==
  /\ op.pc = "wait"
  /\ IF tenant[op.id].phase = "live" THEN UNCHANGED bounds ELSE Fault
  /\ DeleteReturns(op.id)
  /\ UNCHANGED <<type, unread, tenant, want, history>>

(* The network lists the tunnel and says that it is no member of a pair.   *)
ConfirmedNotHA ==
  /\ op.pc = "delete" /\ Exists(op.id) /\ ~IsHA(op.id)
  /\ op' = [op EXCEPT !.pc = "confirmed"]
  /\ UNCHANGED <<type, unread, tenant, state, want, history, bounds>>

(* Mutant: a check that fails is passed over, as in the read.              *)
FailedCheckConfirms ==
  /\ op.pc = "delete"
  /\ Fault
  /\ op' = [op EXCEPT !.pc = "confirmed"]
  /\ UNCHANGED <<type, unread, tenant, state, want, history>>

NotConfirmed ==
  /\ op.pc = "delete"
  /\ IF Exists(op.id) /\ ~IsHA(op.id) THEN Fault ELSE UNCHANGED bounds
  /\ DeleteReturns(op.id)
  /\ UNCHANGED <<type, unread, tenant, want, history>>

-----------------------------------------------------------------------------
(* The handlers.  An import is a read, preceded by the parsing of the id;  *)
(* what some imports read beyond that can only make them fail.             *)

CreateFromResource ==
  Post \/ CreateNotDone \/ IdFromResource \/ NoResourceIsAnError

CreateThenFind == Post \/ CreateNotDone \/ ThenFind \/ FindByName

CreateElseFind ==
  Post \/ CreateNotDone \/ IdFromResource \/ NoResourceFinds \/ FindByName

resourceGatewayCreate == type = "gateway" /\ CreateFromResource
resourceGatewayRead == type = "gateway" /\ ReadTolerant
resourceGatewayDelete ==
  /\ type = "gateway"
  /\ DeleteCall("delete") \/ DeleteOfGone("delete", NoId)
       \/ WaitSeesGone \/ WaitGivesUp

resourceWireguardCreate == type = "wireguard" /\ CreateThenFind
resourceWireguardRead == type = "wireguard" /\ ReadTolerant
resourceWireguardUpdate == type = "wireguard" /\ UpdateWaited
resourceWireguardDelete == type = "wireguard" /\ DeleteWaited("delete")

resourceOpenvpnCreate == type = "openvpn" /\ CreateThenFind
resourceOpenvpnRead == type = "openvpn" /\ ReadTolerant
resourceOpenvpnUpdate == type = "openvpn" /\ UpdateWaited
resourceOpenvpnDelete == type = "openvpn" /\ DeleteWaited("delete")

resourceIpsecSingleCreate == type = "ipsec_single" /\ CreateThenFind
resourceIpsecSingleRead == type = "ipsec_single" /\ ReadUnlessHA
resourceIpsecSingleUpdate == type = "ipsec_single" /\ UpdateWaited
resourceIpsecSingleDelete ==
  /\ type = "ipsec_single"
  /\ ConfirmedNotHA \/ NotConfirmed \/ DeleteWaited("confirmed")

resourceIpsecRedundantCreate == type = "ipsec_redundant" /\ CreateFromResource
resourceIpsecRedundantRead == type = "ipsec_redundant" /\ ReadStrict
resourceIpsecRedundantUpdate == type = "ipsec_redundant" /\ UpdateWaited
resourceIpsecRedundantDelete ==
  type = "ipsec_redundant" /\ DeleteWaited("delete")

resourceApplicationCreate == type = "application" /\ CreateElseFind
resourceApplicationRead == type = "application" /\ ReadStrict

(* No call is made: the warning names the application that stays behind.   *)
resourceApplicationDelete ==
  /\ type = "application" /\ op.pc = "delete"
  /\ DeleteReturns(NoId)
  /\ reported' = reported \cup {op.id}
  /\ UNCHANGED <<type, unread, tenant, want, told, bounds>>

(* An update whose answer has no status URL is not waited for.             *)
resourceEnhancedStaticTunnelCreate ==
  type = "enhanced_static_tunnel" /\ CreateElseFind
resourceEnhancedStaticTunnelRead ==
  type = "enhanced_static_tunnel" /\ ReadTolerant
resourceEnhancedStaticTunnelUpdate ==
  type = "enhanced_static_tunnel" /\ (UpdateWaited \/ PutUnwaited)
resourceEnhancedStaticTunnelDelete ==
  type = "enhanced_static_tunnel" /\ DeleteWaited("delete")

resourceEnhancedDynamicTunnelCreate ==
  type = "enhanced_dynamic_tunnel" /\ CreateElseFind
resourceEnhancedDynamicTunnelRead ==
  type = "enhanced_dynamic_tunnel" /\ ReadTolerant
resourceEnhancedDynamicTunnelUpdate ==
  type = "enhanced_dynamic_tunnel" /\ (UpdateWaited \/ PutUnwaited)
resourceEnhancedDynamicTunnelDelete ==
  type = "enhanced_dynamic_tunnel" /\ DeleteWaited("delete")

resourceEnhancedNetworkCreate ==
  /\ type = "enhanced_network"
  /\ \/ Post \/ ConflictFails \/ ThenAdopt \/ AdoptByName
     \/ IdFromResource \/ NoResourceIsRead
resourceEnhancedNetworkRead == type = "enhanced_network" /\ ReadTolerant
resourceEnhancedNetworkUpdate ==
  type = "enhanced_network" /\ (Put \/ PutUnwaited)
resourceEnhancedNetworkDelete ==
  type = "enhanced_network" /\ DeleteWaited("delete")

resourceEnhancedRegionCreate ==
  /\ type = "enhanced_region"
  /\ Post \/ CreateNotDone \/ IdFromResource \/ NoResourceIsRead
resourceEnhancedRegionRead == type = "enhanced_region" /\ ReadTolerant
resourceEnhancedRegionUpdate == type = "enhanced_region" /\ UpdateWaited
resourceEnhancedRegionDelete ==
  type = "enhanced_region" /\ DeleteWaited("delete")

CreateHandler ==
  \/ resourceGatewayCreate \/ resourceWireguardCreate
  \/ resourceOpenvpnCreate \/ resourceIpsecSingleCreate
  \/ resourceIpsecRedundantCreate \/ resourceApplicationCreate
  \/ resourceEnhancedStaticTunnelCreate \/ resourceEnhancedDynamicTunnelCreate
  \/ resourceEnhancedNetworkCreate \/ resourceEnhancedRegionCreate

ReadHandler ==
  \/ resourceGatewayRead \/ resourceWireguardRead
  \/ resourceOpenvpnRead \/ resourceIpsecSingleRead
  \/ resourceIpsecRedundantRead \/ resourceApplicationRead
  \/ resourceEnhancedStaticTunnelRead \/ resourceEnhancedDynamicTunnelRead
  \/ resourceEnhancedNetworkRead \/ resourceEnhancedRegionRead

UpdateHandler ==
  \/ resourceWireguardUpdate \/ resourceOpenvpnUpdate
  \/ resourceIpsecSingleUpdate \/ resourceIpsecRedundantUpdate
  \/ resourceEnhancedStaticTunnelUpdate \/ resourceEnhancedDynamicTunnelUpdate
  \/ resourceEnhancedNetworkUpdate \/ resourceEnhancedRegionUpdate

DeleteHandler ==
  \/ resourceGatewayDelete \/ resourceWireguardDelete
  \/ resourceOpenvpnDelete \/ resourceIpsecSingleDelete
  \/ resourceIpsecRedundantDelete \/ resourceApplicationDelete
  \/ resourceEnhancedStaticTunnelDelete \/ resourceEnhancedDynamicTunnelDelete
  \/ resourceEnhancedNetworkDelete \/ resourceEnhancedRegionDelete

Handler == CreateHandler \/ ReadHandler \/ UpdateHandler \/ DeleteHandler

-----------------------------------------------------------------------------
(* The tenant, and everybody else who acts on it                           *)

(* The end of an operation that has not ended yet.                         *)
Ended(j, code) ==
  IF j.done THEN j ELSE [j EXCEPT !.done = TRUE, !.code = code]

(* A provisioning ends up live, refused because the name is taken, or      *)
(* failed, in which case the object may stay or go.                        *)
SettleAs(n, code, p, named) ==
  /\ code = 409 <=> NameTaken(n)
  /\ code = 200 => p = "live"
  /\ code = 409 => p = "gone"
  /\ IF code = 500 THEN Fault ELSE UNCHANGED bounds
  /\ tenant' = [tenant EXCEPT
       ![n].phase = p,
       ![n].job = [done |-> TRUE, code |-> code, resource |-> named]]

Settle(n) ==
  /\ tenant[n].phase = "provisioning"
  /\ \E code \in Codes, p \in {"live", "gone"}, named \in BOOLEAN :
       SettleAs(n, code, p, named)
  /\ UNCHANGED <<type, unread, state, want, op, history>>

(* An update takes effect, or fails with or without an effect.             *)
UpdateEndsAs(n, code, v) ==
  /\ code = 200 => v = tenant[n].next
  /\ IF code = 500 THEN Fault ELSE UNCHANGED bounds
  /\ tenant' = [tenant EXCEPT
       ![n].val = v, ![n].next = v, ![n].job = Ended(@, code)]

FinishUpdate(n) ==
  /\ tenant[n].phase = "live" /\ ~tenant[n].job.done
  /\ \E code \in {200, 500}, v \in {tenant[n].val, tenant[n].next} :
       UpdateEndsAs(n, code, v)
  /\ UNCHANGED <<type, unread, state, want, op, history>>

(* A teardown is over, or has failed; an operation that the teardown cut   *)
(* short has ended before.                                                 *)
FinishTeardown(n) ==
  /\ tenant[n].phase = "deleting"
  /\ tenant' = [tenant EXCEPT
       ![n].phase = "gone", ![n].job = Ended(@, 200)]
  /\ UNCHANGED <<type, unread, state, want, op, history, bounds>>

FailTeardown(n) ==
  /\ tenant[n].phase = "deleting" /\ ~tenant[n].job.done
  /\ Fault
  /\ tenant' = [tenant EXCEPT
       ![n].phase = "live", ![n].job = Ended(@, 500)]
  /\ UNCHANGED <<type, unread, state, want, op, history>>

Backend ==
  \E n \in Id :
    Settle(n) \/ FinishUpdate(n) \/ FinishTeardown(n) \/ FailTeardown(n)

ConsoleCreates(n) ==
  /\ tenant[n].phase = "unborn" /\ ~NameTaken(n)
  /\ Edit
  /\ \E who \in IF type = "ipsec_single" THEN {"other", "pair"} ELSE {"other"} :
       tenant' = [tenant EXCEPT ![n] =
         [phase |-> "live", owner |-> who, val |-> 1, next |-> 1,
          job |-> Ended(Running, 200)]]
  /\ UNCHANGED <<type, unread, state, want, op, history>>

ConsoleDeletes(n) ==
  /\ tenant[n].phase = "live"
  /\ Edit
  /\ tenant' = [tenant EXCEPT
       ![n].phase = "deleting", ![n].job = Ended(@, 500)]
  /\ UNCHANGED <<type, unread, state, want, op, history>>

Console == \E n \in Id : ConsoleCreates(n) \/ ConsoleDeletes(n)

(* Nothing to do: an operator may leave the address alone.                 *)
Rest == op = Idle /\ UNCHANGED vars

Next ==
  \/ Apply \/ ApplyStale \/ EditConfig \/ Crash \/ Rest
  \/ Handler \/ Backend \/ Console
  \/ \E n \in Id : Import(n)

Spec == Init /\ [][Next]_vars

(* Every call returns, the tenant finishes what it has started, and an     *)
(* operator who has something to apply keeps applying it.                  *)
Fairness == WF_vars(Handler) /\ WF_vars(Backend) /\ SF_vars(Apply)

FairSpec == Spec /\ Fairness

-----------------------------------------------------------------------------
(* No object that this address created is lost in silence: while it        *)
(* exists, the record names it, or a running operation is about it, or the *)
(* operator was told of it by an error, a warning or an interruption.      *)
(* Left out is what a completion that names nothing stands for, for an     *)
(* enhanced network or region, whose create reads on with an empty id, and *)
(* for an application, whose create takes the first one of its name, if    *)
(* there is or was another: the one a replacement has left behind, say.    *)
NoSilentOrphan ==
  \A n \in Id :
    /\ tenant[n].owner = "terraform" /\ Exists(n)
    /\ Unnamed(n) =>
         /\ type \notin {"enhanced_network", "enhanced_region"}
         /\ type = "application" =>
              \A m \in Id \ {n} : tenant[m].phase = "unborn"
    => n \in {state.id, op.id, op.target} \cup reported

(* An object leaves the state only once the tenant no longer has it, or    *)
(* with the warning of an application, which no call can delete.           *)
ForgetsOnlyTheGone ==
  [][state.id # NoId /\ state'.id # state.id
       => \/ tenant[state.id].phase = "gone"
          \/ type = "application" /\ state.id \in reported']_vars

(* The create of m may take another object of the name for m: because m    *)
(* has been removed under it, or because applications share names.  Three  *)
(* kinds are looked for by name only if the completion names nothing.      *)
Mistakable(m) ==
  /\ tenant[m].owner = "terraform"
  /\ type \notin {"gateway", "ipsec_redundant", "enhanced_network",
                  "enhanced_region"}
  /\ type = "application" \/ tenant[m].phase = "gone"
  /\ type \in {"application", "enhanced_static_tunnel",
               "enhanced_dynamic_tunnel"} => Unnamed(m)

(* The record comes to name somebody else's object only when the operator  *)
(* imported it or was warned, or when a lookup by name was mistaken.       *)
OnlyToldObjectsAreTakenOver ==
  \A n \in {state.id, op.id} \ {NoId} :
    tenant[n].owner \in {"other", "pair"} =>
      n \in told \/ \E m \in Id : Mistakable(m)

(* No member of an HA pair is deleted through the single-tunnel endpoint,  *)
(* however it got into the state: a DELETE follows a check that succeeded. *)
HAMembersAreSpared ==
  type = "ipsec_single" /\ op.pc \in {"confirmed", "wait"} => ~IsHA(op.id)

(* A value enters the record only while it is the one in force: neither an *)
(* update that failed or timed out, nor one that was only accepted, makes  *)
(* the plan take the change for applied.  What no read returns is assumed  *)
(* in three cases: the version of an imported OpenVPN tunnel; a value of   *)
(* an object that a create found in place of its own; and an update of an  *)
(* enhanced tunnel whose answer had no status to ask for, and that is      *)
(* still under way or has failed.                                          *)
RecordsOnlyWhatIsInForce ==
  [][state'.val \notin {0, state.val}
       => \/ tenant[state'.id].val = state'.val
          \/ unread /\ op.kind = "import" /\ type = "openvpn"
          \/ unread /\ op.kind = "create" /\ op.id # op.target
          \/ /\ unread /\ op.kind = "update" /\ op.pc = "read"
             /\ type \in {"enhanced_static_tunnel", "enhanced_dynamic_tunnel"}
             /\ ~(/\ tenant[op.id].job.done
                  /\ tenant[op.id].job.code = 200)]_vars

(* The two kinds whose read takes a 404 for an error cannot be refreshed   *)
(* any more once their object is gone, and the HA check refuses a pair.    *)
Wedged ==
  /\ state.id # NoId
  /\ \/ type \in {"ipsec_redundant", "application"} /\ ~Exists(state.id)
     \/ IsHA(state.id)

(* Taken out of the configuration for good, every other object eventually  *)
(* leaves the state, whatever was refused, lost or cut short before: the   *)
(* refresh gets past a delete that would answer 404 for ever.              *)
DestroyCompletes == <>[](want = 0) => <>[](state.id = NoId \/ Wedged)
=============================================================================
