------------------------ MODULE TenantSettings_proofs ------------------------
(***************************************************************************)
(* Proofs about the settings of a tenant, for every kind of setting and    *)
(* any number of documents, retries, faults and edits.                     *)
(***************************************************************************)
EXTENDS TenantSettings, TLAPS

(* Which operation makes which call, and what is known of its ids.         *)
Calls ==
  /\ op.pc \in {"read", "reread"} =>
       op.id /\ op.kind \in {"create", "update", "plan", "import"}
  /\ op.kind \in {"update", "replace", "destroy", "plan"} => state.id
  /\ kind \in IdFirst /\ op.pc \in {"look", "write", "put", "wait"} => op.id

(* A record without an id is no record.                                    *)
Blank == ~state.id => state = NoRecord

(* A setting of the tenant is written at once, and one that went with its  *)
(* network is neither in force nor about to be.                            *)
Quiet ==
  /\ kind \in TenantWide => tenant.job.done
  /\ ~tenant.there => tenant.doc = 0 /\ tenant.job.done

(* The change under way, or the one that just ended well, is the one that  *)
(* the handler waits for, unless it failed without a result.               *)
Awaits(val) ==
  IF tenant.job.done
  THEN isSuccessStatus(tenant.job.code) => landed = val \/ FailedUnsaid
  ELSE tenant.next = val /\ landed = Nothing

Awaited ==
  /\ op.pc = "wait" => Awaits(op.val)
  /\ op.pc = "clearing" => Awaits(0)

(* What a write is read back after.                                        *)
Written ==
  op.pc \in {"read", "reread"} /\ op.kind \in {"create", "update"} =>
    \/ tenant.job.done /\ landed = op.val
    \/ FailedUnsaid
    \/ /\ kind = "firewall_policy" /\ landed = Nothing
       /\ tenant.job.done \/ tenant.next = op.val

Excuses ==
  IF kind \in IdFirst THEN {"crash", "delete"}
  ELSE {"crash", "warning", "error"}

(* Before anything else explains it, a setting of ours that is not in the  *)
(* record is the work of the create that is running.                       *)
Explained ==
  /\ lost \in {"none"} \cup Excuses
  /\ ~state.id /\ Ours(tenant) /\ lost = "none" =>
       op.kind = "create" /\ (kind \in IdFirst => op.id)

(* The inductive invariant.                                                *)
Fits == Calls /\ Blank /\ Quiet /\ Awaited /\ Written /\ Explained

IInv == TypeOK /\ Fits

-----------------------------------------------------------------------------
(* The handlers of eight kinds make many steps of few shapes.              *)

Unmoved == UNCHANGED <<tenant, landed>>

Goes(pc) ==
  op' = [op EXCEPT !.pc = pc] /\ UNCHANGED <<state, outcome, lost>>

GoesWith(pc, id) ==
  op' = [op EXCEPT !.pc = pc, !.id = id] /\ UNCHANGED <<state, outcome, lost>>

(* A call that fails and changes nothing.                                  *)
Refused == op.pc # "idle" /\ Unmoved /\ Errs

(* A write that lands although its reply is lost.                          *)
LostWrite ==
  /\ \/ op.pc = "write" /\ kind \in TenantWide /\ WriteLands(op.val)
     \/ op.pc = "delete" /\ kind \in Policies /\ WriteLands(0)
  /\ Errs

(* A change that is accepted, and of which the handler learns no more.     *)
LostPut ==
  /\ kind \in PerNetwork
  /\ \/ PutTaken("put", op.val)
     \/ \E pc \in {"delete", "clear"} : PutTaken(pc, 0)
  /\ Errs

(* A handler goes on to its next call.                                     *)
Proceeds ==
  /\ Unmoved
  /\ \/ op.pc = "probe" /\ kind \notin Unprobed
          /\ GoesWith(UpdateCall, kind \in IdFirst)
     \/ op.pc = "look" /\ kind = "firewall_policy" /\ Goes("put")
     \/ /\ op.pc = "reread" /\ op.left > 0
        /\ op' = [op EXCEPT !.left = @ - 1]
        /\ UNCHANGED <<state, outcome, lost>>
     \/ op.pc = "delete" /\ Goes("clear")
     \/ /\ op.pc = "wait" /\ tenant.job.done
        /\ isSuccessStatus(tenant.job.code) /\ GoesWith("read", TRUE)

(* A write that returns, and is read back.                                 *)
Wrote ==
  /\ op.pc = "write" /\ kind \in TenantWide /\ WriteLands(op.val)
  /\ \E pc \in {"read", "reread"} : GoesWith(pc, TRUE)

(* A change that is accepted, and waited for.                              *)
Put ==
  /\ kind \in PerNetwork
  /\ \/ PutTaken("put", op.val) /\ Goes("wait")
     \/ \E pc \in {"delete", "clear"} :
          PutTaken(pc, 0) /\ Goes("clearing")

(* A change of the firewall policy that is accepted and passes for done.   *)
PutUnasked ==
  kind = "firewall_policy" /\ PutTaken("put", op.val) /\ GoesWith("read", TRUE)

ReadBack ==
  /\ Unmoved
  /\ \/ op.pc \in {"read", "reread"} /\ Records(Shown)
     \/ op.pc = "read" /\ ~tenant.there /\ Records(NoRecord)

(* The ways a delete succeeds.                                             *)
Cleared ==
  \/ op.pc = "delete" /\ kind \in Policies /\ WriteLands(0) /\ Clears("delete")
  \/ /\ op.pc = "delete" /\ kind \in {"internet_access_status", "split_tunneling"}
     /\ Unmoved /\ Clears("warning")
  \/ op.pc = "delete" /\ kind = "support_options" /\ Unmoved /\ Clears("delete")
  \/ /\ op.pc = "delete" /\ kind = "firewall_policy"
     /\ tenant.there => tenant.doc = 0
     /\ Unmoved /\ Clears("delete")
  \/ kind = "firewall_policy" /\ PutTaken("clear", 0) /\ Clears("delete")
  \/ /\ op.pc = "clearing" /\ kind \in IdFirst /\ tenant.job.done
     /\ isSuccessStatus(tenant.job.code)
     /\ Unmoved /\ Clears("delete")

HandlerShape ==
  \/ Refused \/ LostWrite \/ LostPut \/ Proceeds \/ Wrote \/ Put
  \/ PutUnasked \/ ReadBack \/ Cleared

(* What no handler does.                                                   *)
HandlerLeaves == UNCHANGED <<kind, want>> /\ (Fault \/ UNCHANGED bounds)

Shaped == HandlerShape /\ HandlerLeaves

LEMMA KindsApart ==
  /\ Policies \subseteq TenantWide /\ Policies \subseteq Unprobed
  /\ TenantWide \cap PerNetwork = {} /\ PrivateDNS \subseteq PerNetwork
  /\ PrivateDNS \subseteq IdFirst
  /\ "firewall_policy" \in IdFirst \cap PerNetwork
  /\ "support_options" \in IdFirst \cap TenantWide
  /\ "split_tunneling" \in PerNetwork /\ "split_tunneling" \notin IdFirst
  /\ "internet_access_status" \in TenantWide
  /\ Unprobed \cap IdFirst = {}
  /\ \A k \in {"support_options", "firewall_policy", "split_tunneling"}
             \cup PrivateDNS : k \notin Unprobed
BY DEF Policies, TenantWide, PerNetwork, PrivateDNS, IdFirst, Unprobed

(* The building blocks have the shapes.                                    *)
LEMMA CallFailsShape ==
  ASSUME NEW pc, pc # "idle", CallFails(pc) PROVE Shaped
BY DEF CallFails, Shaped, HandlerShape, HandlerLeaves, Refused, Unmoved, bounds

LEMMA ProbeShape ==
  ASSUME Probe(kind \in IdFirst), kind \notin Unprobed PROVE Shaped
<1>1. CASE CallFails("probe")
  BY <1>1, CallFailsShape
<1>2. CASE ProbeThen(kind \in IdFirst)
  BY <1>2 DEF ProbeThen, CallPasses, GoesWith, Proceeds, Unmoved, Shaped,
     HandlerShape, HandlerLeaves, history
<1> QED BY <1>1, <1>2 DEF Probe

LEMMA WriteShape ==
  ASSUME NEW pc \in {"read", "reread"}, Write(pc), kind \in TenantWide
  PROVE  Shaped
<1>1. CASE CallFails("write")
  BY <1>1, CallFailsShape
<1>2. CASE WriteAccepted(pc)
  BY <1>2 DEF WriteAccepted, WriteLands, GoesWith, Wrote, Shaped, HandlerShape,
     HandlerLeaves
<1>3. CASE WriteReplyLost
  BY <1>3 DEF WriteReplyLost, WriteLands, LostWrite, Shaped, HandlerShape,
     HandlerLeaves
<1> QED BY <1>1, <1>2, <1>3 DEF Write

LEMMA ReadFromShape ==
  ASSUME NEW pc \in {"read", "reread"}, ReadFrom(pc) PROVE Shaped
BY DEF ReadFrom, ReadBack, Unmoved, Shaped, HandlerShape, HandlerLeaves

LEMMA RereadShape == rereadAfterWrite => Shaped
<1>1. ASSUME RereadRetried PROVE Shaped
  BY <1>1 DEF RereadRetried, Proceeds, Unmoved, Shaped, HandlerShape,
     HandlerLeaves, history
<1> QED BY <1>1, ReadFromShape, CallFailsShape DEF rereadAfterWrite

LEMMA ReadShape == ReadStrict \/ ReadTolerant => Shaped
<1>1. ASSUME ReadGone PROVE Shaped
  BY <1>1 DEF ReadGone, ReadBack, Unmoved, Shaped, HandlerShape, HandlerLeaves
<1> QED BY <1>1, ReadFromShape, CallFailsShape DEF ReadStrict, ReadTolerant

LEMMA WaitFailsShape ==
  ASSUME NEW pc, pc # "idle", WaitFails(pc) PROVE Shaped
BY DEF WaitFails, WaitEnds, Shaped, HandlerShape, HandlerLeaves, Refused,
   Unmoved, bounds

LEMMA PutRefusedShape ==
  ASSUME NEW pc, pc # "idle", PutRefused(pc) PROVE Shaped
BY DEF PutRefused, Shaped, HandlerShape, HandlerLeaves, Refused, Unmoved, bounds

(* A wait ends well only if the operation did.                             *)
LEMMA WaitOkMeans ==
  ASSUME NEW pc, WaitOk(pc)
  PROVE  /\ op.pc = pc /\ tenant.job.done /\ isSuccessStatus(tenant.job.code)
         /\ Unmoved /\ HandlerLeaves
<1>1. PICK c \in {"live", "deadline", "cancelled"} :
        Justified(Plain("ok"), tenant.job, c)
  BY DEF WaitOk, WaitEnds
<1>2. tenant.job.done /\ isSuccessStatus(tenant.job.code)
  BY <1>1 DEF Justified, Plain, asyncFailedError
<1> QED BY <1>2 DEF WaitOk, WaitEnds, Unmoved, HandlerLeaves

LEMMA PutAndWaitShape ==
  ASSUME PutAndWait, kind \in PerNetwork PROVE Shaped
<1>1. CASE PutAccepted("put", op.val, "wait")
  <2>1. op' = [op EXCEPT !.pc = "wait"]
    BY <1>1 DEF PutAccepted
  <2> QED BY <1>1, <2>1 DEF PutAccepted, PutTaken, Goes, Put, Shaped,
         HandlerShape, HandlerLeaves
<1>2. CASE PutUnfollowed("put", op.val)
  BY <1>2 DEF PutUnfollowed, PutTaken, LostPut, Shaped, HandlerShape,
     HandlerLeaves
<1>3. CASE PutRefused("put")
  BY <1>3, PutRefusedShape
<1>4. CASE WaitOk("wait") /\ ThenRead /\ UNCHANGED <<state, outcome, lost>>
  BY <1>4, WaitOkMeans DEF ThenRead, GoesWith, Proceeds, Shaped, HandlerShape
<1>5. CASE WaitFails("wait")
  BY <1>5, WaitFailsShape
<1> QED BY <1>1, <1>2, <1>3, <1>4, <1>5 DEF PutAndWait

LEMMA ClearAndWaitShape ==
  ASSUME NEW pc \in {"delete", "clear"}, ClearAndWait(pc),
         kind \in IdFirst \cap PerNetwork
  PROVE  Shaped
<1>1. CASE PutAccepted(pc, 0, "clearing")
  <2>1. op' = [op EXCEPT !.pc = "clearing"]
    BY <1>1 DEF PutAccepted
  <2>2. PutTaken(pc, 0) /\ Goes("clearing")
    BY <1>1, <2>1 DEF PutAccepted, Goes
  <2>3. Put
    BY <2>2 DEF Put
  <2> QED BY <1>1, <2>3 DEF PutAccepted, PutTaken, Shaped, HandlerShape,
         HandlerLeaves
<1>2. CASE PutUnfollowed(pc, 0)
  <2>1. LostPut
    BY <1>2 DEF PutUnfollowed, LostPut
  <2> QED BY <1>2, <2>1 DEF PutUnfollowed, PutTaken, Shaped, HandlerShape,
         HandlerLeaves
<1>3. CASE PutRefused(pc)
  BY <1>3, PutRefusedShape
<1>4. CASE WaitOk("clearing") /\ Clears("delete")
  <2>1. Cleared
    BY <1>4, WaitOkMeans DEF Cleared
  <2> QED BY <1>4, <2>1, WaitOkMeans DEF Shaped, HandlerShape
<1>5. CASE WaitFails("clearing")
  BY <1>5, WaitFailsShape
<1> QED BY <1>1, <1>2, <1>3, <1>4, <1>5 DEF ClearAndWait

LEMMA DeletePolicyShape ==
  ASSUME DeletePolicy \/ CallFails("delete"), kind \in Policies PROVE Shaped
<1>1. CASE CallFails("delete")
  BY <1>1, CallFailsShape
<1>2. CASE DeletePolicy
  <2>1. Cleared \/ LostWrite
    BY <1>2 DEF DeletePolicy, Cleared, LostWrite
  <2>2. HandlerLeaves
    BY <1>2 DEF DeletePolicy, WriteLands, HandlerLeaves
  <2> QED BY <2>1, <2>2 DEF Shaped, HandlerShape
<1> QED BY <1>1, <1>2

LEMMA LeavesShape ==
  ASSUME NEW cause, LeavesInForce(cause),
         \/ /\ kind \in {"internet_access_status", "split_tunneling"}
            /\ cause = "warning"
         \/ kind = "support_options" /\ cause = "delete"
  PROVE  Shaped
<1>1. Cleared
  BY DEF LeavesInForce, Cleared, Unmoved
<1>2. HandlerLeaves
  BY DEF LeavesInForce, HandlerLeaves
<1> QED BY <1>1, <1>2 DEF Shaped, HandlerShape

LEMMA FirewallUpdateShape == resourceFirewallPolicyUpdate => Shaped
<1>1. ASSUME kind = "firewall_policy", CallPasses("look"),
             op' = [op EXCEPT !.pc = "put"]
      PROVE  Shaped
  BY <1>1 DEF CallPasses, Goes, Proceeds, Unmoved, Shaped, HandlerShape,
     HandlerLeaves, history
<1>2. ASSUME kind = "firewall_policy", Fault, PutTaken("put", op.val),
             ThenRead, UNCHANGED <<state, outcome, lost>>
      PROVE  Shaped
  <2>1. PutUnasked
    BY <1>2 DEF ThenRead, GoesWith, PutUnasked
  <2> QED BY <1>2, <2>1 DEF PutTaken, Shaped, HandlerShape, HandlerLeaves
<1> QED BY <1>1, <1>2, PutAndWaitShape, CallFailsShape, KindsApart
        DEF resourceFirewallPolicyUpdate

LEMMA FirewallDeleteShape == resourceFirewallPolicyDelete => Shaped
<1> SUFFICES ASSUME resourceFirewallPolicyDelete PROVE Shaped
  OBVIOUS
<1>0. kind = "firewall_policy" /\ kind \in IdFirst \cap PerNetwork
  BY KindsApart DEF resourceFirewallPolicyDelete
<1>1. CASE NothingToClear
  <2>1. Cleared
    BY <1>0, <1>1 DEF NothingToClear, Cleared, Unmoved
  <2> QED BY <1>1, <2>1 DEF NothingToClear, Shaped, HandlerShape, HandlerLeaves
<1>2. CASE SomethingToClear
  BY <1>2 DEF SomethingToClear, CallPasses, Goes, Proceeds, Unmoved, Shaped,
     HandlerShape, HandlerLeaves, history
<1>3. CASE CallFails("delete")
  BY <1>3, CallFailsShape
<1>4. CASE ClearAndWait("clear")
  BY <1>0, <1>4, ClearAndWaitShape
<1>5. CASE Fault /\ PutTaken("clear", 0) /\ Clears("delete")
  <2>1. Cleared
    BY <1>0, <1>5 DEF Cleared
  <2> QED BY <1>5, <2>1 DEF PutTaken, Shaped, HandlerShape, HandlerLeaves
<1> QED BY <1>1, <1>2, <1>3, <1>4, <1>5 DEF resourceFirewallPolicyDelete

LEMMA PolicyHandlerShape == PolicyHandler => Shaped
BY KindsApart, WriteShape, RereadShape, ReadShape, DeletePolicyShape
DEF PolicyHandler, resourceAccessPolicyWrite, resourceAccessPolicyRead,
    resourceAccessPolicyDelete, resourceHttpsInspectionPolicyWrite,
    resourceHttpsInspectionPolicyRead, resourceHttpsInspectionPolicyDelete,
    Policies, TenantWide

LEMMA TenantHandlerShape == TenantHandler => Shaped
<1>1. ASSUME kind = "support_options", Probe(TRUE) PROVE Shaped
  <2>1. (kind \in IdFirst) = TRUE
    BY <1>1, KindsApart
  <2> QED BY <1>1, <2>1, ProbeShape, KindsApart
<1>2. ASSUME kind = "internet_access_status", LeavesInForce("warning")
      PROVE  Shaped
  BY <1>2, LeavesShape
<1>3. ASSUME kind = "support_options", LeavesInForce("delete") PROVE Shaped
  BY <1>3, LeavesShape
<1> QED
  BY <1>1, <1>2, <1>3, KindsApart, WriteShape, RereadShape, ReadShape
  DEF TenantHandler, resourceInternetAccessStatusWrite,
      resourceInternetAccessStatusRead, resourceInternetAccessStatusDelete,
      resourceSupportOptionsCreate, resourceSupportOptionsUpdate,
      resourceSupportOptionsRead, resourceSupportOptionsDelete

LEMMA NetworkHandlerShape == NetworkHandler => Shaped
<1>1. ASSUME kind = "firewall_policy", Probe(TRUE) PROVE Shaped
  <2>1. (kind \in IdFirst) = TRUE
    BY <1>1, KindsApart
  <2> QED BY <1>1, <2>1, ProbeShape, KindsApart
<1>2. ASSUME kind = "split_tunneling", Probe(FALSE) PROVE Shaped
  <2>1. (kind \in IdFirst) = FALSE
    BY <1>2, KindsApart
  <2> QED BY <1>2, <2>1, ProbeShape, KindsApart
<1>3. ASSUME kind = "split_tunneling", LeavesInForce("warning") PROVE Shaped
  BY <1>3, LeavesShape
<1> QED
  BY <1>1, <1>2, <1>3, KindsApart, FirewallUpdateShape, FirewallDeleteShape,
     PutAndWaitShape, ReadShape
  DEF NetworkHandler, resourceFirewallPolicyCreate, resourceFirewallPolicyRead,
      resourceSplitTunnelingCreate, writeSplitTunneling,
      resourceSplitTunnelingRead, resourceSplitTunnelingDelete

LEMMA PrivateDNSHandlerShape == PrivateDNSHandler => Shaped
<1>1. ASSUME kind \in PrivateDNS, Probe(TRUE) PROVE Shaped
  <2>1. (kind \in IdFirst) = TRUE
    BY <1>1, KindsApart
  <2> QED BY <1>1, <2>1, ProbeShape, KindsApart
<1>2. ASSUME kind \in PrivateDNS, ClearAndWait("delete") PROVE Shaped
  <2>1. kind \in IdFirst \cap PerNetwork
    BY <1>2, KindsApart
  <2> QED BY <1>2, <2>1, ClearAndWaitShape
<1> QED
  BY <1>1, <1>2, KindsApart, PutAndWaitShape, ReadShape
  DEF PrivateDNSHandler, resourceEnhancedNetworkPrivateDNSCreate,
      resourceEnhancedNetworkPrivateDNSUpdate,
      resourceEnhancedNetworkPrivateDNSRead,
      resourceEnhancedNetworkPrivateDNSDelete,
      resourceEnhancedRegionPrivateDNSCreate,
      resourceEnhancedRegionPrivateDNSUpdate,
      resourceEnhancedRegionPrivateDNSRead,
      resourceEnhancedRegionPrivateDNSDelete, PrivateDNS

LEMMA HandlerShaped == Handler => Shaped
BY PolicyHandlerShape, TenantHandlerShape, NetworkHandlerShape,
   PrivateDNSHandlerShape DEF Handler

-----------------------------------------------------------------------------
(* What Terraform core plans, and what a handler that returns leaves.      *)

(* An operation o that has only begun, over a record s.                    *)
Fresh(o, s) ==
  /\ o \in Operation
  /\ o.pc \in {"idle", "probe", "look", "write", "put", "delete"}
  /\ o.kind \in {"none", "create", "update", "replace", "destroy"}
  /\ o.pc \in {"probe", "look", "write", "put"} => o.kind \in {"create", "update"}
  /\ o.pc = "delete" => o.kind \in {"replace", "destroy"}
  /\ o.kind = "create" => ~s.id
  /\ o.kind \in {"update", "replace", "destroy"} => s.id
  /\ kind \in IdFirst /\ o.pc \in {"look", "write", "put"} => o.id

LEMMA IdleIsFresh == \A s : Fresh(Idle, s)
BY BoundsAssumption DEF Fresh, Idle, Operation

LEMMA NoRecordIsRecord == NoRecord \in Record /\ ~NoRecord.id
BY BoundsAssumption DEF NoRecord, Record

LEMMA PlannedIsFresh ==
  ASSUME NEW s \in Record, want \in 0..MaxVal
  PROVE  Fresh(Planned(s), s)
<1>1. FirstCall \in {"write", "probe"} /\ (kind \in IdFirst => FirstCall = "probe")
  BY KindsApart DEF FirstCall
<1>2. UpdateCall \in {"write", "look", "put"}
  BY DEF UpdateCall
<1> DEFINE create == [pc |-> FirstCall, kind |-> "create", id |-> FALSE,
                      at |-> TRUE, val |-> want, left |-> Budget]
           delete(k) == [pc |-> "delete", kind |-> k, id |-> TRUE,
                         at |-> s.at, val |-> 0, left |-> Budget]
           update == [pc |-> UpdateCall, kind |-> "update", id |-> TRUE,
                      at |-> TRUE, val |-> want, left |-> Budget]
<1>3. CASE ~s.id /\ want # 0
  <2>1. Planned(s) = create
    BY <1>3 DEF Planned, Idle
  <2>2. Fresh(create, s)
    BY <1>1, <1>3, BoundsAssumption DEF Fresh, Operation
  <2> QED BY <2>1, <2>2
<1>4. CASE s.id /\ want = 0
  <2>1. Planned(s) = delete("destroy")
    BY <1>4 DEF Planned, Idle
  <2>2. Fresh(delete("destroy"), s)
    BY <1>4, BoundsAssumption DEF Fresh, Operation, Record
  <2> QED BY <2>1, <2>2
<1>5. CASE s.id /\ want # 0 /\ Replaced(s)
  <2>1. Planned(s) = delete("replace")
    BY <1>5 DEF Planned, Idle
  <2>2. Fresh(delete("replace"), s)
    BY <1>5, BoundsAssumption DEF Fresh, Operation, Record
  <2> QED BY <2>1, <2>2
<1>6. CASE s.id /\ want # 0 /\ ~Replaced(s) /\ s.val # want
  <2>1. Planned(s) = update
    BY <1>6 DEF Planned, Idle
  <2>2. Fresh(update, s)
    BY <1>2, <1>6, BoundsAssumption DEF Fresh, Operation, Record
  <2> QED BY <2>1, <2>2
<1>7. CASE ~(~s.id /\ want # 0) /\ ~(s.id /\ want = 0)
             /\ ~(s.id /\ want # 0 /\ Replaced(s))
             /\ ~(s.id /\ want # 0 /\ ~Replaced(s) /\ s.val # want)
  BY <1>7, IdleIsFresh DEF Planned
<1> QED BY <1>3, <1>4, <1>5, <1>6, <1>7

(* A handler that returns leaves a record and an operation that fit.       *)
Leaves ==
  /\ state' \in Record
  /\ ~state'.id => state' = NoRecord
  /\ Fresh(op', state')
  /\ outcome' \in {"ok", "error", "crash"}

LEMMA ErrsLeaves ==
  ASSUME IInv, Errs
  PROVE  /\ Leaves
         /\ state'.id = (state.id \/ (op.kind = "create" /\ op.id))
<1> DEFINE s == [id |-> TRUE, tainted |-> TRUE, at |-> kind \in TenantWide,
                 val |-> 0]
<1>1. s \in Record /\ s.id = TRUE
  BY BoundsAssumption DEF Record
<1>2. state' = IF op.kind = "create" /\ op.id THEN s ELSE state
  BY DEF Errs
<1>3. op' = Idle /\ outcome' = "error"
  BY DEF Errs
<1>4. state \in Record /\ (~state.id => state = NoRecord)
  BY DEF IInv, TypeOK, Fits, Blank
<1> HIDE DEF s
<1>5. CASE op.kind = "create" /\ op.id
  <2>1. state' = s
    BY <1>2, <1>5
  <2> QED BY <2>1, <1>1, <1>3, <1>5, IdleIsFresh DEF Leaves
<1>6. CASE ~(op.kind = "create" /\ op.id)
  <2>1. state' = state
    BY <1>2, <1>6
  <2>2. state.id \in BOOLEAN
    BY <1>4 DEF Record
  <2> QED BY <2>1, <2>2, <1>3, <1>4, <1>6, IdleIsFresh DEF Leaves
<1> QED BY <1>5, <1>6

LEMMA RecordsLeaves ==
  ASSUME IInv, NEW s \in Record, ~s.id => s = NoRecord, Records(s),
         UNCHANGED <<kind, want>>
  PROVE  Leaves /\ state' = s
<1>1. Fresh(Planned(s), s)
  BY PlannedIsFresh DEF IInv, TypeOK
<1> QED BY <1>1, IdleIsFresh DEF Records, Leaves

LEMMA ClearsLeaves ==
  ASSUME IInv, NEW cause, Clears(cause)
  PROVE  Leaves /\ state' = NoRecord /\ ~state'.id
<1>1. Fresh(Planned(NoRecord), NoRecord)
  BY PlannedIsFresh, NoRecordIsRecord DEF IInv, TypeOK
<1> QED BY <1>1, IdleIsFresh, NoRecordIsRecord DEF Clears, Leaves

LEMMA ShownIsRecord ==
  ASSUME IInv, op.pc \in {"read", "reread"}
  PROVE  Shown \in Record /\ Shown.id
<1>1. op.id
  BY DEF IInv, Fits, Calls
<1>2. tenant.doc \in 0..MaxVal /\ state.tainted \in BOOLEAN
  BY DEF IInv, TypeOK, Setting, Record
<1> QED BY <1>1, <1>2 DEF Shown, Record

-----------------------------------------------------------------------------
(* What a step of a handler makes of the setting.                          *)

TenantFits ==
  /\ tenant' \in Setting
  /\ landed' \in 0..MaxVal \cup {Nothing}
  /\ kind' \in TenantWide => tenant'.there /\ tenant'.job.done
  /\ ~tenant'.there => tenant'.doc = 0 /\ tenant'.job.done

LEMMA UnmovedFits ==
  ASSUME IInv, Unmoved, UNCHANGED kind
  PROVE  TenantFits /\ (Ours(tenant') => Ours(tenant))
BY DEF IInv, TypeOK, Fits, Quiet, Unmoved, TenantFits

LEMMA WriteFits ==
  ASSUME IInv, NEW val \in 0..MaxVal, WriteLands(val), kind \in TenantWide
  PROVE  /\ TenantFits
         /\ landed' = val /\ tenant'.job = tenant.job /\ tenant'.job.done
         /\ (Ours(tenant') <=> val # 0)
<1> DEFINE t == [there |-> tenant.there, doc |-> val, author |-> "provider",
                 next |-> tenant.next, job |-> tenant.job]
<1>1. tenant \in Setting /\ tenant.there /\ tenant.job.done
  BY DEF IInv, TypeOK, Fits, Quiet
<1>2. tenant' = t
  BY <1>1 DEF WriteLands, Setting
<1>3. t \in Setting
  BY <1>1 DEF Setting
<1>4. landed' = val /\ kind' = kind
  BY DEF WriteLands
<1> QED BY <1>1, <1>2, <1>3, <1>4 DEF TenantFits, Ours

LEMMA PutFits ==
  ASSUME IInv, NEW pc, NEW val \in 0..MaxVal, PutTaken(pc, val),
         kind \in PerNetwork
  PROVE  /\ TenantFits
         /\ landed' = Nothing /\ tenant'.job.done = FALSE
         /\ tenant'.next = val /\ op.pc = pc
<1> DEFINE t == [there |-> tenant.there, doc |-> tenant.doc,
                 author |-> tenant.author, next |-> val, job |-> Running]
<1>1. tenant \in Setting /\ tenant.there
  BY DEF IInv, TypeOK, PutTaken, Reachable
<1>2. tenant' = t
  BY <1>1 DEF PutTaken, Setting
<1>3. Running \in Job(Codes) /\ Running.done = FALSE
  BY DEF Running, Job
<1>4. t \in Setting
  BY <1>1, <1>3 DEF Setting
<1>5. landed' = Nothing /\ kind' = kind /\ op.pc = pc
  BY DEF PutTaken
<1> QED BY <1>1, <1>2, <1>3, <1>4, <1>5, KindsApart DEF TenantFits

(* A handler returns, and why the setting is not in the record is known.   *)
LEMMA ReturnExplained ==
  ASSUME IInv, NEW cause, lost' = LostTo(state', cause), UNCHANGED kind,
         state'.id \in BOOLEAN,
         ~state'.id /\ Ours(tenant') /\ lost = "none" => cause \in Excuses
  PROVE  Explained'
<1>0. "none" \notin Excuses /\ Excuses' = Excuses
  BY DEF Excuses
<1>1. lost \in {"none"} \cup Excuses
  BY DEF IInv, Fits, Explained
<1>2. CASE state'.id \/ ~Ours(tenant')
  <2>1. lost' = "none"
    BY <1>2 DEF LostTo
  <2> QED BY <1>2, <2>1, <1>0 DEF Explained, Ours
<1>3. CASE ~state'.id /\ Ours(tenant') /\ lost = "none"
  <2>1. lost' = cause
    BY <1>3 DEF LostTo
  <2> QED BY <1>3, <2>1, <1>0 DEF Explained
<1>4. CASE ~state'.id /\ Ours(tenant') /\ lost # "none"
  <2>1. lost' = lost
    BY <1>4 DEF LostTo
  <2> QED BY <1>4, <2>1, <1>0, <1>1 DEF Explained
<1> QED BY <1>2, <1>3, <1>4

LEMMA ReturnFits ==
  ASSUME IInv, Leaves, TenantFits, Explained', HandlerLeaves
  PROVE  IInv'
<1>1. faults' \in 0..MaxFaults /\ edits' \in 0..MaxEdits
  BY BoundsAssumption DEF IInv, TypeOK, HandlerLeaves, Fault, bounds
<1>2. kind' = kind /\ want' = want /\ kind \in Kind /\ want \in 0..MaxVal
  BY DEF IInv, TypeOK, HandlerLeaves
<1>3. lost' \in {"none", "error", "crash", "warning", "delete"}
  BY DEF Explained, Excuses
<1>4. TypeOK'
  BY <1>1, <1>2, <1>3 DEF TypeOK, TenantFits, Leaves, Fresh
<1>5. Fits'
  <2>1. Calls' /\ Blank'
    BY <1>2 DEF Leaves, Fresh, Calls, Blank
  <2>2. Quiet'
    BY DEF TenantFits, Quiet
  <2>3. Awaited' /\ Written'
    BY DEF Leaves, Fresh, Awaited, Written
  <2> QED BY <2>1, <2>2, <2>3 DEF Fits
<1> QED BY <1>4, <1>5 DEF IInv

LEMMA RefusedFits ==
  ASSUME IInv, Refused, HandlerLeaves PROVE IInv'
<1>1. Leaves /\ state'.id = (state.id \/ (op.kind = "create" /\ op.id))
  BY ErrsLeaves DEF Refused
<1>2. TenantFits /\ (Ours(tenant') => Ours(tenant))
  BY UnmovedFits DEF Refused, HandlerLeaves
<1>3. ASSUME ~state'.id, Ours(tenant'), lost = "none"
      PROVE  "error" \in Excuses
  <2>1. ~state.id /\ ~(op.kind = "create" /\ op.id)
    BY <1>1, <1>3
  <2>2. op.kind = "create" /\ (kind \in IdFirst => op.id)
    BY <1>2, <1>3, <2>1 DEF IInv, Fits, Explained
  <2> QED BY <2>1, <2>2 DEF Excuses
<1>4. lost' = LostTo(state', "error")
  BY DEF Refused, Errs
<1>5. state'.id \in BOOLEAN
  BY <1>1 DEF Leaves, Record
<1>6. Explained'
  BY <1>3, <1>4, <1>5, ReturnExplained DEF HandlerLeaves
<1> QED BY <1>1, <1>2, <1>6, ReturnFits

LEMMA LostWriteFits ==
  ASSUME IInv, LostWrite, HandlerLeaves PROVE IInv'
<1>1. Leaves /\ state'.id = (state.id \/ (op.kind = "create" /\ op.id))
  BY ErrsLeaves DEF LostWrite
<1>2. PICK val \in {op.val, 0} : WriteLands(val)
  BY DEF LostWrite
<1>3. val \in 0..MaxVal /\ kind \in TenantWide
  BY BoundsAssumption, KindsApart DEF IInv, TypeOK, Operation, LostWrite
<1>4. TenantFits
  BY <1>2, <1>3, WriteFits
<1>5. ASSUME ~state'.id, kind \in IdFirst
      PROVE  FALSE
  <2>1. op.pc = "write"
    BY <1>5, KindsApart DEF LostWrite
  <2>2. op.id /\ op.kind \in {"create", "update"}
    BY <2>1, <1>5 DEF IInv, TypeOK, Fits, Calls
  <2>3. op.kind = "update" => state.id
    BY DEF IInv, Fits, Calls
  <2> QED BY <1>1, <1>5, <2>2, <2>3
<1>6. ~state'.id => "error" \in Excuses
  BY <1>5 DEF Excuses
<1>7. lost' = LostTo(state', "error")
  BY DEF LostWrite, Errs
<1>8. state'.id \in BOOLEAN
  BY <1>1 DEF Leaves, Record
<1>9. Explained'
  BY <1>6, <1>7, <1>8, ReturnExplained DEF HandlerLeaves
<1> QED BY <1>1, <1>4, <1>9, ReturnFits

LEMMA LostPutFits ==
  ASSUME IInv, LostPut, HandlerLeaves PROVE IInv'
<1>1. Leaves /\ state'.id = (state.id \/ (op.kind = "create" /\ op.id))
  BY ErrsLeaves DEF LostPut
<1>2. PICK pc \in {"put", "delete", "clear"}, val \in {op.val, 0} :
        PutTaken(pc, val)
  BY DEF LostPut
<1>3. val \in 0..MaxVal /\ kind \in PerNetwork
  BY BoundsAssumption DEF IInv, TypeOK, Operation, LostPut
<1>4. TenantFits /\ op.pc = pc
  BY <1>2, <1>3, PutFits
<1>5. ASSUME ~state'.id, kind \in IdFirst
      PROVE  FALSE
  <2>1. ~state.id
    BY <1>1, <1>5
  <2>2. op.pc = "put" /\ op.kind \in {"create", "update"}
    BY <1>4, <2>1 DEF IInv, TypeOK
  <2>3. op.id /\ op.kind # "update"
    BY <2>1, <2>2, <1>5 DEF IInv, Fits, Calls
  <2> QED BY <1>1, <1>5, <2>2, <2>3
<1>6. ~state'.id => "error" \in Excuses
  BY <1>5 DEF Excuses
<1>7. lost' = LostTo(state', "error")
  BY DEF LostPut, Errs
<1>8. state'.id \in BOOLEAN
  BY <1>1 DEF Leaves, Record
<1>9. Explained'
  BY <1>6, <1>7, <1>8, ReturnExplained DEF HandlerLeaves
<1> QED BY <1>1, <1>4, <1>9, ReturnFits

LEMMA ReadBackFits ==
  ASSUME IInv, ReadBack, HandlerLeaves PROVE IInv'
<1>1. TenantFits /\ UNCHANGED tenant
  BY UnmovedFits DEF ReadBack, HandlerLeaves, Unmoved
<1>2. PICK s \in Record :
        /\ Records(s)
        /\ ~s.id => s = NoRecord /\ ~tenant.there
  <2>1. CASE op.pc \in {"read", "reread"} /\ Records(Shown)
    BY <2>1, ShownIsRecord
  <2>2. CASE ~tenant.there /\ Records(NoRecord)
    BY <2>2, NoRecordIsRecord
  <2> QED BY <2>1, <2>2 DEF ReadBack
<1>3. Leaves /\ state' = s
  BY <1>2, RecordsLeaves DEF HandlerLeaves
<1>4. ~state'.id => ~Ours(tenant')
  BY <1>1, <1>2, <1>3 DEF Ours, IInv, Fits, Quiet
<1>5. state'.id \in BOOLEAN
  BY <1>3 DEF Leaves, Record
<1>6. lost' = LostTo(state', lost)
  BY <1>2, <1>3 DEF Records
<1>7. Explained'
  BY <1>4, <1>5, <1>6, ReturnExplained DEF HandlerLeaves
<1> QED BY <1>1, <1>3, <1>7, ReturnFits

LEMMA ClearedFits ==
  ASSUME IInv, Cleared, HandlerLeaves PROVE IInv'
<1> DEFINE Reason(cause) == cause \in Excuses \/ ~Ours(tenant')
<1>1. ASSUME NEW cause, Clears(cause), TenantFits, Reason(cause) PROVE IInv'
  <2>1. Leaves /\ ~state'.id
    BY <1>1, ClearsLeaves
  <2>2. lost' = LostTo(state', cause)
    BY <1>1 DEF Clears
  <2>3. state'.id \in BOOLEAN
    BY <2>1 DEF Leaves, Record
  <2>4. Explained'
    BY <1>1, <2>2, <2>3, ReturnExplained DEF HandlerLeaves
  <2> QED BY <1>1, <2>1, <2>4, ReturnFits
<1>2. CASE kind \in Policies /\ WriteLands(0) /\ Clears("delete")
  <2>1. TenantFits /\ ~Ours(tenant')
    BY <1>2, WriteFits, KindsApart, BoundsAssumption
  <2> QED BY <1>1, <1>2, <2>1
<1>3. CASE /\ kind \in {"internet_access_status", "split_tunneling"}
           /\ Unmoved /\ Clears("warning")
  <2>1. "warning" \in Excuses
    BY <1>3 DEF Excuses, IdFirst, PrivateDNS
  <2>2. TenantFits
    BY <1>3, UnmovedFits DEF HandlerLeaves
  <2> QED BY <1>1, <1>3, <2>1, <2>2
<1>4. CASE /\ kind \in IdFirst
           /\ Unmoved \/ (PutTaken("clear", 0) /\ kind \in PerNetwork)
           /\ Clears("delete")
  <2>1. "delete" \in Excuses
    BY <1>4 DEF Excuses
  <2>2. CASE Unmoved
    <3>1. TenantFits
      BY <2>2, UnmovedFits DEF HandlerLeaves
    <3> QED BY <1>1, <1>4, <2>1, <3>1
  <2>3. CASE PutTaken("clear", 0) /\ kind \in PerNetwork
    <3>1. 0 \in 0..MaxVal
      BY BoundsAssumption
    <3>2. TenantFits
      BY <2>3, <3>1, PutFits
    <3> QED BY <1>1, <1>4, <2>1, <3>2
  <2> QED BY <1>4, <2>2, <2>3
<1> QED BY <1>2, <1>3, <1>4, KindsApart DEF Cleared

(* A handler goes on: what is left to show about its next call.            *)
LEMMA GoesOnFits ==
  ASSUME IInv, TenantFits, HandlerLeaves, UNCHANGED <<state, outcome, lost>>,
         op' \in Operation, op'.kind = op.kind,
         op'.pc \in {"delete", "clear", "clearing"} =>
           op.kind \in {"replace", "destroy"},
         op'.pc \in {"probe", "look", "write", "reread", "put", "wait"} =>
           op.kind \in {"create", "update"},
         Calls', Awaited', Written',
         ~state.id /\ Ours(tenant') /\ lost = "none" =>
           op.kind = "create" /\ (kind \in IdFirst => op'.id)
  PROVE  IInv'
<1>1. faults' \in 0..MaxFaults /\ edits' \in 0..MaxEdits
  BY BoundsAssumption DEF IInv, TypeOK, HandlerLeaves, Fault, bounds
<1>2. kind' = kind /\ want' = want
  BY DEF HandlerLeaves
<1>3. TypeOK'
  BY <1>1, <1>2 DEF IInv, TypeOK, TenantFits, Calls
<1>4. Blank' /\ Quiet'
  BY DEF IInv, Fits, Blank, TenantFits, Quiet
<1>5. Explained'
  <2>1. Excuses' = Excuses
    BY <1>2 DEF Excuses
  <2>2. Ours(tenant)' <=> Ours(tenant')
    BY DEF Ours
  <2> QED BY <1>2, <2>1, <2>2 DEF IInv, Fits, Explained
<1> QED BY <1>3, <1>4, <1>5 DEF IInv, Fits

LEMMA ProceedsFits ==
  ASSUME IInv, Proceeds, HandlerLeaves PROVE IInv'
<1>1. TenantFits /\ UNCHANGED <<tenant, landed, kind>>
  BY UnmovedFits DEF Proceeds, HandlerLeaves, Unmoved
<1>2. op \in Operation
  BY DEF IInv, TypeOK
<1>3. ~state.id /\ Ours(tenant') /\ lost = "none" =>
        op.kind = "create" /\ (kind \in IdFirst => op.id)
  BY <1>1 DEF IInv, Fits, Explained
<1>4. CASE /\ op.pc = "probe" /\ kind \notin Unprobed
           /\ GoesWith(UpdateCall, kind \in IdFirst)
  <2>1. UpdateCall \in {"write", "look", "put"}
    BY DEF UpdateCall
  <2> DEFINE u == UpdateCall
             i == kind \in IdFirst
  <2>2. op' = [op EXCEPT !.pc = u, !.id = i]
    BY <1>4 DEF GoesWith
  <2>3. u \in {"write", "look", "put"} /\ i \in BOOLEAN
    BY <2>1
  <2> HIDE DEF u, i
  <2>4. /\ op' \in Operation /\ op'.kind = op.kind
        /\ op'.pc = u /\ (op'.id <=> i)
    BY <1>2, <2>2, <2>3 DEF Operation
  <2>5. op.kind \in {"create", "update"}
    BY <1>4 DEF IInv, TypeOK
  <2>6. i <=> kind \in IdFirst
    BY DEF i
  <2>7. Calls' /\ Awaited' /\ Written'
    BY <1>1, <1>4, <2>3, <2>4, <2>5, <2>6
    DEF Calls, Awaited, Written, IInv, Fits, GoesWith
  <2> QED BY <1>1, <1>3, <1>4, <2>3, <2>4, <2>5, <2>6, <2>7, GoesOnFits DEF GoesWith
<1>5. CASE op.pc = "look" /\ kind = "firewall_policy" /\ Goes("put")
  <2>1. /\ op' \in Operation /\ op'.kind = op.kind
        /\ op'.pc = "put" /\ op'.id = op.id
    BY <1>2, <1>5 DEF Goes, Operation
  <2>2. op.kind \in {"create", "update"}
    BY <1>5 DEF IInv, TypeOK
  <2>3. Calls' /\ Awaited' /\ Written'
    BY <1>1, <1>5, <2>1, <2>2 DEF Calls, Awaited, Written, IInv, Fits, Goes
  <2> QED BY <1>1, <1>3, <1>5, <2>1, <2>2, <2>3, GoesOnFits DEF Goes
<1>6. CASE /\ op.pc = "reread" /\ op.left > 0
           /\ op' = [op EXCEPT !.left = @ - 1]
           /\ UNCHANGED <<state, outcome, lost>>
  <2>1. op.left - 1 \in 0..Budget
    BY <1>2, <1>6, BoundsAssumption DEF Operation
  <2>2. /\ op' \in Operation /\ op'.kind = op.kind /\ op'.val = op.val
        /\ op'.pc = "reread" /\ op'.id = op.id
    BY <1>2, <1>6, <2>1 DEF Operation
  <2>3. op.kind \in {"create", "update"}
    BY <1>6 DEF IInv, TypeOK
  <2>4. Calls' /\ Awaited' /\ Written'
    BY <1>1, <1>6, <2>2, <2>3
    DEF Calls, Awaited, Written, IInv, Fits, FailedUnsaid
  <2> QED BY <1>1, <1>3, <1>6, <2>2, <2>3, <2>4, GoesOnFits
<1>7. CASE op.pc = "delete" /\ Goes("clear")
  <2>1. /\ op' \in Operation /\ op'.kind = op.kind
        /\ op'.pc = "clear" /\ op'.id = op.id
    BY <1>2, <1>7 DEF Goes, Operation
  <2>2. op.kind \in {"replace", "destroy"}
    BY <1>7 DEF IInv, TypeOK
  <2>3. Calls' /\ Awaited' /\ Written'
    BY <1>1, <1>7, <2>1, <2>2 DEF Calls, Awaited, Written, IInv, Fits, Goes
  <2> QED BY <1>1, <1>3, <1>7, <2>1, <2>2, <2>3, GoesOnFits DEF Goes
<1>8. CASE /\ op.pc = "wait" /\ tenant.job.done
           /\ isSuccessStatus(tenant.job.code) /\ GoesWith("read", TRUE)
  <2>1. /\ op' \in Operation /\ op'.kind = op.kind /\ op'.val = op.val
        /\ op'.pc = "read" /\ op'.id = TRUE
    BY <1>2, <1>8 DEF GoesWith, Operation
  <2>2. op.kind \in {"create", "update"}
    BY <1>8 DEF IInv, TypeOK
  <2>3. landed = op.val \/ FailedUnsaid
    BY <1>8 DEF IInv, Fits, Awaited, Awaits
  <2>4. Calls' /\ Awaited' /\ Written'
    BY <1>1, <1>8, <2>1, <2>2, <2>3
    DEF Calls, Awaited, Written, IInv, Fits, GoesWith, FailedUnsaid
  <2> QED BY <1>1, <1>3, <1>8, <2>1, <2>2, <2>4, GoesOnFits DEF GoesWith
<1> QED BY <1>4, <1>5, <1>6, <1>7, <1>8 DEF Proceeds

LEMMA WroteFits ==
  ASSUME IInv, Wrote, HandlerLeaves PROVE IInv'
<1>1. op \in Operation /\ op.pc = "write" /\ op.kind \in {"create", "update"}
  BY DEF IInv, TypeOK, Wrote
<1>2. TenantFits /\ landed' = op.val /\ tenant'.job.done
  BY <1>1, WriteFits DEF Wrote, Operation
<1>3. PICK pc \in {"read", "reread"} : GoesWith(pc, TRUE)
  BY DEF Wrote
<1>4. /\ op' \in Operation /\ op'.kind = op.kind /\ op'.val = op.val
      /\ op'.pc = pc /\ op'.id = TRUE
  BY <1>1, <1>3 DEF GoesWith, Operation
<1>5. op.kind = "update" => state.id
  BY DEF IInv, Fits, Calls
<1>6. Calls' /\ Awaited' /\ Written'
  BY <1>1, <1>2, <1>3, <1>4, <1>5 DEF Calls, Awaited, Written, GoesWith
<1> QED BY <1>1, <1>2, <1>3, <1>4, <1>5, <1>6, GoesOnFits DEF GoesWith

LEMMA PutStepFits ==
  ASSUME IInv, Put \/ PutUnasked, HandlerLeaves PROVE IInv'
<1>0. op \in Operation /\ kind \in PerNetwork
  BY KindsApart DEF IInv, TypeOK, Put, PutUnasked
<1>1. CASE PutTaken("put", op.val) /\ (Goes("wait") \/ PutUnasked)
  <2>1. /\ TenantFits /\ landed' = Nothing /\ tenant'.job.done = FALSE
        /\ tenant'.next = op.val /\ op.pc = "put"
    BY <1>0, <1>1, PutFits DEF Operation
  <2>2. /\ op' \in Operation /\ op'.kind = op.kind /\ op'.val = op.val
        /\ \/ op'.pc = "wait" /\ op'.id = op.id
           \/ op'.pc = "read" /\ op'.id = TRUE
    BY <1>0, <1>1 DEF Goes, GoesWith, PutUnasked, Operation
  <2>3. op'.pc = "read" => kind = "firewall_policy"
    BY <1>0, <1>1, <2>2 DEF Goes, PutUnasked, Operation
  <2>4. UNCHANGED <<state, outcome, lost>> /\ UNCHANGED kind
    BY <1>1 DEF Goes, GoesWith, PutUnasked, HandlerLeaves
  <2>5. op.kind \in {"create", "update"}
    BY <2>1 DEF IInv, TypeOK
  <2>6. /\ op.kind = "update" => state.id
        /\ kind \in IdFirst => op.id
    BY <2>1 DEF IInv, Fits, Calls
  <2>7. Calls' /\ Awaited' /\ Written'
    BY <2>1, <2>2, <2>3, <2>4, <2>5, <2>6
    DEF Calls, Awaited, Awaits, Written
  <2> QED BY <2>1, <2>2, <2>4, <2>5, <2>6, <2>7, GoesOnFits
<1>2. ASSUME NEW pc \in {"delete", "clear"}, PutTaken(pc, 0), Goes("clearing")
      PROVE  IInv'
  <2>1. /\ TenantFits /\ landed' = Nothing /\ tenant'.job.done = FALSE
        /\ tenant'.next = 0 /\ op.pc = pc
    <3>1. 0 \in 0..MaxVal
      BY BoundsAssumption
    <3> QED BY <1>0, <1>2, <3>1, PutFits
  <2>2. /\ op' \in Operation /\ op'.kind = op.kind
        /\ op'.pc = "clearing" /\ op'.id = op.id
    BY <1>0, <1>2 DEF Goes, Operation
  <2>3. op.kind \in {"replace", "destroy"} /\ state.id
    BY <2>1 DEF IInv, TypeOK
  <2>4. Calls' /\ Awaited' /\ Written'
    BY <1>2, <2>1, <2>2, <2>3 DEF Goes, Calls, Awaited, Awaits, Written
  <2> QED BY <1>2, <2>1, <2>2, <2>3, <2>4, GoesOnFits DEF Goes
<1> QED BY <1>1, <1>2 DEF Put, PutUnasked

LEMMA HandlerFits == IInv /\ Handler => IInv'
BY HandlerShaped, RefusedFits, LostWriteFits, LostPutFits, ProceedsFits,
   WroteFits, PutStepFits, ReadBackFits, ClearedFits
DEF Shaped, HandlerShape

-----------------------------------------------------------------------------
(* The steps of Terraform core, the backend and the console                *)

LEMMA InitIInv == Init => IInv
<1> SUFFICES ASSUME Init PROVE IInv
  OBVIOUS
<1>1. NoJob \in Job(Codes) /\ NoJob.done = TRUE
  <2>1. Running \in Job(Codes)
    BY DEF Running, Job
  <2> QED BY <2>1 DEF NoJob, Job, Codes
<1>2. /\ tenant \in Setting /\ tenant.there = TRUE /\ tenant.job.done = TRUE
      /\ tenant.author = "console"
  <2>1. tenant \in [there : {TRUE}, doc : 0..MaxVal, author : {"console"},
                    next : {0}, job : {NoJob}]
    BY DEF Init
  <2>2. tenant.there = TRUE /\ tenant.job = NoJob /\ tenant.author = "console"
    BY <2>1
  <2>3. tenant.doc \in 0..MaxVal /\ tenant.next = 0
    BY <2>1
  <2>4. tenant = [there |-> tenant.there, doc |-> tenant.doc,
                  author |-> tenant.author, next |-> tenant.next,
                  job |-> tenant.job]
    BY <2>1
  <2>5. 0 \in 0..MaxVal
    BY BoundsAssumption
  <2>6. tenant \in Setting
    BY <1>1, <2>2, <2>3, <2>4, <2>5 DEF Setting
  <2> QED BY <1>1, <2>2, <2>6
<1>3. op = Idle /\ Idle \in Operation /\ Idle.pc = "idle" /\ Idle.kind = "none"
  BY BoundsAssumption DEF Init, Idle, Operation
<1>4. state = NoRecord /\ NoRecord \in Record /\ ~NoRecord.id
  BY NoRecordIsRecord DEF Init
<1>5. TypeOK
  BY <1>2, <1>3, <1>4, BoundsAssumption DEF Init, TypeOK
<1>6. Fits
  BY <1>2, <1>3, <1>4
  DEF Init, Fits, Calls, Blank, Quiet, Awaited, Written, Explained, Ours
<1> QED BY <1>5, <1>6 DEF IInv

(* Another operation begins over the same record.                          *)
LEMMA BeginFits ==
  ASSUME IInv, NEW o, op' = o, op = Idle,
         \/ Fresh(o, state)
         \/ /\ o \in Operation /\ o.pc = "read" /\ o.id
            /\ \/ o.kind = "plan" /\ state.id
               \/ o.kind = "import" /\ ~state.id,
         UNCHANGED <<kind, tenant, state, want, history>>,
         UNCHANGED bounds \/ Edit
  PROVE  IInv'
<1>1. faults' \in 0..MaxFaults /\ edits' \in 0..MaxEdits
  BY BoundsAssumption DEF IInv, TypeOK, Edit, bounds
<1>2. TypeOK'
  BY <1>1 DEF IInv, TypeOK, Fits, Blank, Fresh, history
<1>3. Calls' /\ Blank' /\ Quiet' /\ Awaited' /\ Written'
  BY DEF IInv, Fits, Calls, Blank, Quiet, Awaited, Written, Fresh
<1>4. Explained'
  BY DEF IInv, Fits, Explained, Excuses, Ours, Idle, history
<1> QED BY <1>2, <1>3, <1>4 DEF IInv, Fits

LEMMA StepUnlikeHandler ==
  [Next]_vars => \/ Apply \/ ApplyStale \/ Untaint \/ EditConfig \/ Crash
                 \/ Import \/ Handler \/ Backend \/ ConsoleWrites
                 \/ ConsoleRemoves \/ UNCHANGED vars
BY DEF Next, Rest, Console

(* The setting changes under the feet of a record and an operation that    *)
(* do not.                                                                 *)
LEMMA MovesFits ==
  ASSUME IInv, UNCHANGED <<kind, state, want, op, outcome, lost>>, TenantFits,
         Fault \/ Edit \/ UNCHANGED bounds,
         Awaited', Written', Ours(tenant') => Ours(tenant)
  PROVE  IInv'
<1>1. faults' \in 0..MaxFaults /\ edits' \in 0..MaxEdits
  BY BoundsAssumption DEF IInv, TypeOK, Fault, Edit, bounds
<1>2. TypeOK'
  BY <1>1 DEF IInv, TypeOK, TenantFits
<1>3. Calls' /\ Blank' /\ Quiet'
  BY DEF IInv, Fits, Calls, Blank, Quiet, TenantFits
<1>4. Explained'
  <2>1. Excuses' = Excuses
    BY DEF Excuses
  <2>2. Ours(tenant)' <=> Ours(tenant')
    BY DEF Ours
  <2> QED BY <2>1, <2>2 DEF IInv, Fits, Explained
<1> QED BY <1>2, <1>3, <1>4 DEF IInv, Fits

(* The change under way ends, with a code and with or without effect.      *)
LEMMA EndsFits ==
  ASSUME IInv, NEW code \in Codes, ~tenant.job.done,
         tenant'.job = [tenant.job EXCEPT !.done = TRUE, !.code = code],
         tenant'.there = tenant.there, tenant'.next = tenant.next,
         tenant' \in Setting,
         \/ tenant'.doc = tenant.next /\ landed' = tenant.next
         \/ /\ tenant'.doc = tenant.doc /\ tenant'.author = tenant.author
            /\ landed' = landed
            /\ ~isSuccessStatus(code) \/ code = 0,
         Fault \/ UNCHANGED bounds,
         UNCHANGED <<kind, state, want, op, outcome, lost>>
  PROVE  IInv'
<1>1. tenant.job \in Job(Codes) /\ tenant.next \in 0..MaxVal
  BY DEF IInv, TypeOK, Setting
<1>2. tenant'.job.done = TRUE /\ tenant'.job.code = code
  BY <1>1 DEF Job
<1>3. kind \notin TenantWide /\ tenant.there
  BY DEF IInv, Fits, Quiet
<1>4. landed' \in 0..MaxVal \cup {Nothing}
  <2>1. landed \in 0..MaxVal \cup {Nothing}
    BY DEF IInv, TypeOK
  <2> QED BY <1>1, <2>1
<1>5. TenantFits
  BY <1>3, <1>4 DEF TenantFits
<1>6. Ours(tenant') => Ours(tenant)
  BY <1>2 DEF Ours
<1>7. Awaited'
  <2>1. ASSUME NEW val, Awaits(val)
        PROVE  isSuccessStatus(code) => landed' = val \/ FailedUnsaid'
    BY <1>2, <2>1 DEF Awaits, FailedUnsaid
  <2>2. /\ op.pc = "wait" => Awaits(op.val)
        /\ op.pc = "clearing" => Awaits(0)
    BY DEF IInv, Fits, Awaited
  <2> QED BY <1>2, <2>1, <2>2 DEF Awaited, Awaits
<1>8. Written'
  <2>1. op.pc \in {"read", "reread"} /\ op.kind \in {"create", "update"} =>
          kind = "firewall_policy" /\ landed = Nothing /\ tenant.next = op.val
    BY DEF IInv, Fits, Written, FailedUnsaid
  <2> QED BY <1>2, <2>1 DEF Written
<1> QED BY <1>5, <1>6, <1>7, <1>8, MovesFits

LEMMA BackendFits == IInv /\ Backend => IInv'
<1> SUFFICES ASSUME IInv, Backend PROVE IInv'
  OBVIOUS
<1>0. /\ tenant \in Setting /\ ~tenant.job.done
      /\ UNCHANGED <<kind, state, want, op, outcome, lost>>
  BY DEF IInv, TypeOK, Backend
<1> DEFINE j(code) == [tenant.job EXCEPT !.done = TRUE, !.code = code]
           took(code) == [there |-> tenant.there, doc |-> tenant.next,
                          author |-> "provider", next |-> tenant.next,
                          job |-> j(code)]
           stayed(code) == [there |-> tenant.there, doc |-> tenant.doc,
                            author |-> tenant.author, next |-> tenant.next,
                            job |-> j(code)]
<1>1. ASSUME NEW code \in Codes PROVE j(code) \in Job(Codes)
  BY <1>0 DEF Setting, Job
<1>2. \A code : Ended(tenant.job, code) = j(code)
  BY <1>0 DEF Ended
<1>3. ASSUME NEW code \in {0, 200}, TakesEffect(code)
      PROVE  IInv'
  <2>1. tenant' = took(code)
    BY <1>0, <1>2, <1>3 DEF TakesEffect, Setting
  <2>2. took(code) \in Setting /\ code \in Codes
    <3>1. code \in Codes
      BY <1>3 DEF Codes
    <3> QED BY <1>0, <1>1, <3>1 DEF Setting
  <2>3. landed' = tenant.next /\ UNCHANGED bounds
    BY <1>3 DEF TakesEffect
  <2> QED BY <1>0, <2>1, <2>2, <2>3, EndsFits
<1>4. ASSUME NEW code \in Codes \ {200}, FailsWith(code)
      PROVE  IInv'
  <2>1. ~isSuccessStatus(code) \/ code = 0
    BY <1>4 DEF Codes, isSuccessStatus
  <2>2. Fault
    BY <1>4 DEF FailsWith
  <2>3. CASE tenant' = [tenant EXCEPT !.job = Ended(@, code)] /\ UNCHANGED landed
    <3>1. tenant' = stayed(code)
      BY <1>0, <1>2, <2>3 DEF Setting
    <3>2. stayed(code) \in Setting
      BY <1>0, <1>1 DEF Setting
    <3>3. /\ tenant'.job = j(code) /\ tenant'.there = tenant.there
          /\ tenant'.next = tenant.next /\ tenant'.doc = tenant.doc
          /\ tenant'.author = tenant.author
      BY <3>1
    <3>4. tenant' \in Setting
      BY <3>1, <3>2
    <3> QED BY <1>0, <2>1, <2>2, <2>3, <3>3, <3>4, <1>4, EndsFits
  <2>4. CASE /\ tenant' = [tenant EXCEPT
                    !.doc = tenant.next, !.author = "provider",
                    !.job = Ended(@, code)]
             /\ landed' = tenant.next
    <3>1. tenant' = took(code)
      BY <1>0, <1>2, <2>4 DEF Setting
    <3>2. took(code) \in Setting
      BY <1>0, <1>1 DEF Setting
    <3>3. /\ tenant'.job = j(code) /\ tenant'.there = tenant.there
          /\ tenant'.next = tenant.next /\ tenant'.doc = tenant.next
      BY <3>1
    <3>4. tenant' \in Setting
      BY <3>1, <3>2
    <3> QED BY <1>0, <2>1, <2>2, <2>4, <3>3, <3>4, <1>4, EndsFits
  <2> QED BY <1>4, <2>3, <2>4 DEF FailsWith
<1> QED BY <1>3, <1>4 DEF Backend

LEMMA ConsoleFits == IInv /\ (ConsoleWrites \/ ConsoleRemoves) => IInv'
<1> SUFFICES ASSUME IInv, ConsoleWrites \/ ConsoleRemoves PROVE IInv'
  OBVIOUS
<1>0. /\ tenant \in Setting /\ tenant.there /\ Edit
      /\ UNCHANGED <<kind, state, want, op, history>>
  BY DEF IInv, TypeOK, ConsoleWrites, ConsoleRemoves
<1>1. CASE ConsoleWrites
  <2>1. PICK val \in 0..MaxVal :
          tenant' = [tenant EXCEPT !.doc = val, !.author = "console"]
    BY <1>1 DEF ConsoleWrites
  <2> DEFINE t == [there |-> tenant.there, doc |-> val, author |-> "console",
                   next |-> tenant.next, job |-> tenant.job]
  <2>2. tenant' = t
    BY <1>0, <2>1 DEF Setting
  <2>3. t \in Setting
    BY <1>0 DEF Setting
  <2>4. TenantFits
    BY <1>0, <2>2, <2>3 DEF TenantFits, history, IInv, TypeOK, Fits, Quiet
  <2>5. Awaited' /\ Written'
    BY <1>0, <2>2
    DEF IInv, Fits, Awaited, Awaits, Written, history, FailedUnsaid
  <2>6. Ours(tenant') => Ours(tenant)
    BY <2>2 DEF Ours
  <2> QED BY <1>0, <2>4, <2>5, <2>6, MovesFits DEF history
<1>2. CASE ConsoleRemoves
  <2> DEFINE j == IF tenant.job.done THEN tenant.job
                  ELSE [tenant.job EXCEPT !.done = TRUE, !.code = 500]
             t == [there |-> FALSE, doc |-> 0, author |-> "console",
                   next |-> tenant.next, job |-> j]
  <2>1. tenant.job \in Job(Codes)
    BY <1>0 DEF Setting
  <2>2. /\ j \in Job(Codes) /\ j.done = TRUE
        /\ IF tenant.job.done THEN j.code = tenant.job.code ELSE j.code = 500
    <3>1. CASE tenant.job.done
      BY <2>1, <3>1 DEF Job
    <3>2. CASE ~tenant.job.done
      BY <2>1, <3>2 DEF Job, Codes
    <3> QED BY <3>1, <3>2
  <2>3. tenant' = t
    BY <1>0, <1>2 DEF ConsoleRemoves, Ended, Setting
  <2> HIDE DEF j
  <2>4. t \in Setting
    BY <1>0, <2>2, BoundsAssumption DEF Setting
  <2>5. kind \notin TenantWide
    BY <1>2, KindsApart DEF ConsoleRemoves
  <2>6. TenantFits
    BY <1>0, <2>2, <2>3, <2>4, <2>5 DEF TenantFits, history, IInv, TypeOK
  <2>7. ~isSuccessStatus(500)
    BY DEF isSuccessStatus
  <2>8. Awaited' /\ Written'
    BY <1>0, <2>2, <2>3, <2>7
    DEF IInv, Fits, Awaited, Awaits, Written, history, FailedUnsaid
  <2>9. ~Ours(tenant')
    BY <2>2, <2>3 DEF Ours
  <2> QED BY <1>0, <2>6, <2>8, <2>9, MovesFits DEF history
<1> QED BY <1>1, <1>2

LEMMA CoreFits ==
  IInv /\ (Apply \/ ApplyStale \/ Untaint \/ EditConfig \/ Crash \/ Import)
    => IInv'
<1> SUFFICES ASSUME IInv,
                    Apply \/ ApplyStale \/ Untaint \/ EditConfig \/ Crash
                      \/ Import
             PROVE  IInv'
  OBVIOUS
<1>0. state \in Record /\ want \in 0..MaxVal /\ (~state.id => state = NoRecord)
  BY DEF IInv, TypeOK, Fits, Blank
<1> DEFINE reads(k, at) == [pc |-> "read", kind |-> k, id |-> TRUE, at |-> at,
                            val |-> 0, left |-> Budget]
<1>1. ASSUME NEW k \in {"plan", "import"}, NEW at \in BOOLEAN
      PROVE  reads(k, at) \in Operation
  BY BoundsAssumption DEF Operation
<1>2. CASE Apply
  <2>1. CASE ~state.id
    BY <1>0, <1>2, <2>1, PlannedIsFresh, BeginFits DEF Apply
  <2>2. CASE state.id
    <3>1. op' = reads("plan", state.at)
      BY <1>2, <2>2 DEF Apply, Idle
    <3>2. state.at \in BOOLEAN
      BY <1>0 DEF Record
    <3>3. reads("plan", state.at) \in Operation
      BY <1>1, <3>2
    <3> QED BY <1>2, <2>2, <3>1, <3>3, BeginFits DEF Apply
  <2> QED BY <2>1, <2>2
<1>3. CASE ApplyStale
  BY <1>0, <1>3, PlannedIsFresh, BeginFits DEF ApplyStale
<1>4. CASE Import
  <2>1. op' = reads("import", TRUE)
    BY <1>4 DEF Import, Idle
  <2>2. reads("import", TRUE) \in Operation
    BY <1>1
  <2> QED BY <1>4, <2>1, <2>2, BeginFits DEF Import
<1>5. CASE Crash
  <2>1. Leaves
    BY <1>0, <1>5, IdleIsFresh DEF Crash, Leaves
  <2>2. TenantFits
    BY <1>5, UnmovedFits DEF Crash, Unmoved
  <2>3. lost' = LostTo(state', "crash") /\ UNCHANGED kind
    BY <1>5 DEF Crash
  <2>4. state'.id \in BOOLEAN
    BY <2>1 DEF Leaves, Record
  <2>5. "crash" \in Excuses
    BY DEF Excuses
  <2>6. Explained'
    BY <2>3, <2>4, <2>5, ReturnExplained
  <2>7. HandlerLeaves
    BY <1>5 DEF Crash, HandlerLeaves
  <2> QED BY <2>1, <2>2, <2>6, <2>7, ReturnFits
<1>6. CASE EditConfig
  <2>1. faults' \in 0..MaxFaults /\ edits' \in 0..MaxEdits /\ want' \in 0..MaxVal
    BY <1>6, BoundsAssumption DEF IInv, TypeOK, EditConfig, Edit
  <2>2. TypeOK'
    BY <1>6, <2>1 DEF IInv, TypeOK, EditConfig, history
  <2>3. Fits'
    BY <1>6 DEF IInv, Fits, Calls, Blank, Quiet, Awaited, Awaits, Written,
       FailedUnsaid,
       Explained, Excuses, Ours, EditConfig, history
  <2> QED BY <2>2, <2>3 DEF IInv
<1>7. CASE Untaint
  <2>1. state.id
    BY <1>0, <1>7 DEF Untaint, NoRecord
  <2>2. state' \in Record /\ state'.id
    BY <1>0, <1>7, <2>1 DEF Untaint, Record
  <2>3. op = Idle /\ UNCHANGED <<kind, tenant, want, op, history, bounds>>
    BY <1>7 DEF Untaint
  <2>4. TypeOK'
    <3>1. op.kind = "none" /\ op.pc = "idle"
      BY <2>3 DEF Idle
    <3> QED BY <2>2, <2>3, <3>1 DEF IInv, TypeOK, history, bounds
  <2>5. Fits'
    BY <2>2, <2>3 DEF IInv, Fits, Calls, Blank, Quiet, Awaited, Awaits,
       Written, FailedUnsaid, Explained, Excuses, Ours, history
  <2> QED BY <2>4, <2>5 DEF IInv
<1> QED BY <1>2, <1>3, <1>4, <1>5, <1>6, <1>7

LEMMA NextIInv == IInv /\ [Next]_vars => IInv'
<1>1. IInv /\ UNCHANGED vars => IInv'
  BY DEF IInv, TypeOK, Fits, Calls, Blank, Quiet, Awaited, Awaits, Written,
     FailedUnsaid,
     Explained, Excuses, Ours, vars
<1> QED BY <1>1, CoreFits, HandlerFits, BackendFits, ConsoleFits,
           StepUnlikeHandler

LEMMA AlwaysIInv == Spec => []IInv
<1> QED BY InitIInv, NextIInv, PTL DEF Spec

-----------------------------------------------------------------------------
(* The types, of all kinds of settings.                                    *)
THEOREM TypeCorrect == Spec => []TypeOK
<1>1. IInv => TypeOK
  BY DEF IInv
<1> QED BY AlwaysIInv, <1>1, PTL

(* A create or an update that succeeds has put its document in force, or   *)
(* the change failed without saying so.                                    *)
THEOREM SuccessCorrect == Spec => SuccessIsInForce
<1> DEFINE A == op.pc \in {"read", "reread"} /\ op.kind \in {"create", "update"}
                  /\ op' = Idle /\ outcome' = "ok"
                => \/ landed = op.val
                   \/ FailedUnsaid
                   \/ kind = "firewall_policy" /\ landed = Nothing
<1>1. IInv => A
  BY DEF IInv, Fits, Written
<1>2. Spec => [][A]_vars
  BY AlwaysIInv, <1>1, PTL DEF Spec
<1> QED BY <1>2 DEF SuccessIsInForce

(* No setting of the provider is lost without a cause the operator knows.  *)
THEOREM LossCorrect == Spec => []NoSilentLoss
<1>1. IInv => NoSilentLoss
  <2> SUFFICES ASSUME IInv, op = Idle, ~state.id, Ours(tenant)
               PROVE  lost \in CASE kind \in IdFirst   -> {"crash", "delete"}
                                  [] kind \notin IdFirst ->
                                       {"crash", "warning", "error"}
    BY DEF NoSilentLoss
  <2>1. op.kind # "create"
    BY DEF Idle
  <2>2. lost \in Excuses
    BY <2>1 DEF IInv, Fits, Explained
  <2>3. CASE kind \in IdFirst
    BY <2>2, <2>3 DEF Excuses
  <2>4. CASE kind \notin IdFirst
    BY <2>2, <2>4 DEF Excuses
  <2> QED BY <2>3, <2>4
<1> QED BY AlwaysIInv, <1>1, PTL

(* Why a record may be dropped: what ForgetsOnlyWhatIsOff says of a step.  *)
Off ==
  \/ ~tenant.there \/ tenant'.doc = 0 \/ landed' = 0
  \/ kind \in {"internet_access_status", "support_options", "split_tunneling"}
       /\ op.pc = "delete"
  \/ FailedUnsaid
  \/ kind = "firewall_policy" /\ landed' = Nothing

LEMMA ClearedIsOff == IInv /\ Cleared => Off
<1> SUFFICES ASSUME IInv, Cleared PROVE Off
  OBVIOUS
<1>1. CASE WriteLands(0)
  BY <1>1 DEF WriteLands, Off
<1>2. CASE /\ op.pc = "delete"
           /\ kind \in {"internet_access_status", "split_tunneling",
                        "support_options"}
  BY <1>2 DEF Off
<1>3. CASE (tenant.there => tenant.doc = 0) /\ Unmoved
  BY <1>3 DEF Off, Unmoved
<1>4. CASE kind = "firewall_policy" /\ PutTaken("clear", 0)
  BY <1>4 DEF Off, PutTaken
<1>5. CASE /\ op.pc = "clearing" /\ tenant.job.done
           /\ isSuccessStatus(tenant.job.code) /\ Unmoved
  BY <1>5 DEF IInv, Fits, Awaited, Awaits, Unmoved, Off
<1> QED BY <1>1, <1>2, <1>3, <1>4, <1>5 DEF Cleared

LEMMA StepForgets ==
  ASSUME IInv, [Next]_vars, state.id, ~state'.id PROVE Off
<1>1. CASE Handler
  <2>1. Shaped
    BY <1>1, HandlerShaped
  <2>2. CASE Refused \/ LostWrite \/ LostPut
    <3>1. Errs
      BY <2>2 DEF Refused, LostWrite, LostPut
    <3> QED BY <3>1, ErrsLeaves
  <2>3. CASE Proceeds \/ Wrote \/ Put \/ PutUnasked
    BY <2>3 DEF Proceeds, Wrote, Put, PutUnasked, Goes, GoesWith
  <2>4. CASE ReadBack
    <3>1. CASE op.pc \in {"read", "reread"} /\ Records(Shown)
      BY <3>1, ShownIsRecord DEF Records
    <3>2. CASE ~tenant.there
      BY <3>2 DEF Off
    <3> QED BY <2>4, <3>1, <3>2 DEF ReadBack
  <2>5. CASE Cleared
    BY <2>5, ClearedIsOff
  <2> QED BY <2>1, <2>2, <2>3, <2>4, <2>5 DEF Shaped, HandlerShape
<1>2. CASE Untaint
  <2>1. state \in Record
    BY DEF IInv, TypeOK
  <2> QED BY <1>2, <2>1 DEF Untaint, Record
<1>3. CASE \/ Apply \/ ApplyStale \/ EditConfig \/ Crash \/ Import \/ Backend
           \/ ConsoleWrites \/ ConsoleRemoves \/ UNCHANGED vars
  BY <1>3 DEF Apply, ApplyStale, EditConfig, Crash, Import, Backend,
     ConsoleWrites, ConsoleRemoves, vars
<1> QED BY <1>1, <1>2, <1>3, StepUnlikeHandler

(* A setting leaves the record only when it is off, with the exceptions    *)
(* the code makes.                                                         *)
THEOREM ForgetsCorrect == Spec => ForgetsOnlyWhatIsOff
<1> DEFINE A == state.id /\ ~state'.id => Off
<1>1. IInv /\ [Next]_vars => A
  BY StepForgets
<1> HIDE DEF A
<1>2. Spec => [][A]_vars
  BY AlwaysIInv, <1>1, PTL DEF Spec
<1> USE DEF A
<1> QED BY <1>2 DEF ForgetsOnlyWhatIsOff, Off
=============================================================================
