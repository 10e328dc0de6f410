------------------------ MODULE AsyncResource_proofs ------------------------
(***************************************************************************)
(* Proofs about the life of an address of a kind with asynchronous calls,  *)
(* for any number of objects, values, faults and edits.                    *)
(***************************************************************************)
EXTENDS AsyncResource, TLAPS

(* The kinds that may be found by name, and those whose create may go on   *)
(* without an id.                                                          *)
Finders ==
  {"wireguard", "openvpn", "ipsec_single", "application",
   "enhanced_static_tunnel", "enhanced_dynamic_tunnel"}

Enhanced == {"enhanced_network", "enhanced_region"}

(* Those that are looked for by name if the answer names nothing, and      *)
(* those whose update may be accepted without a status to ask for.         *)
ElseFinders ==
  {"application", "enhanced_static_tunnel", "enhanced_dynamic_tunnel"}

Unwaited == {"enhanced_static_tunnel", "enhanced_dynamic_tunnel",
             "enhanced_network"}

Creating == {"post", "poll", "find", "adopt"}

(* Which handler makes which call.                                         *)
Calls ==
  /\ op.pc \in Creating => op.kind = "create" /\ op.id = NoId
  /\ op.pc = "read" => op.kind \in {"create", "update", "plan", "import"}
  /\ op.pc \in {"put", "await"} => op.kind = "update"
  /\ op.pc \in {"delete", "confirmed", "wait"} =>
       op.kind \in {"replace", "destroy"}
  /\ op.kind = "create" /\ op.pc # "post" => op.target \in Id
  /\ op.kind # "create" \/ op.pc = "post" => op.target = NoId
  /\ op.pc \in {"find", "adopt"} =>
       type \in IF op.pc = "find" THEN Finders ELSE Enhanced

(* A handler that creates or imports starts from an empty record, and one  *)
(* that reads, updates or deletes works on the id of the record.           *)
Record ==
  /\ op.kind \in {"create", "import"} => state.id = NoId
  /\ op.kind \in {"update", "replace", "destroy", "plan"} =>
       state.id # NoId /\ op.id = state.id

(* Every id that is in use was given out by the tenant.                    *)
Born ==
  \A n \in Id :
    n \in {state.id, op.id, op.target} => tenant[n].phase # "unborn"

(* Nothing under construction is done.                                     *)
Lives ==
  \A n \in Id :
    tenant[n].phase \in {"unborn", "provisioning"} => ~tenant[n].job.done

(* What a create started is Terraform's, is no longer under construction   *)
(* once it is looked for by name, and has its name for itself where names  *)
(* are unique.                                                             *)
Own ==
  op.target \in Id =>
    /\ tenant[op.target].owner = "terraform"
    /\ op.pc = "find" => tenant[op.target].phase # "provisioning"
    /\ op.pc = "find" /\ type \in ElseFinders =>
         ~tenant[op.target].job.resource
    /\ type \in Finders \cap Unique /\ Named(op.target) =>
         \A m \in Id : Named(m) => m = op.target

(* The object a create reads is the one it started, unless that is gone,   *)
(* the operator was told, or its completion did not name it.               *)
Overlooked(n) ==
  /\ Unnamed(n)
  /\ \/ type \in Enhanced
     \/ /\ type = "application"
        /\ \E m \in Id \ {n} : tenant[m].phase # "unborn"

Follows ==
  op.kind = "create" /\ op.pc = "read" =>
    \/ op.id = op.target
    \/ op.target \in reported
    \/ tenant[op.target].phase = "gone"
    \/ Overlooked(op.target)

(* The record, the create under way, or the operator knows each object.    *)
Accounted ==
  \A n \in Id :
    tenant[n].owner = "terraform" /\ Exists(n) =>
      n \in {state.id, op.target} \cup reported \/ Overlooked(n)

(* An operation that ends a wait for a delete with success is a teardown   *)
(* that has taken place.                                                   *)
Waits ==
  op.pc = "wait" /\ tenant[op.id].phase # "gone" =>
    /\ tenant[op.id].phase \in {"deleting", "live"}
    /\ tenant[op.id].job.done => ~isSuccessStatus(tenant[op.id].job.code)
    /\ tenant[op.id].phase = "live" => tenant[op.id].job.done

(* The inductive invariant.                                                *)
IInv ==
  /\ TypeOK /\ Calls /\ Record /\ Born /\ Lives /\ Own
  /\ Follows /\ Accounted /\ Waits
  /\ OnlyToldObjectsAreTakenOver /\ HAMembersAreSpared

-----------------------------------------------------------------------------
(* What any step may do to the tenant: an object keeps its owner once it   *)
(* is born, is never unborn again, never comes back, and keeps what the    *)
(* end of its construction has said of it.                                 *)
Ages(o, w) ==
  /\ o.phase # "unborn" => w.phase # "unborn" /\ w.owner = o.owner
  /\ o.phase = "gone" => w.phase = "gone"
  /\ o.phase \notin {"unborn", "provisioning"} =>
       w.phase # "provisioning" /\ w.job.resource = o.job.resource
  /\ w.phase \in {"unborn", "provisioning"} => ~w.job.done

TenantAges ==
  /\ tenant' \in [Id -> Object]
  /\ \A n \in Id : Ages(tenant[n], tenant'[n])

(* The steps that change one object of the tenant.                         *)
Changes(n) ==
  \/ Begin(n) \/ ConsoleCreates(n) \/ ConsoleDeletes(n)
  \/ Settle(n) \/ FinishUpdate(n) \/ FinishTeardown(n) \/ FailTeardown(n)
  \/ n = op.id /\ (PutTaken \/ DeleteTaken("delete") \/ DeleteTaken("confirmed"))

(* The steps of a handler, by what they do to the record and the           *)
(* operation.                                                              *)
Fails ==
  /\ op.pc \in Creating /\ CreateFailed
  /\ UNCHANGED <<type, unread, tenant, want, told>>

Posts(n) ==
  /\ Begin(n)
  /\ \/ /\ op' = [op EXCEPT !.pc = "poll", !.target = n]
        /\ UNCHANGED <<state, reported>>
     \/ /\ state' = NoRecord /\ op' = Idle
        /\ reported' = reported \cup {n}

Searches ==
  /\ op.pc = "poll"
  /\ \/ /\ op' = [op EXCEPT !.pc = "find"]
        /\ type \in Finders /\ tenant[op.target].job.done
        /\ type \in ElseFinders => ~tenant[op.target].job.resource
     \/ op' = [op EXCEPT !.pc = "adopt"] /\ type \in Enhanced
  /\ UNCHANGED <<type, unread, tenant, want, state, told, reported>>

Learns ==
  /\ op.pc = "poll" /\ tenant[op.target].job.done
  /\ \/ op' = [op EXCEPT !.pc = "read", !.id = op.target]
     \/ /\ op' = [op EXCEPT !.pc = "read", !.id = NoId]
        /\ type \in Enhanced /\ ~tenant[op.target].job.resource
  /\ UNCHANGED <<type, unread, tenant, want, state, told, reported>>

Finds(n) ==
  /\ op' = [op EXCEPT !.pc = "read", !.id = n]
  /\ \/ /\ op.pc = "find" /\ Named(n)
        /\ UNCHANGED <<told, reported>>
     \/ /\ op.pc = "adopt"
        /\ told' = told \cup {n} /\ reported' = reported \cup {op.target}
        /\ Exists(n)
  /\ UNCHANGED <<type, unread, tenant, want, state>>

Misreads ==
  /\ op.pc = "read" /\ ReadErrs
  /\ UNCHANGED <<type, unread, tenant, want, told>>

Puts ==
  /\ PutTaken
  /\ \/ op' = Idle \/ op' = [op EXCEPT !.pc = "await"]
     \/ op' = [op EXCEPT !.pc = "read"] /\ type \in Unwaited
  /\ UNCHANGED state

Reads ==
  /\ op.pc = "await" /\ tenant[op.id].job.done
  /\ isSuccessStatus(tenant[op.id].job.code)
  /\ op' = [op EXCEPT !.pc = "read"]
  /\ UNCHANGED <<type, unread, tenant, want, state, history>>

Stays ==
  /\ op.pc \in {"put", "await", "delete", "confirmed", "wait"}
  /\ op' = Idle
  /\ UNCHANGED <<type, unread, tenant, want, state, history>>

Deletes ==
  /\ \/ DeleteTaken("delete") /\ type # "ipsec_single"
     \/ DeleteTaken("confirmed")
  /\ op' = Idle \/ op' = [op EXCEPT !.pc = "wait"]
  /\ UNCHANGED state

Forgets ==
  /\ op.pc \in {"delete", "confirmed", "wait"}
  /\ \/ /\ \/ ~Exists(op.id)
           \/ /\ op.pc = "wait" /\ tenant[op.id].job.done
              /\ isSuccessStatus(tenant[op.id].job.code)
        /\ UNCHANGED reported
     \/ /\ type = "application"
        /\ reported' = reported \cup {op.id}
  /\ DeleteReturns(NoId)
  /\ UNCHANGED <<type, unread, tenant, want, told>>

HandlerShape ==
  \/ Fails \/ Searches \/ Learns
  \/ \E n \in Id : Posts(n) \/ Finds(n)
  \/ ReadFinds \/ ReadClears \/ Misreads
  \/ Puts \/ Reads \/ Stays
  \/ Deletes \/ ConfirmedNotHA \/ Forgets

(* A wait that ends well was for an operation that is done and succeeded.  *)
LEMMA PollOk ==
  ASSUME NEW n \in Id, PollEnds(n, Plain("ok"))
  PROVE  tenant[n].job.done /\ isSuccessStatus(tenant[n].job.code)
BY DEF PollEnds, Justified, Plain, asyncFailedError

(* Every step of a create has one of five shapes.                          *)
LEMMA CreateShapes ==
  ASSUME TypeOK, CreateHandler
  PROVE  \/ Fails \/ Searches \/ Learns
         \/ \E n \in Id : Posts(n) \/ Finds(n)
<1>1. ASSUME Post PROVE Fails \/ \E n \in Id : Posts(n)
  <2>1. CASE PostAccepted
    BY <2>1 DEF PostAccepted, Posts
  <2>2. CASE PostReplyLost
    BY <2>2 DEF PostReplyLost, Posts
  <2>3. CASE PostRefused
    BY <2>3 DEF PostRefused, Fails, Creating
  <2> QED BY <1>1, <2>1, <2>2, <2>3 DEF Post
<1>2. ASSUME CreateNotDone \/ NoResourceIsAnError \/ ConflictFails
      PROVE  Fails
  BY <1>2 DEF CreateNotDone, NoResourceIsAnError, ConflictFails, Fails,
     Creating, PollEnds
<1>3. ASSUME CreateDone
      PROVE  /\ op.pc = "poll" /\ tenant[op.target].job.done
             /\ UNCHANGED <<type, unread, tenant, want, state, told>>
  BY <1>3, PollOk DEF CreateDone, TypeOK, PollEnds
<1>4. ASSUME IdFromResource PROVE Learns
  BY <1>3, <1>4 DEF IdFromResource, Learns
<1>5. ASSUME NoResourceIsRead, type \in Enhanced PROVE Learns
  BY <1>3, <1>5 DEF NoResourceIsRead, NamesItsObject, Learns
<1>6. ASSUME ThenFind, type \in Finders,
             type \in ElseFinders => ~NamesItsObject
      PROVE  Searches
  BY <1>3, <1>6 DEF ThenFind, Searches, NamesItsObject
<1>7. ASSUME FindByName PROVE Fails \/ \E n \in Id : Finds(n)
  BY <1>7 DEF FindByName, Fails, Finds, Creating
<1>8. ASSUME ThenAdopt, type \in Enhanced PROVE Fails \/ Searches
  BY <1>8 DEF ThenAdopt, PollEnds, Fails, Searches, Creating
<1>9. ASSUME AdoptByName PROVE Fails \/ \E n \in Id : Finds(n)
  BY <1>9 DEF AdoptByName, Fails, Finds, Creating
<1>10. CASE resourceGatewayCreate \/ resourceIpsecRedundantCreate
  BY <1>1, <1>2, <1>4, <1>10
  DEF resourceGatewayCreate, resourceIpsecRedundantCreate, CreateFromResource
<1>11. CASE \/ resourceWireguardCreate \/ resourceOpenvpnCreate
            \/ resourceIpsecSingleCreate
  BY <1>1, <1>2, <1>6, <1>7, <1>11
  DEF resourceWireguardCreate, resourceOpenvpnCreate,
      resourceIpsecSingleCreate, CreateThenFind, Finders, ElseFinders
<1>12. CASE \/ resourceApplicationCreate \/ resourceEnhancedStaticTunnelCreate
            \/ resourceEnhancedDynamicTunnelCreate
  BY <1>1, <1>2, <1>4, <1>6, <1>7, <1>12
  DEF resourceApplicationCreate, resourceEnhancedStaticTunnelCreate,
      resourceEnhancedDynamicTunnelCreate, CreateElseFind, NoResourceFinds,
      Finders, ElseFinders
<1>13. CASE resourceEnhancedNetworkCreate \/ resourceEnhancedRegionCreate
  BY <1>1, <1>2, <1>4, <1>5, <1>8, <1>9, <1>13
  DEF resourceEnhancedNetworkCreate, resourceEnhancedRegionCreate, Enhanced
<1> QED BY <1>10, <1>11, <1>12, <1>13 DEF CreateHandler

(* A read finds the object, clears the record, or fails.                   *)
LEMMA ReadShapes ==
  ASSUME ReadHandler
  PROVE  ReadFinds \/ ReadClears \/ Misreads
<1>1. ASSUME ReadTolerant \/ ReadStrict \/ ReadUnlessHA
      PROVE  ReadFinds \/ ReadClears \/ Misreads
  BY <1>1 DEF ReadTolerant, ReadStrict, ReadUnlessHA, HARefused,
     GoneIsAnError, ReadFails, Misreads
<1>2. ReadTolerant \/ ReadStrict \/ ReadUnlessHA
  BY DEF ReadHandler, resourceGatewayRead, resourceWireguardRead,
     resourceOpenvpnRead, resourceIpsecSingleRead,
     resourceIpsecRedundantRead, resourceApplicationRead,
     resourceEnhancedStaticTunnelRead, resourceEnhancedDynamicTunnelRead,
     resourceEnhancedNetworkRead, resourceEnhancedRegionRead
<1> QED BY <1>1, <1>2

(* An update sends its PUT, goes on to the read, or leaves all as it was.  *)
LEMMA UpdateShapes ==
  ASSUME TypeOK, UpdateHandler
  PROVE  Puts \/ Reads \/ Stays
<1>1. ASSUME Put PROVE Puts \/ Stays
  BY <1>1 DEF Put, PutReplyLost, PutRefused, UpdateFailed, Puts, Stays
<1>2. ASSUME PutAccepted \/ (PutUnwaited /\ type \in Unwaited) PROVE Puts
  BY <1>2 DEF PutAccepted, PutUnwaited, Puts
<1>3. ASSUME UpdateDone PROVE Reads
  <2>1. tenant[op.id].job.done /\ isSuccessStatus(tenant[op.id].job.code)
    BY <1>3, PollOk DEF UpdateDone, TypeOK
  <2> QED BY <1>3, <2>1 DEF UpdateDone, PollEnds, Reads
<1>4. ASSUME UpdateNotDone PROVE Stays
  BY <1>4 DEF UpdateNotDone, UpdateFailed, PollEnds, Stays
<1>5. UpdateWaited \/ Put \/ (PutUnwaited /\ type \in Unwaited)
  BY DEF UpdateHandler, resourceWireguardUpdate, resourceOpenvpnUpdate,
     resourceIpsecSingleUpdate, resourceIpsecRedundantUpdate,
     resourceEnhancedStaticTunnelUpdate, resourceEnhancedDynamicTunnelUpdate,
     resourceEnhancedNetworkUpdate, resourceEnhancedRegionUpdate, Unwaited
<1> QED BY <1>1, <1>2, <1>3, <1>4, <1>5 DEF UpdateWaited

(* A delete sends its DELETE, confirms, forgets, or leaves all as it was.  *)
LEMMA DeleteShapes ==
  ASSUME TypeOK, DeleteHandler
  PROVE  Deletes \/ ConfirmedNotHA \/ Forgets \/ Stays
<1>1. op.pc \in {"delete", "confirmed", "wait"} => op.id \in Id
  BY DEF TypeOK
<1>2. ASSUME op.pc \in {"delete", "confirmed", "wait"}, DeleteReturns(op.id),
             UNCHANGED <<type, unread, tenant, want, history>>
      PROVE  Stays
  BY <1>1, <1>2, NoIdAssumption DEF DeleteReturns, Stays
<1>3. ASSUME NEW pc \in {"delete", "confirmed"}, DeleteCall(pc),
             type = "ipsec_single" => pc = "confirmed"
      PROVE  Deletes \/ Stays
  <2>1. CASE DeleteAccepted(pc)
    BY <1>3, <2>1 DEF DeleteAccepted, Deletes
  <2>2. CASE DeleteReplyLost(pc)
    <3>1. op' = Idle /\ UNCHANGED state
      BY <1>1, <2>2, NoIdAssumption
      DEF DeleteReplyLost, DeleteTaken, DeleteReturns
    <3> QED BY <1>3, <2>2, <3>1 DEF DeleteReplyLost, Deletes
  <2>3. CASE DeleteRefused(pc)
    BY <1>2, <2>3 DEF DeleteRefused
  <2> QED BY <1>3, <2>1, <2>2, <2>3 DEF DeleteCall
<1>4. ASSUME WaitDone PROVE Forgets
  <2>1. op.pc = "wait" /\ DeleteReturns(NoId) /\ UNCHANGED history
    BY <1>4 DEF WaitDone
  <2>2. UNCHANGED <<type, unread, tenant, want>>
    BY <1>4 DEF WaitDone, PollEnds
  <2>3. tenant[op.id].job.done /\ isSuccessStatus(tenant[op.id].job.code)
    BY <1>1, <1>4, PollOk DEF WaitDone
  <2> QED BY <2>1, <2>2, <2>3 DEF Forgets, history
<1>5. ASSUME WaitFailed PROVE Stays
  BY <1>2, <1>5 DEF WaitFailed, PollEnds
<1>6. ASSUME NEW pc \in {"delete", "confirmed"}, DeleteWaited(pc),
             type = "ipsec_single" => pc = "confirmed"
      PROVE  Deletes \/ Forgets \/ Stays
  <2>1. ASSUME DeleteOfGone(pc, op.id) PROVE Stays
    BY <1>2, <2>1 DEF DeleteOfGone
  <2> QED BY <1>3, <1>4, <1>5, <1>6, <2>1 DEF DeleteWaited
<1>7. ASSUME resourceGatewayDelete PROVE Deletes \/ Forgets \/ Stays
  <2>1. ASSUME NEW pc \in {"delete", "wait"}, DeleteOfGone(pc, NoId)
        PROVE  Forgets
    BY <2>1 DEF DeleteOfGone, Forgets, history
  <2>2. ASSUME WaitGivesUp PROVE Stays
    BY <1>2, <2>2 DEF WaitGivesUp
  <2> QED
    BY <1>3, <1>7, <2>1, <2>2 DEF resourceGatewayDelete, WaitSeesGone
<1>8. ASSUME resourceIpsecSingleDelete
      PROVE  Deletes \/ ConfirmedNotHA \/ Forgets \/ Stays
  <2>1. ASSUME NotConfirmed PROVE Stays
    BY <1>2, <2>1 DEF NotConfirmed
  <2> QED BY <1>6, <1>8, <2>1 DEF resourceIpsecSingleDelete
<1>9. ASSUME resourceApplicationDelete PROVE Forgets
  BY <1>9 DEF resourceApplicationDelete, Forgets
<1>10. \/ resourceGatewayDelete \/ resourceIpsecSingleDelete
       \/ resourceApplicationDelete
       \/ DeleteWaited("delete") /\ type # "ipsec_single"
  BY DEF DeleteHandler, resourceWireguardDelete, resourceOpenvpnDelete,
     resourceIpsecRedundantDelete, resourceEnhancedStaticTunnelDelete,
     resourceEnhancedDynamicTunnelDelete, resourceEnhancedNetworkDelete,
     resourceEnhancedRegionDelete
<1> QED BY <1>6, <1>7, <1>8, <1>9, <1>10

(* A step is one of a handler, of Terraform core, or of the surroundings,  *)
(* which leave the record, the operation and the history alone.            *)
Surroundings ==
  /\ \/ EditConfig
     \/ \E n \in Id :
          \/ Settle(n) \/ FinishUpdate(n) \/ FinishTeardown(n)
          \/ FailTeardown(n) \/ ConsoleCreates(n) \/ ConsoleDeletes(n)
  /\ UNCHANGED <<type, unread, state, op, told, reported>>

(* Every step is one of these.                                             *)
LEMMA Steps ==
  ASSUME TypeOK, [Next]_vars
  PROVE  \/ UNCHANGED vars \/ Surroundings
         \/ Apply \/ ApplyStale \/ Crash
         \/ \E n \in Id : Import(n)
         \/ HandlerShape
<1>1. ASSUME Handler PROVE HandlerShape
  BY <1>1, CreateShapes, ReadShapes, UpdateShapes, DeleteShapes
  DEF Handler, HandlerShape
<1>2. ASSUME EditConfig PROVE Surroundings
  BY <1>2 DEF EditConfig, Surroundings, history
<1>3. ASSUME NEW n \in Id,
             \/ Settle(n) \/ FinishUpdate(n) \/ FinishTeardown(n)
             \/ FailTeardown(n) \/ ConsoleCreates(n) \/ ConsoleDeletes(n)
      PROVE  Surroundings
  <2>1. UNCHANGED <<type, unread, state, op, told, reported>>
    BY <1>3 DEF Settle, FinishUpdate, FinishTeardown, FailTeardown,
       ConsoleCreates, ConsoleDeletes, history
  <2> QED BY <1>3, <2>1 DEF Surroundings
<1> QED BY <1>1, <1>2, <1>3 DEF Next, Rest, Backend, Console

-----------------------------------------------------------------------------
(* The tenant                                                              *)

(* Ending and restarting a job keep what it is and what it has named.      *)
LEMMA JobsAreJobs ==
  ASSUME NEW j \in Job(Codes), NEW code \in Codes
  PROVE  /\ Ended(j, code) \in Job(Codes) /\ Ended(j, code).done
         /\ Ended(j, code).resource = j.resource
         /\ Restarted(j) \in Job(Codes) /\ ~Restarted(j).done
         /\ Restarted(j).resource = j.resource
<1>1. j.resource \in BOOLEAN
  BY DEF Job
<1>2. /\ Restarted(j) \in Job(Codes)
      /\ ~Restarted(j).done
      /\ Restarted(j).resource = j.resource
  BY <1>1 DEF Restarted, Job
<1>3. Restarted(j) \in Job(Codes) /\ ~Restarted(j).done
        /\ Restarted(j).resource = j.resource
  BY <1>2
<1>4. CASE j.done
  BY <1>3, <1>4 DEF Ended
<1>5. CASE ~j.done
  <2>1. Ended(j, code) = [done |-> TRUE, code |-> code, resource |-> j.resource]
    BY <1>5 DEF Ended, Job
  <2> QED BY <1>1, <1>3, <2>1 DEF Job
<1> QED BY <1>4, <1>5

(* The parts of an object have their types.                                *)
LEMMA ObjectParts ==
  ASSUME TypeOK, NEW n \in Id
  PROVE  /\ tenant[n] \in Object
         /\ tenant[n].job \in Job(Codes)
         /\ tenant[n].phase \in Phase
         /\ tenant[n].val \in Int /\ tenant[n].next \in Int
BY DEF TypeOK, Object

(* One object changes, in a way that is an ageing of it.                   *)
LEMMA OneAges ==
  ASSUME TypeOK, Lives, NEW n \in Id, NEW w \in Object,
         tenant' = [tenant EXCEPT ![n] = w], Ages(tenant[n], w)
  PROVE  TenantAges
BY DEF TypeOK, TenantAges, Ages, Lives

(* Whoever changes an object, it ages.                                     *)
LEMMA ChangeAges ==
  ASSUME TypeOK, Lives, NEW n \in Id, Changes(n)
  PROVE  TenantAges
<1> DEFINE o == tenant[n]
<1>0. /\ o \in Object /\ o.job \in Job(Codes) /\ o.phase \in Phase
      /\ o.val \in Int /\ o.next \in Int
      /\ o.phase \in {"unborn", "provisioning"} => ~o.job.done
  BY ObjectParts DEF Lives
<1>1. CASE Begin(n)
  <2> DEFINE w == [o EXCEPT !.phase = "provisioning", !.owner = "terraform",
                            !.val = op.val, !.next = op.val]
  <2>1. tenant' = [tenant EXCEPT ![n] = w] /\ o.phase = "unborn"
    BY <1>1 DEF Begin, TypeOK
  <2>2. op.val \in Int
    BY BoundsAssumption DEF TypeOK, Operation
  <2>3. w \in Object /\ w.phase = "provisioning" /\ w.job = o.job
    BY <1>0, <2>2 DEF Object, Phase
  <2>4. Ages(o, w)
    BY <1>0, <2>1, <2>3 DEF Ages
  <2> HIDE DEF w
  <2> QED BY <2>1, <2>3, <2>4, OneAges
<1>2. CASE ConsoleCreates(n)
  <2>1. PICK who \in {"other", "pair"} :
          tenant' = [tenant EXCEPT ![n] =
            [phase |-> "live", owner |-> who, val |-> 1, next |-> 1,
             job |-> Ended(Running, 200)]]
    BY <1>2 DEF ConsoleCreates
  <2> DEFINE w == [phase |-> "live", owner |-> who, val |-> 1, next |-> 1,
                   job |-> Ended(Running, 200)]
  <2>2. Running \in Job(Codes)
    BY DEF Running, Job
  <2>3. w \in Object
    BY <2>2, JobsAreJobs DEF Object, Phase, Codes
  <2>4. o.phase = "unborn" /\ w.phase = "live"
    BY <1>2 DEF ConsoleCreates
  <2>5. Ages(o, w)
    BY <2>4 DEF Ages
  <2> HIDE DEF w
  <2> QED BY <2>1, <2>3, <2>5, OneAges DEF w
<1>3. CASE ConsoleDeletes(n) \/ FinishTeardown(n) \/ FailTeardown(n)
  <2>1. PICK p \in {"deleting", "gone", "live"}, c \in Codes :
          /\ tenant' = [tenant EXCEPT ![n].phase = p,
                                      ![n].job = Ended(@, c)]
          /\ o.phase \in {"live", "deleting"}
    BY <1>3 DEF ConsoleDeletes, FinishTeardown, FailTeardown, Codes
  <2> DEFINE w == [o EXCEPT !.phase = p, !.job = Ended(o.job, c)]
  <2>2. tenant' = [tenant EXCEPT ![n] = w]
    BY <2>1 DEF TypeOK
  <2>3. Ended(o.job, c) \in Job(Codes)
          /\ Ended(o.job, c).resource = o.job.resource
    BY <1>0, JobsAreJobs
  <2>4. w \in Object /\ w.phase = p /\ w.owner = o.owner
          /\ w.job = Ended(o.job, c)
    BY <1>0, <2>3 DEF Object, Phase
  <2>5. Ages(o, w)
    BY <2>1, <2>3, <2>4 DEF Ages
  <2> HIDE DEF w
  <2> QED BY <2>2, <2>4, <2>5, OneAges
<1>4. CASE Settle(n)
  <2>1. PICK code \in Codes, p \in {"live", "gone"}, named \in BOOLEAN :
          SettleAs(n, code, p, named)
    BY <1>4 DEF Settle
  <2> DEFINE j == [done |-> TRUE, code |-> code, resource |-> named]
             w == [o EXCEPT !.phase = p, !.job = j]
  <2>2. tenant' = [tenant EXCEPT ![n] = w] /\ o.phase = "provisioning"
    <3>1. tenant' = [tenant EXCEPT ![n].phase = p, ![n].job = j]
      BY <2>1 DEF SettleAs
    <3> HIDE DEF j
    <3> QED BY <1>4, <3>1 DEF Settle, TypeOK
  <2>3. j \in Job(Codes)
    BY DEF Job
  <2>4. w \in Object /\ w.phase = p /\ w.owner = o.owner
    BY <1>0, <2>3 DEF Object, Phase
  <2>5. Ages(o, w)
    BY <2>2, <2>4 DEF Ages
  <2> HIDE DEF w
  <2> QED BY <2>2, <2>4, <2>5, OneAges
<1>5. CASE FinishUpdate(n)
  <2>1. PICK c \in {200, 500}, v \in {tenant[n].val, tenant[n].next} :
          UpdateEndsAs(n, c, v)
    BY <1>5 DEF FinishUpdate
  <2> DEFINE w == [o EXCEPT !.val = v, !.next = v, !.job = Ended(o.job, c)]
  <2>2. tenant' = [tenant EXCEPT ![n] = w] /\ o.phase = "live"
    <3>1. tenant' = [tenant EXCEPT ![n].val = v, ![n].next = v,
                                   ![n].job = Ended(@, c)]
      BY <2>1 DEF UpdateEndsAs
    <3> QED BY <1>5, <3>1 DEF FinishUpdate, TypeOK
  <2>3. Ended(o.job, c) \in Job(Codes)
          /\ Ended(o.job, c).resource = o.job.resource
    BY <1>0, JobsAreJobs DEF Codes
  <2>4. w \in Object /\ w.phase = o.phase /\ w.owner = o.owner
          /\ w.job = Ended(o.job, c)
    BY <1>0, <2>3 DEF Object
  <2>5. Ages(o, w)
    BY <2>2, <2>3, <2>4 DEF Ages
  <2> HIDE DEF w
  <2> QED BY <2>2, <2>4, <2>5, OneAges
<1>6. CASE n = op.id /\ PutTaken
  <2> DEFINE w == [o EXCEPT !.next = Sent, !.job = Restarted(o.job)]
  <2>1. tenant' = [tenant EXCEPT ![n] = w] /\ o.phase = "live"
    BY <1>6 DEF PutTaken, TypeOK
  <2>2. Sent \in Int
    <3>1. op.val \in Int /\ state.val \in Int /\ tenant[op.id].val \in Int
      BY <1>0, <1>6, BoundsAssumption DEF TypeOK, Operation
    <3> QED BY <3>1 DEF Sent
  <2>3. Restarted(o.job) \in Job(Codes)
          /\ Restarted(o.job).resource = o.job.resource
    BY <1>0, JobsAreJobs DEF Codes
  <2>4. w \in Object /\ w.phase = o.phase /\ w.owner = o.owner
          /\ w.job = Restarted(o.job)
    BY <1>0, <2>2, <2>3 DEF Object
  <2>5. Ages(o, w)
    BY <2>1, <2>3, <2>4 DEF Ages
  <2> HIDE DEF w
  <2> QED BY <2>1, <2>4, <2>5, OneAges
<1>7. CASE /\ n = op.id
           /\ DeleteTaken("delete") \/ DeleteTaken("confirmed")
  <2> DEFINE w == [o EXCEPT !.phase = "deleting", !.job = Restarted(o.job)]
  <2>1. tenant' = [tenant EXCEPT ![n] = w]
          /\ o.phase \in {"provisioning", "live", "deleting"}
    BY <1>7 DEF DeleteTaken, Exists, TypeOK
  <2>3. Restarted(o.job) \in Job(Codes)
          /\ Restarted(o.job).resource = o.job.resource
    BY <1>0, JobsAreJobs DEF Codes
  <2>4. w \in Object /\ w.phase = "deleting" /\ w.owner = o.owner
          /\ w.job = Restarted(o.job)
    BY <1>0, <2>3 DEF Object, Phase
  <2>5. Ages(o, w)
    BY <2>1, <2>3, <2>4 DEF Ages
  <2> HIDE DEF w
  <2> QED BY <2>1, <2>4, <2>5, OneAges
<1> QED BY <1>1, <1>2, <1>3, <1>4, <1>5, <1>6, <1>7 DEF Changes

(* The objects but one stay as they are, and that one changes.             *)
LEMMA TenantSteps ==
  ASSUME TypeOK, [Next]_vars
  PROVE  UNCHANGED tenant \/ \E n \in Id : Changes(n)
<1>1. CASE UNCHANGED vars \/ Apply \/ ApplyStale \/ Crash
  BY <1>1 DEF vars, Apply, ApplyStale, Crash
<1>2. CASE Surroundings
  BY <1>2 DEF Surroundings, EditConfig, Changes
<1>3. CASE \E n \in Id : Import(n)
  BY <1>3 DEF Import
<1>4. CASE HandlerShape
  <2>1. CASE \E n \in Id : Posts(n)
    BY <2>1 DEF Posts, Changes
  <2>2. CASE Puts
    <3>1. op.id \in Id /\ PutTaken
      BY <2>2 DEF Puts, PutTaken, TypeOK
    <3> QED BY <3>1 DEF Changes
  <2>3. CASE Deletes
    <3>1. op.id \in Id /\ (DeleteTaken("delete") \/ DeleteTaken("confirmed"))
      BY <2>3 DEF Deletes, DeleteTaken, Exists
    <3> QED BY <3>1 DEF Changes
  <2>4. CASE \/ Fails \/ Searches \/ Learns \/ \E n \in Id : Finds(n)
             \/ ReadFinds \/ ReadClears \/ Misreads \/ Reads \/ Stays
             \/ ConfirmedNotHA \/ Forgets
    BY <2>4 DEF Fails, Searches, Learns, Finds, ReadFinds, ReadClears,
       Misreads, Reads, Stays, ConfirmedNotHA, Forgets
  <2> QED BY <1>4, <2>1, <2>2, <2>3, <2>4 DEF HandlerShape
<1> QED BY <1>1, <1>2, <1>3, <1>4, Steps

(* No step brings an object back, or gives it another owner.               *)
LEMMA NextAges == TypeOK /\ Lives /\ [Next]_vars => TenantAges
<1> SUFFICES ASSUME TypeOK, Lives, [Next]_vars PROVE TenantAges
  OBVIOUS
<1>1. CASE UNCHANGED tenant
  BY <1>1 DEF TypeOK, TenantAges, Ages, Lives
<1> QED BY <1>1, ChangeAges, TenantSteps

-----------------------------------------------------------------------------
(* What the steps make of the record and of the operation.                 *)

Records == [id : Id \cup {NoId}, tainted : BOOLEAN, val : Int]

(* No operation is an operation, about nothing.                            *)
LEMMA IdleIsOperation ==
  /\ Idle \in Operation
  /\ Idle.pc = "idle" /\ Idle.kind = "none"
  /\ Idle.id = NoId /\ Idle.target = NoId
BY BoundsAssumption DEF Idle, Operation

(* No record is a record, of nothing.                                      *)
LEMMA NoRecordIsRecord == NoRecord \in Records /\ NoRecord.id = NoId
BY DEF NoRecord, Records

(* A plan is nothing to do, a create, a delete or an update.               *)
LEMMA PlannedIs ==
  ASSUME NEW s \in Records, want \in 0..MaxVal
  PROVE  /\ Planned(s) \in Operation
         /\ Planned(s).target = NoId
         /\ \/ Planned(s) = Idle
            \/ /\ Planned(s).pc = "post" /\ Planned(s).kind = "create"
               /\ Planned(s).id = NoId /\ s.id = NoId
            \/ /\ Planned(s).pc = "delete"
               /\ Planned(s).kind \in {"replace", "destroy"}
               /\ Planned(s).id = s.id /\ s.id \in Id
            \/ /\ Planned(s).pc = "put" /\ Planned(s).kind = "update"
               /\ Planned(s).id = s.id /\ s.id \in Id
<1>1. s.id \in Id \cup {NoId}
  BY DEF Records
<1>2. CASE s.id = NoId /\ want # 0
  <2>1. Planned(s) = [Idle EXCEPT !.pc = "post", !.kind = "create", !.val = want]
    BY <1>2 DEF Planned
  <2> QED BY <1>2, <2>1 DEF Idle, Operation
<1>3. CASE s.id # NoId /\ want = 0
  <2>1. Planned(s) = [Idle EXCEPT !.pc = "delete", !.kind = "destroy",
                                  !.id = s.id]
    BY <1>3 DEF Planned
  <2> QED BY <1>1, <1>3, <2>1, BoundsAssumption DEF Idle, Operation
<1>4. CASE s.id # NoId /\ want # 0 /\ Replaced(s)
  <2>1. Planned(s) = [Idle EXCEPT !.pc = "delete", !.kind = "replace",
                                  !.id = s.id]
    BY <1>4 DEF Planned
  <2>2. Planned(s) = [pc |-> "delete", kind |-> "replace", id |-> s.id,
                      target |-> NoId, val |-> 0]
    BY <2>1 DEF Idle
  <2>3. s.id \in Id
    BY <1>1, <1>4
  <2>4. Planned(s) \in Operation
    BY <2>2, <2>3, BoundsAssumption DEF Operation
  <2> QED BY <2>2, <2>3, <2>4
<1>5. CASE s.id # NoId /\ want # 0 /\ ~Replaced(s) /\ Differs(s)
  <2>1. Planned(s) = [Idle EXCEPT !.pc = "put", !.kind = "update",
                                  !.id = s.id, !.val = want]
    BY <1>5 DEF Planned
  <2> QED BY <1>1, <1>5, <2>1 DEF Idle, Operation
<1>6. CASE \/ s.id = NoId /\ want = 0
           \/ s.id # NoId /\ want # 0 /\ ~Replaced(s) /\ ~Differs(s)
  <2>1. Planned(s) = Idle
    BY <1>6 DEF Planned
  <2> QED BY <2>1, IdleIsOperation
<1>7. \/ s.id = NoId /\ want # 0
      \/ s.id # NoId /\ want = 0
      \/ s.id # NoId /\ want # 0 /\ Replaced(s)
      \/ s.id # NoId /\ want # 0 /\ ~Replaced(s) /\ Differs(s)
      \/ s.id = NoId /\ want = 0
      \/ s.id # NoId /\ want # 0 /\ ~Replaced(s) /\ ~Differs(s)
  OBVIOUS
<1> HIDE DEF Replaced, Differs
<1> QED BY <1>2, <1>3, <1>4, <1>5, <1>6, <1>7

(* An object is given a value that is an integer.                          *)
LEMMA ShownIsInt ==
  ASSUME TypeOK, Calls, op.pc = "read", op.id \in Id
  PROVE  Shown \in Int
<1>1. /\ state.val \in Int
      /\ op.val \in Int
      /\ tenant[op.id].val \in Int
      /\ unread \in BOOLEAN
      /\ op.kind \in {"create", "update", "plan", "import"}
  BY ObjectParts, BoundsAssumption
  DEF TypeOK, Operation, Readability, Calls
<1> QED BY <1>1 DEF Shown

-----------------------------------------------------------------------------
(* The bounds                                                              *)

(* A step counts as a fault, as an edit, or not at all.                    *)
LEMMA BoundsSteps ==
  ASSUME [Next]_vars
  PROVE  Fault \/ Edit \/ UNCHANGED bounds
<1> DEFINE B == Fault \/ Edit \/ UNCHANGED bounds
<1>1. ASSUME NEW n, NEW v, PollEnds(n, v) PROVE B
  BY <1>1 DEF PollEnds
<1>2. ASSUME CreateHandler PROVE B
  <2>1. ASSUME Post \/ FindByName \/ AdoptByName PROVE B
    BY <2>1 DEF Post, PostAccepted, PostReplyLost, PostRefused, FindByName,
       AdoptByName
  <2>2. ASSUME \/ CreateNotDone \/ ConflictFails \/ ThenAdopt
               \/ NoResourceIsAnError
        PROVE  B
    BY <1>1, <2>2
    DEF CreateNotDone, ConflictFails, ThenAdopt, NoResourceIsAnError
  <2>3. ASSUME CreateDone PROVE B
    BY <1>1, <2>3 DEF CreateDone
  <2>4. \/ Post \/ FindByName \/ AdoptByName
        \/ CreateNotDone \/ ConflictFails \/ ThenAdopt \/ NoResourceIsAnError
        \/ CreateDone
    BY <1>2 DEF CreateHandler, resourceGatewayCreate,
       resourceWireguardCreate, resourceOpenvpnCreate,
       resourceIpsecSingleCreate, resourceIpsecRedundantCreate,
       resourceApplicationCreate, resourceEnhancedStaticTunnelCreate,
       resourceEnhancedDynamicTunnelCreate, resourceEnhancedNetworkCreate,
       resourceEnhancedRegionCreate, CreateFromResource, CreateThenFind,
       CreateElseFind, IdFromResource, NoResourceIsRead, NoResourceFinds,
       ThenFind
  <2> QED BY <2>1, <2>2, <2>3, <2>4
<1>3. ASSUME ReadHandler PROVE B
  <2>1. ReadTolerant \/ ReadStrict \/ ReadUnlessHA
    BY <1>3 DEF ReadHandler, resourceGatewayRead, resourceWireguardRead,
       resourceOpenvpnRead, resourceIpsecSingleRead,
       resourceIpsecRedundantRead, resourceApplicationRead,
       resourceEnhancedStaticTunnelRead, resourceEnhancedDynamicTunnelRead,
       resourceEnhancedNetworkRead, resourceEnhancedRegionRead
  <2> QED
    BY <2>1 DEF ReadTolerant, ReadStrict, ReadUnlessHA, ReadClears,
       GoneIsAnError, ReadFails, HARefused
<1>4. ASSUME UpdateHandler PROVE B
  <2>1. ASSUME Put \/ PutAccepted \/ PutUnwaited PROVE B
    BY <2>1 DEF Put, PutReplyLost, PutRefused, PutAccepted, PutUnwaited
  <2>2. ASSUME UpdateDone \/ UpdateNotDone PROVE B
    BY <1>1, <2>2 DEF UpdateDone, UpdateNotDone
  <2>3. UpdateWaited \/ Put \/ PutUnwaited
    BY <1>4 DEF UpdateHandler, resourceWireguardUpdate,
       resourceOpenvpnUpdate, resourceIpsecSingleUpdate,
       resourceIpsecRedundantUpdate, resourceEnhancedStaticTunnelUpdate,
       resourceEnhancedDynamicTunnelUpdate, resourceEnhancedNetworkUpdate,
       resourceEnhancedRegionUpdate
  <2> QED BY <2>1, <2>2, <2>3 DEF UpdateWaited
<1>5. ASSUME DeleteHandler PROVE B
  <2>1. ASSUME NEW pc, DeleteCall(pc) PROVE B
    BY <2>1 DEF DeleteCall, DeleteAccepted, DeleteReplyLost, DeleteRefused
  <2>2. ASSUME NEW pc, NEW id, DeleteOfGone(pc, id) PROVE B
    BY <2>2 DEF DeleteOfGone
  <2>3. ASSUME WaitDone \/ WaitFailed PROVE B
    BY <1>1, <2>3 DEF WaitDone, WaitFailed
  <2>4. ASSUME NEW pc, DeleteWaited(pc) PROVE B
    BY <2>1, <2>2, <2>3, <2>4 DEF DeleteWaited
  <2>5. ASSUME \/ WaitGivesUp \/ ConfirmedNotHA \/ NotConfirmed
               \/ resourceApplicationDelete
        PROVE  B
    BY <2>5 DEF WaitGivesUp, ConfirmedNotHA, NotConfirmed,
       resourceApplicationDelete
  <2>6. ASSUME resourceGatewayDelete PROVE B
    BY <2>1, <2>2, <2>5, <2>6 DEF resourceGatewayDelete, WaitSeesGone
  <2>7. ASSUME resourceIpsecSingleDelete PROVE B
    BY <2>4, <2>5, <2>7 DEF resourceIpsecSingleDelete
  <2>8. \/ resourceGatewayDelete \/ resourceIpsecSingleDelete
        \/ resourceApplicationDelete \/ DeleteWaited("delete")
    BY <1>5 DEF DeleteHandler, resourceWireguardDelete,
       resourceOpenvpnDelete, resourceIpsecRedundantDelete,
       resourceEnhancedStaticTunnelDelete,
       resourceEnhancedDynamicTunnelDelete, resourceEnhancedNetworkDelete,
       resourceEnhancedRegionDelete
  <2> QED BY <2>4, <2>5, <2>6, <2>7, <2>8
<1>6. ASSUME Backend \/ Console PROVE B
  <2>1. ASSUME NEW n, Settle(n) \/ FinishUpdate(n) PROVE B
    BY <2>1 DEF Settle, SettleAs, FinishUpdate, UpdateEndsAs
  <2>2. ASSUME NEW n, FinishTeardown(n) \/ FailTeardown(n) PROVE B
    BY <2>2 DEF FinishTeardown, FailTeardown
  <2>3. ASSUME NEW n, ConsoleCreates(n) \/ ConsoleDeletes(n) PROVE B
    BY <2>3 DEF ConsoleCreates, ConsoleDeletes
  <2> QED BY <1>6, <2>1, <2>2, <2>3 DEF Backend, Console
<1>7. ASSUME \/ Apply \/ ApplyStale \/ EditConfig \/ Crash
             \/ \E n \in Id : Import(n)
             \/ UNCHANGED vars
      PROVE  B
  BY <1>7 DEF Apply, ApplyStale, EditConfig, Crash, Import, vars, bounds
<1> QED
  BY <1>2, <1>3, <1>4, <1>5, <1>6, <1>7 DEF Next, Rest, Handler

(* The bounds are kept.                                                    *)
LEMMA BoundsHold ==
  ASSUME TypeOK, [Next]_vars
  PROVE  faults' \in 0..MaxFaults /\ edits' \in 0..MaxEdits
<1>1. /\ faults \in 0..MaxFaults /\ edits \in 0..MaxEdits
      /\ MaxFaults \in Nat /\ MaxEdits \in Nat
  BY BoundsAssumption DEF TypeOK
<1> QED BY <1>1, BoundsSteps DEF Fault, Edit, bounds

-----------------------------------------------------------------------------
(* The record and the operation                                            *)

Fits == state \in Records /\ op \in Operation /\ Calls /\ Record

(* What the invariant says of the record and the operation.                *)
LEMMA TypeFits == TypeOK /\ Calls /\ Record => Fits /\ want \in 0..MaxVal
BY DEF TypeOK, Fits, Records

(* The kind of the address is for good, and the configuration is edited    *)
(* within its range.                                                       *)
LEMMA Settings ==
  ASSUME TypeOK, Calls, [Next]_vars
  PROVE  /\ type' = type /\ unread' = unread /\ want' \in 0..MaxVal
         /\ told' \subseteq Id /\ reported' \subseteq Id
<1>1. /\ want \in 0..MaxVal /\ told \subseteq Id /\ reported \subseteq Id
      /\ op.target \in Id \cup {NoId}
  BY DEF TypeOK, Operation
<1>2. CASE UNCHANGED vars \/ Apply \/ ApplyStale \/ Crash
  BY <1>1, <1>2 DEF vars, Apply, ApplyStale, Crash, history
<1>3. CASE Surroundings
  BY <1>1, <1>3 DEF Surroundings, EditConfig, Settle, FinishUpdate,
     FinishTeardown, FailTeardown, ConsoleCreates, ConsoleDeletes
<1>4. CASE \E n \in Id : Import(n)
  BY <1>1, <1>4 DEF Import
<1>5. CASE HandlerShape
  <2>1. CASE Fails \/ Searches \/ Learns
    BY <1>1, <2>1 DEF Fails, CreateFailed, Searches, Learns
  <2>2. CASE \E n \in Id : Posts(n) \/ Finds(n)
    <3>1. op.pc = "adopt" => op.target \in Id
      BY DEF TypeOK
    <3>2. CASE \E n \in Id : Posts(n)
      BY <1>1, <3>2 DEF Posts, Begin
    <3>3. CASE \E n \in Id : Finds(n)
      BY <1>1, <3>1, <3>3 DEF Finds
    <3> QED BY <2>2, <3>2, <3>3
  <2>3. CASE ReadFinds \/ ReadClears
    BY <1>1, <2>3 DEF ReadFinds, ReadClears, ReadSucceeds
  <2>4. CASE Puts \/ Reads \/ Stays
    BY <1>1, <2>4 DEF Puts, PutTaken, Reads, Stays, history
  <2>5. CASE Deletes \/ ConfirmedNotHA
    BY <1>1, <2>5 DEF Deletes, DeleteTaken, ConfirmedNotHA, history
  <2>6. CASE Misreads
    BY <1>1, <2>6 DEF Misreads, ReadErrs, Calls, Creating
  <2>7. CASE Forgets
    BY <1>1, <2>7 DEF Forgets, TypeOK
  <2> QED
    BY <1>5, <2>1, <2>2, <2>3, <2>4, <2>5, <2>6, <2>7 DEF HandlerShape
<1> QED BY <1>2, <1>3, <1>4, <1>5, Steps


(* An operation that is over fits any record.                              *)
LEMMA IdleFits ==
  ASSUME type' = type, op' = Idle, state' \in Records
  PROVE  Fits'
BY IdleIsOperation DEF Fits, Calls, Record, Creating

(* What is planned from a record fits it.                                  *)
LEMMA PlannedFits ==
  ASSUME TypeOK, type' = type, op' = Planned(state'), state' \in Records
  PROVE  Fits'
<1>1. want \in 0..MaxVal
  BY DEF TypeOK
<1> DEFINE s == state'
           p == Planned(s)
<1>2. /\ p \in Operation /\ p.target = NoId
      /\ \/ p = Idle
         \/ p.pc = "post" /\ p.kind = "create" /\ p.id = NoId /\ s.id = NoId
         \/ /\ p.pc = "delete" /\ p.kind \in {"replace", "destroy"}
            /\ p.id = s.id /\ s.id \in Id
         \/ p.pc = "put" /\ p.kind = "update" /\ p.id = s.id /\ s.id \in Id
  BY <1>1, PlannedIs
<1>3. op' = p
  OBVIOUS
<1>4. CASE p = Idle
  BY <1>3, <1>4, IdleFits
<1>5. CASE /\ p.pc = "post" /\ p.kind = "create"
           /\ p.id = NoId /\ s.id = NoId
  <2>1. /\ op' \in Operation /\ op'.pc = "post" /\ op'.kind = "create"
        /\ op'.id = NoId /\ op'.target = NoId /\ state'.id = NoId
    BY <1>2, <1>3, <1>5
  <2> QED BY <2>1 DEF Fits, Calls, Record, Creating
<1>6. CASE /\ \/ p.pc = "delete" /\ p.kind \in {"replace", "destroy"}
              \/ p.pc = "put" /\ p.kind = "update"
           /\ p.id = s.id /\ s.id \in Id
  <2>1. /\ op' \in Operation /\ op'.target = NoId
        /\ \/ op'.pc = "delete" /\ op'.kind \in {"replace", "destroy"}
           \/ op'.pc = "put" /\ op'.kind = "update"
        /\ op'.id = state'.id /\ state'.id # NoId
    BY <1>2, <1>3, <1>6, NoIdAssumption
  <2> QED BY <2>1 DEF Fits, Calls, Record, Creating
<1> HIDE DEF p, s
<1> QED BY <1>2, <1>4, <1>5, <1>6


(* A create goes on to its next call, with the object it has started and   *)
(* the id it has learnt.                                                   *)
LEMMA CreateFits ==
  ASSUME TypeOK, Calls, Record, type' = type, state' = state,
         op.pc \in Creating,
         NEW pc \in {"poll", "find", "adopt", "read"},
         NEW id \in Id \cup {NoId}, NEW target \in Id,
         pc # "read" => id = NoId,
         pc = "find" => type \in Finders, pc = "adopt" => type \in Enhanced,
         op' \in Operation, op'.pc = pc, op'.kind = op.kind,
         op'.id = id, op'.target = target
  PROVE  Fits'
<1>1. op.kind = "create" /\ state.id = NoId /\ state \in Records
  BY TypeFits DEF Calls, Record, Fits
<1>2. Calls'
  BY <1>1 DEF Calls, Creating
<1>3. Record'
  BY <1>1 DEF Record
<1> QED BY <1>1, <1>2, <1>3 DEF Fits

(* An update, a delete or a refresh goes on to its next call.              *)
LEMMA CallFits ==
  ASSUME TypeOK, Calls, Record, type' = type, state' = state,
         NEW pc \in {"await", "read", "confirmed", "wait"},
         op' = [op EXCEPT !.pc = pc],
         \/ op.kind = "update" /\ pc \in {"await", "read"}
         \/ op.kind \in {"replace", "destroy"} /\ pc \in {"confirmed", "wait"}
  PROVE  Fits'
<1>1. Fits
  BY TypeFits
<1>2. /\ op' \in Operation /\ op'.pc = pc /\ op'.kind = op.kind
      /\ op'.id = op.id /\ op'.target = op.target
  BY <1>1 DEF Fits, Operation
<1>3. Calls'
  BY <1>2 DEF Calls, Creating
<1>4. Record'
  BY <1>2 DEF Record
<1> QED BY <1>1, <1>2, <1>3, <1>4 DEF Fits

(* A handler leaves an operation that fits the record.                     *)
LEMMA HandlerFits ==
  ASSUME TypeOK, Calls, Record, type' = type, HandlerShape
  PROVE  Fits'
<1>0. Fits /\ want \in 0..MaxVal /\ NoRecord \in Records
  BY TypeFits, NoRecordIsRecord
<1>1. ASSUME Fails \/ Stays PROVE Fits'
  <2>1. op' = Idle /\ state' \in Records
    BY <1>0, <1>1 DEF Fails, CreateFailed, Stays, Fits
  <2> QED BY <2>1, IdleFits
<1>2. ASSUME NEW n \in Id, Posts(n) PROVE Fits'
  <2>1. CASE op' = [op EXCEPT !.pc = "poll", !.target = n] /\ UNCHANGED state
    <3>1. op.pc = "post" /\ op.kind = "create" /\ op.id = NoId
      BY <1>2 DEF Posts, Begin, Calls, Creating
    <3>2. /\ op' \in Operation /\ op'.pc = "poll" /\ op'.kind = op.kind
          /\ op'.id = NoId /\ op'.target = n
      BY <1>0, <2>1, <3>1 DEF Fits, Operation
    <3> QED BY <2>1, <3>1, <3>2, CreateFits DEF Creating
  <2>2. CASE state' = NoRecord /\ op' = Idle
    BY <1>0, <2>2, IdleFits
  <2> QED BY <1>2, <2>1, <2>2 DEF Posts
<1>3. ASSUME Searches PROVE Fits'
  <2>1. PICK pc \in {"find", "adopt"} :
          /\ op' = [op EXCEPT !.pc = pc] /\ state' = state
          /\ pc = "find" => type \in Finders
          /\ pc = "adopt" => type \in Enhanced
    BY <1>3 DEF Searches
  <2>2. /\ op.pc = "poll" /\ op.kind = "create" /\ op.id = NoId
        /\ op.target \in Id
    BY <1>3 DEF Searches, Calls, Creating
  <2>3. /\ op' \in Operation /\ op'.pc = pc /\ op'.kind = op.kind
        /\ op'.id = NoId /\ op'.target = op.target
    BY <1>0, <2>1, <2>2 DEF Fits, Operation
  <2> QED BY <2>1, <2>2, <2>3, CreateFits DEF Creating
<1>4. ASSUME NEW id \in Id \cup {NoId}, op.pc \in {"poll", "find", "adopt"},
             op' = [op EXCEPT !.pc = "read", !.id = id], state' = state
      PROVE  Fits'
  <2>1. op.kind = "create" /\ op.target \in Id
    BY <1>4 DEF Calls, Creating
  <2>2. /\ op' \in Operation /\ op'.pc = "read" /\ op'.kind = op.kind
        /\ op'.id = id /\ op'.target = op.target
    BY <1>0, <1>4 DEF Fits, Operation
  <2> QED BY <1>4, <2>1, <2>2, CreateFits DEF Creating
<1>5. ASSUME Learns PROVE Fits'
  <2>1. op.target \in Id
    BY <1>5 DEF Learns, TypeOK
  <2> QED BY <1>4, <1>5, <2>1 DEF Learns
<1>6. ASSUME NEW n \in Id, Finds(n) PROVE Fits'
  BY <1>4, <1>6 DEF Finds
<1>7. ASSUME NEW s \in Records, ReadSucceeds(s) PROVE Fits'
  <2>1. CASE op' = Idle
    <3>1. state' \in Records
      BY <1>0, <1>7 DEF ReadSucceeds, Fits
    <3> QED BY <2>1, <3>1, IdleFits
  <2>2. CASE op.kind = "plan" /\ op' = Planned(s)
    <3>1. state' = s
      BY <1>7, <2>2 DEF ReadSucceeds
    <3> QED BY <2>2, <3>1, PlannedFits
  <2> QED BY <1>7, <2>1, <2>2 DEF ReadSucceeds
<1>8. ASSUME ReadFinds PROVE Fits'
  <2> DEFINE s == [id |-> op.id, val |-> Shown,
                   tainted |-> op.kind = "plan" /\ state.tainted]
  <2>1. op.id \in Id /\ Shown \in Int /\ state.tainted \in BOOLEAN
    BY <1>8, ShownIsInt DEF ReadFinds, Exists, TypeOK
  <2>2. s \in Records
    BY <2>1 DEF Records
  <2>3. ReadSucceeds(s)
    BY <1>8 DEF ReadFinds
  <2> HIDE DEF s
  <2> QED BY <1>7, <2>2, <2>3
<1>9. ASSUME ReadClears PROVE Fits'
  BY <1>0, <1>7, <1>9 DEF ReadClears
<1>10. ASSUME Misreads PROVE Fits'
  <2>1. op.id \in Id \cup {NoId} /\ state \in Records
    BY <1>0 DEF Fits, Operation
  <2>2. op' = Idle /\ state' \in Records
    BY <1>10, <2>1 DEF Misreads, ReadErrs, Records
  <2> QED BY <2>2, IdleFits
<1>11. ASSUME Puts \/ Reads PROVE Fits'
  <2>1. op.kind = "update" /\ state' = state
    BY <1>11 DEF Puts, PutTaken, Reads, Calls
  <2>2. CASE op' = Idle
    BY <1>0, <2>1, <2>2, IdleFits DEF Fits
  <2>3. CASE \E pc \in {"await", "read"} : op' = [op EXCEPT !.pc = pc]
    BY <2>1, <2>3, CallFits
  <2> QED BY <1>11, <2>2, <2>3 DEF Puts, Reads
<1>12. ASSUME Deletes \/ ConfirmedNotHA PROVE Fits'
  <2>1. op.kind \in {"replace", "destroy"} /\ state' = state
    BY <1>12 DEF Deletes, DeleteTaken, ConfirmedNotHA, Calls
  <2>2. CASE op' = Idle
    BY <1>0, <2>1, <2>2, IdleFits DEF Fits
  <2>3. CASE \E pc \in {"confirmed", "wait"} : op' = [op EXCEPT !.pc = pc]
    BY <2>1, <2>3, CallFits
  <2> QED BY <1>12, <2>2, <2>3 DEF Deletes, ConfirmedNotHA
<1>13. ASSUME Forgets PROVE Fits'
  <2>1. state' = NoRecord /\ (op' = Idle \/ op' = Planned(NoRecord))
    BY <1>13 DEF Forgets, DeleteReturns
  <2> QED BY <1>0, <2>1, IdleFits, PlannedFits
<1> QED
  BY <1>1, <1>2, <1>3, <1>5, <1>6, <1>8, <1>9, <1>10, <1>11, <1>12, <1>13
  DEF HandlerShape


(* And so does every step.                                                 *)
LEMMA NextFits ==
  ASSUME TypeOK, Calls, Record, [Next]_vars
  PROVE  Fits'
<1>0. Fits /\ type' = type
  BY TypeFits, Settings
<1>1. CASE UNCHANGED <<state, op>>
  BY <1>0, <1>1 DEF Fits, Calls, Record
<1>2. CASE Apply
  <2>1. state' = state /\ state \in Records
    BY <1>0, <1>2 DEF Apply, Fits
  <2>2. CASE state.id = NoId
    <3>1. op' = Planned(state)
      BY <1>2, <2>2 DEF Apply
    <3> QED BY <1>0, <2>1, <3>1, PlannedFits
  <2>3. CASE state.id # NoId
    <3>1. op' = [Idle EXCEPT !.pc = "read", !.kind = "plan", !.id = state.id]
      BY <1>2, <2>3 DEF Apply
    <3>2. state.id \in Id
      BY <2>1, <2>3 DEF Records
    <3>3. op' = [pc |-> "read", kind |-> "plan", id |-> state.id,
                 target |-> NoId, val |-> 0]
      BY <3>1 DEF Idle
    <3>4. /\ op' \in Operation /\ op'.pc = "read" /\ op'.kind = "plan"
          /\ op'.id = state.id /\ op'.target = NoId
      BY <3>2, <3>3, BoundsAssumption DEF Operation
    <3> QED BY <2>1, <2>3, <3>4 DEF Fits, Calls, Record, Creating
  <2> QED BY <2>2, <2>3
<1>3. CASE ApplyStale
  <2>1. state' = state /\ state \in Records /\ op' = Planned(state)
    BY <1>0, <1>3 DEF ApplyStale, Fits
  <2> QED BY <1>0, <2>1, PlannedFits
<1>4. CASE Crash
  <2>1. state' = state /\ state \in Records /\ op' = Idle
    BY <1>0, <1>4 DEF Crash, Fits
  <2> QED BY <1>0, <2>1, IdleFits
<1>5. ASSUME NEW n \in Id, Import(n) PROVE Fits'
  <2>1. /\ state' = state /\ state \in Records /\ state.id = NoId
        /\ op' = [Idle EXCEPT !.pc = "read", !.kind = "import", !.id = n]
    BY <1>0, <1>5 DEF Import, Fits
  <2>2. op' = [pc |-> "read", kind |-> "import", id |-> n,
               target |-> NoId, val |-> 0]
    BY <2>1 DEF Idle
  <2>3. /\ op' \in Operation /\ op'.pc = "read" /\ op'.kind = "import"
        /\ op'.target = NoId
    BY <2>2, BoundsAssumption DEF Operation
  <2> QED BY <2>1, <2>3 DEF Fits, Calls, Record, Creating
<1>6. CASE HandlerShape
  BY <1>0, <1>6, HandlerFits
<1> QED
  BY <1>1, <1>2, <1>3, <1>4, <1>5, <1>6, Steps DEF vars, Surroundings

(* Types are kept.                                                         *)
LEMMA NextTypeOK ==
  TypeOK /\ Calls /\ Record /\ Lives /\ [Next]_vars
    => TypeOK' /\ Calls' /\ Record'
<1> SUFFICES ASSUME TypeOK, Calls, Record, Lives, [Next]_vars
             PROVE  TypeOK' /\ Calls' /\ Record'
  OBVIOUS
<1>1. Fits'
  BY NextFits
<1>2. Calls' /\ Record'
  BY <1>1 DEF Fits
<1>3. state' \in Records /\ op' \in Operation
  BY <1>1 DEF Fits
<1>4. op'.id \in Id \cup {NoId} /\ op'.target \in Id \cup {NoId}
  BY <1>3 DEF Operation
<1>5. op'.pc \in {"poll", "find", "adopt"} => op'.target \in Id
  BY <1>2 DEF Calls, Creating
<1>6. op'.pc \in {"put", "await", "delete", "confirmed", "wait"} =>
        op'.id \in Id /\ op'.id = state'.id
  BY <1>2, <1>4 DEF Calls, Record
<1>7. /\ type' \in ResourceType /\ Readability' /\ want' \in 0..MaxVal
      /\ told' \subseteq Id /\ reported' \subseteq Id
  BY Settings DEF TypeOK, Readability
<1>8. tenant' \in [Id -> Object]
  BY NextAges DEF TenantAges
<1>9. faults' \in 0..MaxFaults /\ edits' \in 0..MaxEdits
  BY BoundsHold
<1>10. TypeOK'
  BY <1>3, <1>5, <1>6, <1>7, <1>8, <1>9 DEF TypeOK, Records
<1> QED BY <1>2, <1>10

(* Nothing under construction is done, after any step.                     *)
LEMMA NextLives == TypeOK /\ Lives /\ [Next]_vars => Lives'
BY NextAges DEF TenantAges, Ages, Lives

(* The invariant holds at the start.                                       *)
LEMMA InitIInv == Init => IInv
<1> SUFFICES ASSUME Init PROVE IInv
  OBVIOUS
<1>1. Unborn \in Object /\ Unborn.phase = "unborn" /\ Unborn.owner = "none"
        /\ ~Unborn.job.done
  BY DEF Unborn, Object, Phase, Job, Running
<1>2. op.pc = "idle" /\ op.kind = "none" /\ op.id = NoId /\ op.target = NoId
        /\ op \in Operation
  BY IdleIsOperation DEF Init
<1>3. state.id = NoId /\ state \in Records
  BY NoRecordIsRecord DEF Init
<1>4. \A n \in Id : tenant[n] = Unborn
  BY DEF Init
<1>5. TypeOK
  BY <1>1, <1>2, <1>3, BoundsAssumption DEF Init, TypeOK, Records
<1>6. Calls /\ Record /\ Follows /\ Waits
  BY <1>2 DEF Calls, Record, Follows, Waits, Creating
<1>7. Born /\ Own
  BY <1>2, <1>3, NoIdAssumption DEF Born, Own
<1>8. Lives /\ Accounted
  BY <1>1, <1>4 DEF Lives, Accounted
<1>9. OnlyToldObjectsAreTakenOver /\ HAMembersAreSpared
  BY <1>2, <1>3 DEF OnlyToldObjectsAreTakenOver, HAMembersAreSpared
<1> QED BY <1>5, <1>6, <1>7, <1>8, <1>9 DEF IInv

(* Types hold: the record, the operation and every object keep their shape, *)
(* and each call of a handler is made with the ids that it needs.           *)
THEOREM TypeCorrect == Spec => []TypeOK
<1> DEFINE TInv == TypeOK /\ Calls /\ Record /\ Lives
<1>1. Init => TInv
  BY InitIInv DEF IInv
<1>2. TInv /\ [Next]_vars => TInv'
  BY NextTypeOK, NextLives
<1>3. TInv => TypeOK
  OBVIOUS
<1> HIDE DEF TInv
<1> QED BY <1>1, <1>2, <1>3, PTL DEF Spec


-----------------------------------------------------------------------------
(* Which ids come up, and what is never forgotten                          *)

(* What the operator was told stays told.                                  *)
LEMMA Grows ==
  ASSUME TypeOK, [Next]_vars
  PROVE  told \subseteq told' /\ reported \subseteq reported'
<1>1. CASE UNCHANGED vars \/ Apply \/ ApplyStale \/ Crash
  BY <1>1 DEF vars, Apply, ApplyStale, Crash, history
<1>2. CASE Surroundings \/ \E n \in Id : Import(n)
  BY <1>2 DEF Surroundings, Import
<1>3. CASE HandlerShape
  <2>1. CASE Fails \/ Searches \/ Learns \/ \E n \in Id : Posts(n) \/ Finds(n)
    BY <2>1 DEF Fails, CreateFailed, Searches, Learns, Posts, Begin, Finds
  <2>2. CASE ReadFinds \/ ReadClears \/ Misreads
    BY <2>2 DEF ReadFinds, ReadClears, ReadSucceeds, Misreads, ReadErrs
  <2>3. CASE Puts \/ Reads \/ Stays
    BY <2>3 DEF Puts, PutTaken, Reads, Stays, history
  <2>4. CASE Deletes \/ ConfirmedNotHA \/ Forgets
    BY <2>4 DEF Deletes, DeleteTaken, ConfirmedNotHA, Forgets, history
  <2> QED BY <1>3, <2>1, <2>2, <2>3, <2>4 DEF HandlerShape
<1> QED BY <1>1, <1>2, <1>3, Steps

(* A plan is about the record alone, and starts no read.                   *)
LEMMA PlannedIds ==
  ASSUME NEW s \in Records, want \in 0..MaxVal
  PROVE  /\ Planned(s).id \in {NoId, s.id} /\ Planned(s).target = NoId
         /\ Planned(s).pc \in {"idle", "post", "delete", "put"}
BY PlannedIs, IdleIsOperation

(* What a step makes of the operation.                                     *)
Goes ==
  \/ op' = op
  \/ op' = Idle
  \/ \E s \in Records :
       op' = Planned(s) /\ s.id \in {state.id, op.id, NoId}
  \/ op'.pc = "read" /\ op'.kind = "plan" /\ op'.id = state.id
       /\ op'.target = NoId
  \/ \E n \in Id : Import(n) \/ Finds(n)
  \/ \E n \in Id : Posts(n) /\ op'.target = n /\ op'.pc = "poll"
                            /\ op'.id = op.id
  \/ Searches \/ Learns \/ ConfirmedNotHA
  \/ Puts /\ \E pc \in {"await", "read"} : op' = [op EXCEPT !.pc = pc]
  \/ Reads
  \/ Deletes /\ op' = [op EXCEPT !.pc = "wait"]

(* Every step makes one of these of the operation.                         *)
LEMMA Going ==
  ASSUME TypeOK, Calls, Record, [Next]_vars
  PROVE  Goes
<1>0. op \in Operation /\ state \in Records /\ NoRecord \in Records
        /\ NoRecord.id = NoId
  BY NoRecordIsRecord DEF TypeOK, Records
<1>1. CASE UNCHANGED vars \/ Surroundings
  BY <1>1 DEF Goes, vars, Surroundings
<1>2. CASE Apply
  <2>1. CASE state.id = NoId
    BY <1>0, <1>2, <2>1 DEF Apply, Goes
  <2>2. CASE state.id # NoId
    <3>1. op' = [Idle EXCEPT !.pc = "read", !.kind = "plan", !.id = state.id]
      BY <1>2, <2>2 DEF Apply
    <3>2. op'.pc = "read" /\ op'.kind = "plan" /\ op'.id = state.id
            /\ op'.target = NoId
      BY <3>1 DEF Idle
    <3> QED BY <3>2 DEF Goes
  <2> QED BY <2>1, <2>2
<1>3. CASE ApplyStale \/ Crash
  BY <1>0, <1>3 DEF ApplyStale, Crash, Goes
<1>4. CASE \E n \in Id : Import(n)
  BY <1>4 DEF Goes
<1>5. CASE HandlerShape
  <2>1. CASE Fails \/ Misreads \/ Stays
    BY <2>1 DEF Fails, CreateFailed, Misreads, ReadErrs, Stays, Goes
  <2>2. CASE Searches \/ Learns \/ Reads \/ ConfirmedNotHA
    BY <2>2 DEF Goes
  <2>3. ASSUME NEW n \in Id, Posts(n) PROVE Goes
    <3>1. CASE op' = Idle
      BY <3>1 DEF Goes
    <3>2. CASE op' = [op EXCEPT !.pc = "poll", !.target = n]
      <4>1. op'.target = n /\ op'.pc = "poll" /\ op'.id = op.id
        BY <1>0, <3>2 DEF Operation
      <4> QED BY <2>3, <4>1 DEF Goes
    <3> QED BY <2>3, <3>1, <3>2 DEF Posts
  <2>4. CASE \E n \in Id : Finds(n)
    BY <2>4 DEF Goes
  <2>5. ASSUME NEW s \in Records, ReadSucceeds(s), s.id \in {op.id, NoId}
        PROVE  Goes
    BY <2>5 DEF ReadSucceeds, Goes
  <2>6. CASE ReadFinds
    <3> DEFINE s == [id |-> op.id, val |-> Shown,
                     tainted |-> op.kind = "plan" /\ state.tainted]
    <3>1. op.id \in Id /\ Shown \in Int
      BY <2>6, ShownIsInt DEF ReadFinds, Exists
    <3>2. s \in Records /\ s.id \in {op.id, NoId}
      BY <1>0, <3>1 DEF Records
    <3>3. ReadSucceeds(s)
      BY <2>6 DEF ReadFinds
    <3> HIDE DEF s
    <3> QED BY <2>5, <3>2, <3>3
  <2>7. CASE ReadClears
    BY <1>0, <2>5, <2>7 DEF ReadClears
  <2>8. CASE Puts \/ Deletes
    BY <2>8 DEF Puts, Deletes, Goes
  <2>9. CASE Forgets
    BY <1>0, <2>9 DEF Forgets, DeleteReturns, Goes
  <2> QED
    BY <1>5, <2>1, <2>2, <2>3, <2>4, <2>6, <2>7, <2>8, <2>9
    DEF HandlerShape
<1> QED BY <1>1, <1>2, <1>3, <1>4, <1>5, Steps


(* What a step makes of the record, and what it says of the object that    *)
(* the operation has started when the operation is over.                   *)
Leaves ==
  \/ state' = state
  \/ state'.id = NoId /\ op.kind = "create"
  \/ state'.id = op.id
  \/ ReadClears /\ state'.id = NoId
  \/ Forgets /\ state'.id = NoId

(* Every step makes one of these of the record.                            *)
LEMMA Leaving ==
  ASSUME TypeOK, Calls, Record, [Next]_vars
  PROVE  Leaves
<1>0. NoRecord.id = NoId
  BY NoRecordIsRecord
<1>1. CASE UNCHANGED state
  BY <1>1 DEF Leaves
<1>2. CASE HandlerShape
  <2>1. CASE Fails \/ \E n \in Id : Posts(n)
    BY <1>0, <1>1, <2>1
    DEF Fails, Posts, Begin, CreateFailed, Calls, Creating, Leaves
  <2>2. CASE Searches \/ Learns \/ \E n \in Id : Finds(n)
    BY <2>2 DEF Searches, Learns, Finds, Leaves
  <2>3. CASE ReadFinds
    <3> DEFINE s == [id |-> op.id, val |-> Shown,
                     tainted |-> op.kind = "plan" /\ state.tainted]
    <3>1. s.id = op.id
      OBVIOUS
    <3>2. ReadSucceeds(s)
      BY <2>3 DEF ReadFinds
    <3> HIDE DEF s
    <3> QED BY <3>1, <3>2 DEF ReadSucceeds, Leaves
  <2>4. CASE ReadClears
    BY <1>0, <2>4 DEF ReadClears, ReadSucceeds, Leaves
  <2>5. CASE Misreads
    BY <2>5 DEF Misreads, ReadErrs, Leaves
  <2>6. CASE Puts \/ Reads \/ Stays \/ Deletes \/ ConfirmedNotHA
    BY <2>6 DEF Puts, Reads, Stays, Deletes, ConfirmedNotHA, Leaves
  <2>7. CASE Forgets
    BY <1>0, <2>7 DEF Forgets, DeleteReturns, Leaves
  <2> QED
    BY <1>2, <2>1, <2>2, <2>3, <2>4, <2>5, <2>6, <2>7 DEF HandlerShape
<1>3. UNCHANGED state \/ HandlerShape
  BY Steps DEF vars, Surroundings, Apply, ApplyStale, Crash, Import
<1> QED BY <1>1, <1>2, <1>3

(* Ids in use are ids, or empty.                                           *)
LEMMA IdsAreIds ==
  ASSUME TypeOK
  PROVE  /\ state.id \in Id \cup {NoId} /\ op.id \in Id \cup {NoId}
         /\ op.target \in Id \cup {NoId}
BY DEF TypeOK, Operation

(* The record lets go of an object that is gone, or with a warning.        *)
LEMMA LetsGo ==
  ASSUME TypeOK, Calls, Record, Born, Waits, [Next]_vars,
         state.id # NoId, state'.id # state.id
  PROVE  \/ tenant[state.id].phase = "gone"
         \/ type = "application" /\ state.id \in reported'
<1>0. state.id \in Id /\ op.kind \notin {"create", "import"}
  BY IdsAreIds DEF Record
<1>1. tenant[state.id].phase \in Phase \ {"unborn"}
  BY <1>0, ObjectParts DEF Born
<1>2. ASSUME ~Exists(state.id) PROVE tenant[state.id].phase = "gone"
  BY <1>0, <1>1, <1>2 DEF Exists, Phase
<1>3. CASE ReadClears
  <2>1. op.kind \in {"update", "plan"} /\ op.id = state.id /\ ~Exists(op.id)
    BY <1>0, <1>3 DEF ReadClears, Calls, Record
  <2> QED BY <1>2, <2>1
<1>4. CASE Forgets
  <2>1. op.id = state.id
    BY <1>4 DEF Forgets, Calls, Record
  <2>2. CASE ~Exists(op.id)
    BY <1>2, <2>1, <2>2
  <2>3. CASE /\ op.pc = "wait" /\ tenant[op.id].job.done
             /\ isSuccessStatus(tenant[op.id].job.code)
    BY <2>1, <2>3 DEF Waits
  <2>4. CASE type = "application" /\ reported' = reported \cup {op.id}
    BY <2>1, <2>4
  <2> QED BY <1>4, <2>2, <2>3, <2>4 DEF Forgets
<1>5. CASE state'.id = op.id
  <2>1. op.kind = "none" /\ op.pc = "idle"
    BY <1>0, <1>5, IdsAreIds DEF Record, Calls, TypeOK, Operation, Creating
  <2>2. UNCHANGED state
    BY <2>1, Steps DEF vars, Surroundings, Apply, ApplyStale, Crash, Import,
       HandlerShape, Fails, Searches, Learns, Posts, Begin, Finds, ReadFinds,
       ReadClears, Misreads, Puts, PutTaken, Reads, Stays, Deletes,
       DeleteTaken, ConfirmedNotHA, Forgets, Creating
  <2> QED BY <2>2
<1> QED BY <1>0, <1>3, <1>4, <1>5, Leaving DEF Leaves

(* Ids in use stay ids of objects.                                         *)
LEMMA NextBorn ==
  TypeOK /\ Calls /\ Record /\ Lives /\ Born /\ [Next]_vars => Born'
<1> SUFFICES ASSUME TypeOK, Calls, Record, Lives, Born, [Next]_vars
             PROVE  Born'
  OBVIOUS
<1> SUFFICES ASSUME NEW n \in Id, n \in {state'.id, op'.id, op'.target}
             PROVE  tenant'[n].phase # "unborn"
  BY DEF Born
<1>1. tenant[n].phase # "unborn" => tenant'[n].phase # "unborn"
  BY NextAges DEF TenantAges, Ages
<1>2. n # NoId
  BY NoIdAssumption
<1>3. CASE n \in {state.id, op.id, op.target}
  BY <1>1, <1>3 DEF Born
<1>4. CASE n = state'.id /\ n \notin {state.id, op.id, op.target}
  BY <1>2, <1>4, Leaving DEF Leaves
<1>5. CASE n \in {op'.id, op'.target} /\ n \notin {state.id, op.id, op.target}
  <2>1. want \in 0..MaxVal /\ op \in Operation
    BY DEF TypeOK
  <2>2. CASE \/ op' = op \/ op' = Idle
             \/ \E s \in Records :
                  op' = Planned(s) /\ s.id \in {state.id, op.id, NoId}
             \/ op'.id = state.id /\ op'.target = NoId
    BY <1>2, <1>5, <2>1, <2>2, PlannedIds, IdleIsOperation
  <2>3. ASSUME NEW m \in Id, Import(m) PROVE tenant'[n].phase # "unborn"
    <3>1. op'.id = m /\ op'.target = NoId /\ tenant[m].phase # "unborn"
      BY <2>3 DEF Import, Idle
    <3> QED BY <1>1, <1>2, <1>5, <3>1
  <2>4. ASSUME NEW m \in Id, Finds(m) PROVE tenant'[n].phase # "unborn"
    <3>1. /\ op'.id = m /\ op'.target = op.target
          /\ tenant[m].phase # "unborn"
      BY <2>1, <2>4 DEF Finds, Operation, Named, Exists
    <3> QED BY <1>1, <1>5, <3>1
  <2>5. ASSUME NEW m \in Id, Posts(m), op'.target = m, op'.id = op.id
        PROVE  tenant'[n].phase # "unborn"
    <3>1. tenant'[m].phase = "provisioning"
      BY <2>5 DEF Posts, Begin, TypeOK, Object
    <3> QED BY <1>5, <2>5, <3>1
  <2>6. CASE Learns
    <3>1. op'.id \in {NoId, op.target} /\ op'.target = op.target
      BY <2>1, <2>6 DEF Learns, Operation
    <3> QED BY <1>2, <1>5, <3>1
  <2>7. CASE \/ Searches \/ ConfirmedNotHA \/ Reads
             \/ \E pc \in {"await", "read", "wait"} :
                  op' = [op EXCEPT !.pc = pc]
    <3>1. op'.id = op.id /\ op'.target = op.target
      BY <2>1, <2>7 DEF Searches, ConfirmedNotHA, Reads, Operation
    <3> QED BY <1>5, <3>1
  <2> QED
    BY <2>2, <2>3, <2>4, <2>5, <2>6, <2>7, Going DEF Goes
<1> QED BY <1>3, <1>4, <1>5


-----------------------------------------------------------------------------
(* The wait for a delete, and the members of an HA pair                    *)

(* A delete is waited for after its DELETE was taken.                      *)
LEMMA WaitBegins ==
  ASSUME TypeOK, Calls, Record, [Next]_vars,
         op'.pc \in {"confirmed", "wait"}
  PROVE  \/ op' = op
         \/ ConfirmedNotHA /\ op' = [op EXCEPT !.pc = "confirmed"]
         \/ Deletes /\ op' = [op EXCEPT !.pc = "wait"]
<1>0. op \in Operation /\ want \in 0..MaxVal
  BY DEF TypeOK
<1>1. \A s \in Records : Planned(s).pc \notin {"confirmed", "wait"}
  BY <1>0, PlannedIds
<1>2. Idle.pc = "idle"
  BY IdleIsOperation
<1>3. ASSUME NEW n \in Id, Import(n) PROVE op'.pc = "read"
  BY <1>3 DEF Import, Idle
<1>4. ASSUME NEW n \in Id, Finds(n) PROVE op'.pc = "read"
  BY <1>0, <1>4 DEF Finds, Operation
<1>5. ASSUME Searches \/ Learns \/ Reads
      PROVE  op'.pc \in {"find", "adopt", "read"}
  BY <1>0, <1>5 DEF Searches, Learns, Reads, Operation
<1>6. ASSUME \E pc \in {"await", "read"} : op' = [op EXCEPT !.pc = pc]
      PROVE  op'.pc \in {"await", "read"}
  BY <1>0, <1>6 DEF Operation
<1>7. ASSUME ConfirmedNotHA PROVE op' = [op EXCEPT !.pc = "confirmed"]
  BY <1>7 DEF ConfirmedNotHA
<1> QED
  BY <1>1, <1>2, <1>3, <1>4, <1>5, <1>6, <1>7, Going DEF Goes

(* No step starts or continues a delete of a member of an HA pair.         *)
LEMMA NextHA ==
  TypeOK /\ Calls /\ Record /\ Lives /\ Born /\ HAMembersAreSpared
    /\ [Next]_vars => HAMembersAreSpared'
<1> SUFFICES ASSUME TypeOK, Calls, Record, Lives, Born, HAMembersAreSpared,
                    [Next]_vars,
                    type' = "ipsec_single", op'.pc \in {"confirmed", "wait"}
             PROVE  tenant'[op'.id].owner # "pair"
  BY DEF HAMembersAreSpared, IsHA
<1>0. op \in Operation /\ type = "ipsec_single"
  BY Settings DEF TypeOK
<1>1. ASSUME op.id \in Id, tenant[op.id].owner # "pair", op'.id = op.id
      PROVE  tenant'[op'.id].owner # "pair"
  BY <1>1, NextAges DEF TenantAges, Ages, Born
<1>2. CASE op' = op
  <2>1. op.id \in Id /\ tenant[op.id].owner # "pair"
    BY <1>0, <1>2 DEF HAMembersAreSpared, IsHA, TypeOK
  <2> QED BY <1>1, <1>2, <2>1
<1>3. CASE ConfirmedNotHA /\ op' = [op EXCEPT !.pc = "confirmed"]
  <2>1. op.id \in Id /\ tenant[op.id].owner # "pair" /\ op'.id = op.id
    BY <1>0, <1>3 DEF ConfirmedNotHA, IsHA, Exists, Operation
  <2> QED BY <1>1, <2>1
<1>4. CASE Deletes /\ op' = [op EXCEPT !.pc = "wait"]
  <2>1. op.pc = "confirmed" /\ op'.id = op.id
    BY <1>0, <1>4 DEF Deletes, DeleteTaken, Operation
  <2>2. op.id \in Id /\ tenant[op.id].owner # "pair"
    BY <1>0, <2>1 DEF HAMembersAreSpared, IsHA, TypeOK
  <2> QED BY <1>1, <2>1, <2>2
<1> QED BY <1>2, <1>3, <1>4, WaitBegins

(* What happens to an object whose delete is waited for, or was given up   *)
(* on and failed: it goes, or it comes back with a failure.                *)
LEMMA WaitedChanges ==
  ASSUME TypeOK, Lives, NEW n \in Id, [Next]_vars, op.pc = "wait",
         tenant[n].phase \in {"deleting", "live"},
         tenant[n].phase = "live" => tenant[n].job.done
  PROVE  \/ tenant'[n] = tenant[n]
         \/ tenant'[n].phase = "gone"
         \/ /\ tenant'[n].phase = "deleting"
            /\ tenant'[n].job = tenant[n].job
         \/ /\ tenant'[n].phase = "live"
            /\ tenant'[n].job.done /\ tenant'[n].job.code = 500
<1>0. tenant \in [Id -> Object] /\ tenant[n] \in Object
        /\ tenant[n].job \in Job(Codes)
  BY ObjectParts DEF TypeOK
<1>1. CASE UNCHANGED tenant
  BY <1>1
<1>2. ASSUME NEW m \in Id, Changes(m), m # n PROVE tenant'[n] = tenant[n]
  BY <1>0, <1>2 DEF Changes, Begin, ConsoleCreates, ConsoleDeletes, Settle,
     SettleAs, FinishUpdate, UpdateEndsAs, FinishTeardown, FailTeardown,
     PutTaken, DeleteTaken
<1>3. CASE Changes(n)
  <2>1. CASE ConsoleDeletes(n)
    <3>1. tenant[n].job.done
      BY <2>1 DEF ConsoleDeletes
    <3>2. tenant' = [tenant EXCEPT ![n].phase = "deleting",
                                   ![n].job = Ended(@, 500)]
      BY <2>1 DEF ConsoleDeletes
    <3>3. Ended(tenant[n].job, 500) = tenant[n].job
      BY <3>1 DEF Ended
    <3>4. tenant'[n].phase = "deleting" /\ tenant'[n].job = tenant[n].job
      BY <1>0, <3>2, <3>3 DEF Object
    <3> QED BY <3>4
  <2>2. CASE FinishTeardown(n)
    <3>1. tenant' = [tenant EXCEPT ![n].phase = "gone",
                                   ![n].job = Ended(@, 200)]
      BY <2>2 DEF FinishTeardown
    <3> QED BY <1>0, <3>1 DEF Object
  <2>3. CASE FailTeardown(n)
    <3>1. ~tenant[n].job.done
            /\ tenant' = [tenant EXCEPT ![n].phase = "live",
                                        ![n].job = Ended(@, 500)]
      BY <2>3 DEF FailTeardown
    <3>2. Ended(tenant[n].job, 500)
            = [done |-> TRUE, code |-> 500, resource |-> tenant[n].job.resource]
      BY <1>0, <3>1 DEF Ended, Job
    <3>3. tenant'[n].phase = "live"
            /\ tenant'[n].job = Ended(tenant[n].job, 500)
      BY <1>0, <3>1 DEF Object
    <3> QED BY <3>2, <3>3
  <2>4. ~Begin(n) /\ ~ConsoleCreates(n) /\ ~Settle(n) /\ ~FinishUpdate(n)
          /\ ~PutTaken /\ ~DeleteTaken("delete") /\ ~DeleteTaken("confirmed")
    BY DEF Begin, ConsoleCreates, Settle, FinishUpdate, PutTaken, DeleteTaken
  <2> QED BY <1>3, <2>1, <2>2, <2>3, <2>4 DEF Changes
<1> QED BY <1>1, <1>2, <1>3, TenantSteps

(* A wait for a delete ends well only for a teardown.                      *)
LEMMA NextWaits ==
  TypeOK /\ Calls /\ Record /\ Lives /\ Waits /\ [Next]_vars => Waits'
<1> SUFFICES ASSUME TypeOK, Calls, Record, Lives, Waits, [Next]_vars,
                    op'.pc = "wait", tenant'[op'.id].phase # "gone"
             PROVE  /\ tenant'[op'.id].phase \in {"deleting", "live"}
                    /\ tenant'[op'.id].job.done =>
                         ~isSuccessStatus(tenant'[op'.id].job.code)
                    /\ tenant'[op'.id].phase = "live" =>
                         tenant'[op'.id].job.done
  BY DEF Waits
<1>0. op \in Operation /\ tenant \in [Id -> Object] /\ ~isSuccessStatus(500)
  BY DEF TypeOK, isSuccessStatus
<1>1. CASE op' = op
  <2> DEFINE n == op.id
  <2>1. n \in Id /\ op.pc = "wait"
    BY <1>1 DEF TypeOK
  <2>2. tenant[n].phase # "gone"
    BY <1>1, <2>1, NextAges DEF TenantAges, Ages
  <2>3. /\ tenant[n].phase \in {"deleting", "live"}
        /\ tenant[n].job.done => ~isSuccessStatus(tenant[n].job.code)
        /\ tenant[n].phase = "live" => tenant[n].job.done
    BY <2>1, <2>2 DEF Waits
  <2>4. \/ tenant'[n] = tenant[n]
        \/ tenant'[n].phase = "gone"
        \/ tenant'[n].phase = "deleting" /\ tenant'[n].job = tenant[n].job
        \/ /\ tenant'[n].phase = "live"
           /\ tenant'[n].job.done /\ tenant'[n].job.code = 500
    BY <2>1, <2>3, WaitedChanges
  <2>5. op'.id = n
    BY <1>1
  <2> HIDE DEF n
  <2> QED BY <1>0, <2>3, <2>4, <2>5
<1>2. CASE Deletes /\ op' = [op EXCEPT !.pc = "wait"]
  <2>1. op'.id = op.id /\ op.id \in Id
    BY <1>0, <1>2 DEF Deletes, DeleteTaken, Exists, Operation
  <2>2. tenant' = [tenant EXCEPT ![op.id].phase = "deleting",
                                 ![op.id].job = Restarted(@)]
    BY <1>2 DEF Deletes, DeleteTaken
  <2>3. tenant'[op.id].phase = "deleting"
          /\ tenant'[op.id].job = Restarted(tenant[op.id].job)
    BY <1>0, <2>1, <2>2 DEF Object
  <2>4. ~Restarted(tenant[op.id].job).done
    BY <2>1, JobsAreJobs, ObjectParts DEF Codes
  <2> QED BY <2>1, <2>3, <2>4
<1>3. CASE op' = [op EXCEPT !.pc = "confirmed"]
  BY <1>0, <1>3 DEF Operation
<1> QED BY <1>1, <1>2, <1>3, WaitBegins


-----------------------------------------------------------------------------
(* The object a create has started                                         *)

(* While a create is about an object, only a create or the console gives   *)
(* an object of a named kind its name, and only one that nobody has.       *)
LEMMA NamesAreGiven ==
  ASSUME TypeOK, Calls, [Next]_vars, op.target \in Id, type \in Unique,
         NEW n \in Id, ~Named(n), tenant'[n].phase \in {"live", "deleting"}
  PROVE  \A m \in Id \ {n} : ~Named(m) /\ tenant'[m] = tenant[m]
<1>0. tenant \in [Id -> Object] /\ tenant[n] \in Object
        /\ op.kind = "create" /\ NoId \notin Id
  BY NoIdAssumption DEF TypeOK, Calls
<1>1. PICK k \in Id : Changes(k)
  BY <1>0, TenantSteps DEF Named
<1>2. \A m \in Id \ {k} : tenant'[m] = tenant[m]
  BY <1>0, <1>1 DEF Changes, Begin, ConsoleCreates, ConsoleDeletes, Settle,
     SettleAs, FinishUpdate, UpdateEndsAs, FinishTeardown, FailTeardown,
     PutTaken, DeleteTaken
<1>3. k = n
  BY <1>2 DEF Named
<1>4. ~NameTaken(n)
  <2>1. CASE Settle(n)
    <3>1. PICK code \in Codes, p \in {"live", "gone"}, named \in BOOLEAN :
            SettleAs(n, code, p, named)
      BY <2>1 DEF Settle
    <3>2. tenant'[n].phase = p
      BY <1>0, <3>1 DEF SettleAs, Object
    <3> QED BY <3>1, <3>2 DEF SettleAs
  <2>2. CASE ConsoleCreates(n)
    BY <2>2 DEF ConsoleCreates
  <2>3. CASE Begin(n)
    BY <1>0, <2>3 DEF Begin, Object
  <2>4. ~ConsoleDeletes(n) /\ ~FinishUpdate(n) /\ ~FinishTeardown(n)
          /\ ~FailTeardown(n)
    BY DEF Named, ConsoleDeletes, FinishUpdate, FinishTeardown, FailTeardown
  <2>5. ~PutTaken /\ ~DeleteTaken("delete") /\ ~DeleteTaken("confirmed")
    BY <1>0 DEF PutTaken, DeleteTaken, Calls
  <2> QED
    BY <1>1, <1>3, <2>1, <2>2, <2>3, <2>4, <2>5 DEF Changes
<1> QED BY <1>2, <1>3, <1>4 DEF NameTaken

(* The object of a create stays the same until the create is over.         *)
LEMMA Targets ==
  ASSUME TypeOK, Calls, Record, [Next]_vars, op'.target # NoId
  PROVE  \/ \E n \in Id : Posts(n) /\ op'.target = n /\ op'.pc = "poll"
         \/ /\ op'.target = op.target /\ op.target \in Id
            /\ \/ op' = op \/ Searches \/ Learns
               \/ \E n \in Id : Finds(n)
<1>0. op \in Operation /\ want \in 0..MaxVal
  BY DEF TypeOK
<1>1. \A s \in Records : Planned(s).target = NoId
  BY <1>0, PlannedIds
<1>2. \A n \in Id : Import(n) => op'.target = NoId
  BY DEF Import, Idle
<1>3. ASSUME Searches \/ Learns \/ \E n \in Id : Finds(n)
      PROVE  op'.target = op.target /\ op.target \in Id
  <2>1. op'.target = op.target
    BY <1>0, <1>3 DEF Searches, Learns, Finds, Operation
  <2>2. op.pc \in {"poll", "find", "adopt"}
    BY <1>3 DEF Searches, Learns, Finds
  <2> QED BY <2>1, <2>2 DEF TypeOK
<1>4. ASSUME \/ Puts /\ \E pc \in {"await", "read"} : op' = [op EXCEPT !.pc = pc]
             \/ Reads \/ ConfirmedNotHA
             \/ Deletes /\ op' = [op EXCEPT !.pc = "wait"]
      PROVE  FALSE
  <2>1. op'.target = op.target
    BY <1>0, <1>4 DEF Reads, ConfirmedNotHA, Operation
  <2>2. op.kind # "create"
    BY <1>4 DEF Puts, PutTaken, Reads, ConfirmedNotHA, Deletes, DeleteTaken,
       Calls
  <2> QED BY <2>1, <2>2 DEF Calls
<1>5. Idle.target = NoId
  BY IdleIsOperation
<1>6. op' = op => op'.target = op.target /\ op.target \in Id
  BY IdsAreIds
<1> QED
  BY <1>1, <1>2, <1>3, <1>4, <1>5, <1>6, Going DEF Goes

(* What a create has started keeps its owner and its name.                 *)
LEMMA NextOwn ==
  TypeOK /\ Calls /\ Record /\ Lives /\ Born /\ Own /\ [Next]_vars => Own'
<1> SUFFICES ASSUME TypeOK, Calls, Record, Lives, Born, Own, [Next]_vars,
                    op'.target \in Id
             PROVE  Own'
  BY DEF Own
<1>0. /\ type' = type /\ op \in Operation /\ tenant \in [Id -> Object]
      /\ op'.target # NoId
  BY Settings, NoIdAssumption DEF TypeOK
<1>1. ASSUME NEW n \in Id, Posts(n), op'.target = n, op'.pc = "poll"
      PROVE  Own'
  <2>1. tenant'[n].phase = "provisioning" /\ tenant'[n].owner = "terraform"
    BY <1>0, <1>1 DEF Posts, Begin, Object
  <2> QED BY <1>1, <2>1 DEF Own, Named
<1>2. CASE /\ op'.target = op.target /\ op.target \in Id
           /\ op' = op \/ Searches \/ Learns \/ \E n \in Id : Finds(n)
  <2> DEFINE t == op.target
  <2>1. /\ tenant[t].owner = "terraform" /\ tenant[t].phase # "unborn"
        /\ op.pc = "find" => tenant[t].phase # "provisioning"
        /\ op.pc = "find" /\ type \in ElseFinders => ~tenant[t].job.resource
        /\ type \in Finders \cap Unique /\ Named(t) =>
             \A m \in Id : Named(m) => m = t
    BY <1>2 DEF Own, Born
  <2>2. Ages(tenant[t], tenant'[t])
    BY <1>2, NextAges DEF TenantAges
  <2>3. tenant'[t].owner = "terraform"
    BY <2>1, <2>2 DEF Ages
  <2>4. op'.pc = "find" =>
          /\ tenant'[t].phase # "provisioning"
          /\ type \in ElseFinders => ~tenant'[t].job.resource
    <3>1. CASE op' = op
      BY <2>1, <2>2, <3>1 DEF Ages
    <3>2. CASE Searches
      <4>1. op'.pc = "find" =>
              /\ tenant[t].job.done /\ tenant' = tenant
              /\ type \in ElseFinders => ~tenant[t].job.resource
        BY <1>0, <3>2 DEF Searches, Operation
      <4> QED BY <1>2, <4>1 DEF Lives
    <3>3. CASE Learns \/ \E n \in Id : Finds(n)
      <4>1. op'.pc = "read"
        BY <1>0, <3>3 DEF Learns, Finds, Operation
      <4> QED BY <4>1
    <3> QED BY <1>2, <3>1, <3>2, <3>3
  <2>5. ASSUME type \in Finders \cap Unique,
               tenant'[t].phase \in {"live", "deleting"},
               NEW m \in Id, tenant'[m].phase \in {"live", "deleting"}, m # t
        PROVE  FALSE
    <3>1. type \in Unique
      BY <2>5
    <3>2. CASE Named(t)
      <4>1. ~Named(m)
        BY <2>1, <2>5, <3>2
      <4> QED BY <1>2, <2>5, <3>1, <3>2, <4>1, NamesAreGiven
    <3>3. CASE ~Named(t)
      <4>1. ~Named(m) /\ tenant'[m] = tenant[m]
        BY <1>2, <2>5, <3>1, <3>3, NamesAreGiven
      <4> QED BY <2>5, <4>1 DEF Named
    <3> QED BY <3>2, <3>3
  <2> HIDE DEF t
  <2>6. op'.target = t
    BY <1>2 DEF t
  <2> QED BY <1>0, <2>3, <2>4, <2>5, <2>6 DEF Own, Named
<1> QED BY <1>0, <1>1, <1>2, Targets


(* What is found by name is the object of the create, unless that is gone, *)
(* or is an application that its completion did not name.                  *)
LEMMA FoundIsOwn ==
  ASSUME TypeOK, Calls, Born, Own, NEW n \in Id, Finds(n), op.pc = "find",
         n # op.target
  PROVE  /\ type \in Finders /\ op.target \in Id
         /\ tenant[op.target].owner = "terraform"
         /\ tenant[n].phase # "unborn"
         /\ type = "application" \/ tenant[op.target].phase = "gone"
         /\ type \in ElseFinders => Unnamed(op.target)
<1>1. /\ type \in Finders /\ op.target \in Id /\ Named(n)
      /\ tenant[op.target].phase \in Phase \ {"unborn", "provisioning"}
      /\ tenant[op.target].owner = "terraform"
      /\ type \in ElseFinders => ~tenant[op.target].job.resource
  BY ObjectParts DEF Finds, TypeOK, Calls, Own, Born
<1>2. type \in Unique => ~Named(op.target)
  BY <1>1 DEF Own
<1>3. type \in Unique \/ type = "application"
  BY <1>1 DEF Finders, Unique, Nameless, ResourceType
<1> QED BY <1>1, <1>2, <1>3 DEF Named, Phase, Unnamed

(* What the end of a construction has said of an object stays said.        *)
LEMMA UnnamedStays ==
  ASSUME NEW n \in Id, Ages(tenant[n], tenant'[n]), Unnamed(n)
  PROVE  Unnamed(n)'
BY DEF Ages, Unnamed

(* An object that was overlooked stays so.                                 *)
LEMMA OverlookedStays ==
  ASSUME type' = type, \A m \in Id : Ages(tenant[m], tenant'[m]),
         NEW n \in Id, Overlooked(n)
  PROVE  Overlooked(n)'
<1>1. Unnamed(n)'
  BY UnnamedStays DEF Overlooked
<1>2. \A m \in Id : tenant[m].phase # "unborn" => tenant'[m].phase # "unborn"
  BY DEF Ages
<1> QED BY <1>1, <1>2 DEF Overlooked

(* A lookup by name that may have been mistaken may have been so for ever. *)
LEMMA MistakableStays ==
  ASSUME type' = type, NEW m \in Id, Ages(tenant[m], tenant'[m]),
         Mistakable(m)
  PROVE  Mistakable(m)'
<1>1. Unnamed(m) => Unnamed(m)'
  BY UnnamedStays
<1>2. tenant[m].phase # "unborn"
  BY DEF Mistakable, Unnamed
<1> QED BY <1>1, <1>2 DEF Mistakable, Ages

(* A create goes on to read what it has started.                           *)
LEMMA NextFollows ==
  TypeOK /\ Calls /\ Record /\ Lives /\ Born /\ Own /\ Follows /\ [Next]_vars
    => Follows'
<1> SUFFICES ASSUME TypeOK, Calls, Record, Lives, Born, Own, Follows,
                    [Next]_vars, op'.kind = "create", op'.pc = "read"
             PROVE  \/ op'.id = op'.target
                    \/ op'.target \in reported'
                    \/ tenant'[op'.target].phase = "gone"
                    \/ Overlooked(op.target)'
  BY DEF Follows
<1>0. op \in Operation /\ type' = type /\ reported \subseteq reported'
  BY Settings, Grows DEF TypeOK
<1>1. op'.target # NoId
  <2>1. Calls'
    BY NextTypeOK
  <2> QED BY <2>1, NoIdAssumption DEF Calls
<1>2. \A n \in Id : ~(op'.target = n /\ op'.pc = "poll")
  OBVIOUS
<1>3. op'.target = op.target /\ op.target \in Id
  BY <1>1, <1>2, Targets
<1>4. CASE op' = op
  <2> DEFINE t == op.target
  <2>1. \/ op.id = t \/ t \in reported \/ tenant[t].phase = "gone"
        \/ Overlooked(t)
    BY <1>4 DEF Follows
  <2>2. \A m \in Id : Ages(tenant[m], tenant'[m])
    BY NextAges DEF TenantAges
  <2>3. tenant[t].phase = "gone" => tenant'[t].phase = "gone"
    BY <1>3, <2>2 DEF Ages
  <2>4. Overlooked(t) => Overlooked(op.target)'
    <3>1. \A n \in Id : Overlooked(n) => Overlooked(n)'
      BY <1>0, <2>2, OverlookedStays
    <3> QED BY <1>3, <3>1 DEF Overlooked, Unnamed
  <2> QED BY <1>0, <1>4, <2>1, <2>3, <2>4
<1>5. CASE Learns
  <2>1. CASE op' = [op EXCEPT !.pc = "read", !.id = op.target]
    BY <1>0, <2>1 DEF Operation
  <2>2. CASE /\ op' = [op EXCEPT !.pc = "read", !.id = NoId]
             /\ type \in Enhanced /\ ~tenant[op.target].job.resource
    <3>1. /\ tenant[op.target].phase \notin {"unborn", "provisioning"}
          /\ tenant' = tenant
      BY <1>3, <1>5 DEF Learns, Lives
    <3> QED BY <1>0, <1>3, <2>2, <3>1 DEF Overlooked, Unnamed
  <2> QED BY <1>5, <2>1, <2>2 DEF Learns
<1>6. ASSUME NEW n \in Id, Finds(n)
      PROVE  \/ op'.id = op'.target
             \/ op'.target \in reported'
             \/ tenant'[op'.target].phase = "gone"
             \/ Overlooked(op.target)'
  <2>1. op'.id = n /\ tenant' = tenant
    BY <1>0, <1>6 DEF Finds, Operation
  <2>2. CASE op.pc = "find" /\ n # op.target
    <3>1. /\ type = "application" \/ tenant[op.target].phase = "gone"
          /\ type \in ElseFinders => Unnamed(op.target)
          /\ tenant[n].phase # "unborn"
      BY <1>6, <2>2, FoundIsOwn
    <3> QED
      BY <1>0, <1>3, <2>1, <2>2, <3>1 DEF Overlooked, Unnamed, ElseFinders
  <2>3. CASE op.pc = "adopt" /\ reported' = reported \cup {op.target}
    BY <1>3, <2>3
  <2> QED BY <1>3, <1>6, <2>1, <2>2, <2>3 DEF Finds
<1>7. CASE Searches
  BY <1>0, <1>7 DEF Searches, Operation
<1> QED BY <1>1, <1>2, <1>4, <1>5, <1>6, <1>7, Targets

(* No step takes over an object in silence.                                *)
LEMMA NextTakeover ==
  TypeOK /\ Calls /\ Record /\ Lives /\ Born /\ Own
    /\ OnlyToldObjectsAreTakenOver /\ [Next]_vars
    => OnlyToldObjectsAreTakenOver'
<1> DEFINE Mistaken == \E m \in Id : Mistakable(m)
<1> SUFFICES ASSUME TypeOK, Calls, Record, Lives, Born, Own,
                    OnlyToldObjectsAreTakenOver, [Next]_vars,
                    NEW n \in {state'.id, op'.id} \ {NoId},
                    tenant'[n].owner \in {"other", "pair"}
             PROVE  n \in told' \/ Mistaken'
  BY DEF OnlyToldObjectsAreTakenOver
<1>0. /\ op \in Operation /\ want \in 0..MaxVal /\ type' = type
      /\ told \subseteq told' /\ n # NoId
  BY Settings, Grows DEF TypeOK
<1>1. n \in Id
  BY NextTypeOK, <1>0 DEF TypeOK, Operation
<1>2. \A m \in Id : Ages(tenant[m], tenant'[m])
  BY NextAges DEF TenantAges
<1>3. Mistaken => Mistaken'
  BY <1>0, <1>2, MistakableStays
<1>4. ASSUME n \in {state.id, op.id} PROVE n \in told' \/ Mistaken'
  <2>1. tenant[n].owner = tenant'[n].owner
    BY <1>1, <1>2, <1>4 DEF Ages, Born
  <2>2. n \in told \/ Mistaken
    BY <1>0, <1>4, <2>1 DEF OnlyToldObjectsAreTakenOver
  <2> QED BY <1>0, <1>3, <2>2
<1>5. n # op.target
  <2> SUFFICES ASSUME n = op.target PROVE FALSE
    OBVIOUS
  <2>1. tenant[n].owner = "terraform" /\ tenant[n].phase # "unborn"
    BY <1>1 DEF Own, Born
  <2> QED BY <1>1, <1>2, <2>1 DEF Ages
<1>6. CASE n = state'.id
  BY <1>0, <1>4, <1>6, Leaving DEF Leaves
<1>7. CASE n = op'.id
  <2>1. CASE \/ op' = op \/ op' = Idle
             \/ \E s \in Records :
                  op' = Planned(s) /\ s.id \in {state.id, op.id, NoId}
             \/ op'.id \in {state.id, op.id}
    BY <1>0, <1>4, <1>7, <2>1, PlannedIds, IdleIsOperation
  <2>2. ASSUME NEW m \in Id, Import(m) PROVE n \in told'
    <3>1. op'.id = m /\ told' = told \cup {m}
      BY <2>2 DEF Import, Idle
    <3> QED BY <1>7, <3>1
  <2>3. ASSUME NEW m \in Id, Finds(m) PROVE n \in told' \/ Mistaken'
    <3>1. op'.id = m
      BY <1>0, <2>3 DEF Finds, Operation
    <3>2. CASE op.pc = "adopt" /\ told' = told \cup {m}
      BY <1>7, <3>1, <3>2
    <3>3. CASE op.pc = "find"
      <4>1. /\ type \in Finders /\ op.target \in Id
            /\ tenant[op.target].owner = "terraform"
            /\ type = "application" \/ tenant[op.target].phase = "gone"
            /\ type \in ElseFinders => Unnamed(op.target)
        BY <1>5, <1>7, <2>3, <3>1, <3>3, FoundIsOwn
      <4>2. Mistakable(op.target)
        BY <4>1 DEF Finders, ElseFinders, Mistakable
      <4> QED BY <1>3, <4>1, <4>2
    <3> QED BY <2>3, <3>2, <3>3 DEF Finds
  <2>4. CASE Learns
    <3>1. op'.id \in {NoId, op.target}
      BY <1>0, <2>4 DEF Learns, Operation
    <3> QED BY <1>0, <1>5, <1>7, <3>1
  <2>5. CASE \/ Searches \/ ConfirmedNotHA \/ Reads
             \/ \E pc \in {"await", "read", "wait"} :
                  op' = [op EXCEPT !.pc = pc]
    <3>1. op'.id = op.id
      BY <1>0, <2>5 DEF Searches, ConfirmedNotHA, Reads, Operation
    <3> QED BY <1>4, <1>7, <3>1
  <2> HIDE DEF Mistaken
  <2> QED
    BY <2>1, <2>2, <2>3, <2>4, <2>5, Going DEF Goes
<1> QED BY <1>6, <1>7


-----------------------------------------------------------------------------
(* Every object that was created here is accounted for                     *)

(* An object of Terraform's is new only by a POST.                         *)
LEMMA NewObjects ==
  ASSUME TypeOK, [Next]_vars, NEW n \in Id, tenant[n].phase = "unborn",
         tenant'[n].owner = "terraform", tenant'[n].phase # "unborn"
  PROVE  Posts(n)
<1>0. tenant \in [Id -> Object]
  BY DEF TypeOK
<1>1. PICK k \in Id : Changes(k)
  BY TenantSteps
<1>2. k = n
  BY <1>0, <1>1 DEF Changes, Begin, ConsoleCreates, ConsoleDeletes, Settle,
     SettleAs, FinishUpdate, UpdateEndsAs, FinishTeardown, FailTeardown,
     PutTaken, DeleteTaken
<1>3. ~ConsoleCreates(n)
  <2> SUFFICES ASSUME ConsoleCreates(n) PROVE FALSE
    OBVIOUS
  <2>1. PICK who \in {"other", "pair"} :
          tenant' = [tenant EXCEPT ![n] =
            [phase |-> "live", owner |-> who, val |-> 1, next |-> 1,
             job |-> Ended(Running, 200)]]
    BY DEF ConsoleCreates
  <2> QED BY <1>0, <2>1
<1>4. /\ ~ConsoleDeletes(n) /\ ~Settle(n) /\ ~FinishUpdate(n)
      /\ ~FinishTeardown(n) /\ ~FailTeardown(n)
  BY DEF ConsoleDeletes, Settle, FinishUpdate, FinishTeardown, FailTeardown
<1>5. n = op.id => ~PutTaken /\ ~DeleteTaken("delete")
                     /\ ~DeleteTaken("confirmed")
  BY DEF PutTaken, DeleteTaken, Exists
<1>6. Begin(n)
  BY <1>1, <1>2, <1>3, <1>4, <1>5 DEF Changes
<1>7. ASSUME NEW m \in Id, Posts(m) PROVE Posts(n)
  <2>1. m = n
    BY <1>0, <1>7 DEF Posts, Begin
  <2> QED BY <1>7, <2>1
<1>8. ~Surroundings
  <2>1. ASSUME NEW m \in Id, m # n,
               \/ Settle(m) \/ FinishUpdate(m) \/ FinishTeardown(m)
               \/ FailTeardown(m) \/ ConsoleCreates(m) \/ ConsoleDeletes(m)
        PROVE  FALSE
    BY <1>0, <2>1 DEF Settle, SettleAs, FinishUpdate, UpdateEndsAs,
       FinishTeardown, FailTeardown, ConsoleCreates, ConsoleDeletes
  <2> QED BY <1>3, <1>4, <2>1 DEF Surroundings, EditConfig
<1>9. HandlerShape
  <2>1. tenant' # tenant
    OBVIOUS
  <2> QED
    BY <1>8, <2>1, Steps DEF vars, Apply, ApplyStale, Crash, Import
<1>10. ~Puts /\ ~Deletes
  <2>1. ASSUME Puts \/ Deletes PROVE tenant'[n] = tenant[n]
    BY <1>0, <2>1 DEF Puts, PutTaken, Deletes, DeleteTaken, Exists
  <2> QED BY <2>1
<1>11. ~(\/ Fails \/ Searches \/ Learns \/ \E m \in Id : Finds(m)
         \/ ReadFinds \/ ReadClears \/ Misreads \/ Reads \/ Stays
         \/ ConfirmedNotHA \/ Forgets)
  BY DEF Fails, Searches, Learns, Finds, ReadFinds, ReadClears, Misreads,
     Reads, Stays, ConfirmedNotHA, Forgets
<1> QED BY <1>7, <1>9, <1>10, <1>11 DEF HandlerShape

(* The end of a create leaves its object in the record or reports it.      *)
LEMMA CreateEnds ==
  ASSUME TypeOK, Calls, Record, Follows, [Next]_vars, op.target \in Id,
         op'.target # op.target
  PROVE  \/ op.target \in reported'
         \/ state'.id = op.target
         \/ tenant' = tenant /\ ~Exists(op.target)
         \/ Overlooked(op.target)
<1>0. /\ op.kind = "create" /\ op.pc # "post" /\ op.target # NoId
      /\ op \in Operation /\ reported \subseteq reported'
  BY NoIdAssumption, Grows DEF Calls, TypeOK
<1>1. CASE Fails \/ Crash
  BY <1>0, <1>1 DEF Fails, CreateFailed, Crash
<1>2. ASSUME op.pc = "read"
      PROVE  \/ op.id = op.target \/ op.target \in reported
             \/ ~Exists(op.target) \/ Overlooked(op.target)
  BY <1>0, <1>2 DEF Follows, Exists
<1>3. CASE ReadFinds
  <2>1. state'.id = op.id /\ op.id \in Id /\ op.pc = "read" /\ tenant' = tenant
    BY <1>0, <1>3 DEF ReadFinds, ReadSucceeds, NoRecord, Exists
  <2> QED BY <1>0, <1>2, <2>1, NoIdAssumption
<1>4. CASE ReadClears
  BY <1>0, <1>2, <1>4 DEF ReadClears
<1>5. CASE Misreads
  <2>1. /\ op.pc = "read" /\ tenant' = tenant /\ state'.id = op.id
        /\ op.id = NoId => op.target \in reported'
    BY <1>0, <1>5 DEF Misreads, ReadErrs
  <2> QED BY <1>0, <1>2, <2>1
<1>6. ~(UNCHANGED vars \/ Surroundings)
  BY DEF vars, Surroundings
<1>7. ~(Apply \/ ApplyStale \/ \E n \in Id : Import(n))
  BY <1>0, IdleIsOperation DEF Apply, ApplyStale, Import
<1>8. ~(\E n \in Id : Posts(n))
  BY <1>0 DEF Posts, Begin
<1>9. ~(Searches \/ Learns \/ \E n \in Id : Finds(n))
  BY <1>0 DEF Searches, Learns, Finds, Operation
<1>10. ~(Puts \/ Reads \/ Deletes \/ ConfirmedNotHA \/ Forgets)
  BY <1>0 DEF Puts, PutTaken, Reads, Deletes, DeleteTaken, ConfirmedNotHA,
     Forgets, Calls
<1>11. ~Stays
  BY <1>0 DEF Stays, Calls
<1> QED
  BY <1>1, <1>3, <1>4, <1>5, <1>6, <1>7, <1>8, <1>9, <1>10, <1>11, Steps
  DEF HandlerShape

(* No step loses sight of an object.                                       *)
LEMMA NextAccounted == IInv /\ [Next]_vars => Accounted'
<1> SUFFICES ASSUME IInv, [Next]_vars, NEW n \in Id,
                    tenant'[n].owner = "terraform", Exists(n)'
             PROVE  \/ n \in {state'.id, op'.target} \cup reported'
                    \/ Overlooked(n)'
  BY DEF Accounted
<1>0. /\ TypeOK /\ Calls /\ Record /\ Lives /\ Born /\ Own /\ Follows
      /\ Accounted /\ Waits
      /\ type' = type /\ reported \subseteq reported' /\ n # NoId
  BY Settings, Grows, NoIdAssumption DEF IInv
<1>1. \A m \in Id : Ages(tenant[m], tenant'[m])
  BY <1>0, NextAges DEF TenantAges
<1>2. CASE tenant[n].phase = "unborn"
  <2>1. Posts(n)
    BY <1>0, <1>2, NewObjects DEF Exists
  <2>2. op'.target = n \/ n \in reported'
    BY <1>0, <2>1 DEF Posts, TypeOK, Operation
  <2> QED BY <2>2
<1>3. CASE tenant[n].phase # "unborn"
  <2>1. tenant[n].phase # "gone" /\ tenant[n].owner = "terraform"
    BY <1>1, <1>3 DEF Ages, Exists
  <2>2. Exists(n)
    BY <1>0, <1>3, <2>1, ObjectParts DEF Exists, Phase
  <2>3. Overlooked(n) => Overlooked(n)'
    BY <1>0, <1>1, OverlookedStays
  <2>4. n \in {state.id, op.target} \cup reported \/ Overlooked(n)
    BY <1>0, <2>1, <2>2 DEF Accounted
  <2>5. CASE n = state.id
    BY <1>0, <2>1, <2>5, LetsGo
  <2>6. CASE n = op.target
    BY <1>0, <2>2, <2>3, <2>6, CreateEnds
  <2> QED BY <1>0, <2>3, <2>4, <2>5, <2>6
<1> QED BY <1>2, <1>3

-----------------------------------------------------------------------------
(* What the record takes for the value in force                            *)

(* An update of a value that is not read is on its way to the planned      *)
(* value until it has ended; once it has ended well, that value is in      *)
(* force, and nothing changes it before the read.                          *)
Awaited ==
  /\ tenant[op.id].phase \notin {"unborn", "provisioning"}
  /\ ~tenant[op.id].job.done =>
       tenant[op.id].phase = "live" /\ tenant[op.id].next = op.val
  /\ tenant[op.id].job.done /\ isSuccessStatus(tenant[op.id].job.code) =>
       tenant[op.id].val = op.val
  /\ op.pc = "read" =>
       \/ tenant[op.id].job.done /\ isSuccessStatus(tenant[op.id].job.code)
       \/ type \in Unwaited

InForce ==
  /\ op.target \in Id =>
       tenant[op.target].val = op.val /\ tenant[op.target].next = op.val
  /\ unread /\ op.kind = "update" /\ op.pc \in {"await", "read"} => Awaited

(* No object but the one of a PUT is given another value to come.          *)
LEMMA ValuesStay ==
  ASSUME TypeOK, Calls, [Next]_vars, op.target \in Id, NEW n \in Id,
         tenant[n].phase # "unborn", tenant[n].val = tenant[n].next
  PROVE  tenant'[n].val = tenant[n].val /\ tenant'[n].next = tenant[n].next
<1>0. tenant \in [Id -> Object] /\ tenant[n] \in Object
        /\ op.kind = "create"
  BY NoIdAssumption DEF TypeOK, Calls
<1>1. CASE UNCHANGED tenant
  BY <1>1
<1>2. ASSUME NEW m \in Id, Changes(m), m # n PROVE tenant'[n] = tenant[n]
  BY <1>0, <1>2 DEF Changes, Begin, ConsoleCreates, ConsoleDeletes, Settle,
     SettleAs, FinishUpdate, UpdateEndsAs, FinishTeardown, FailTeardown,
     PutTaken, DeleteTaken
<1>3. CASE Changes(n)
  <2>1. ~Begin(n) /\ ~ConsoleCreates(n) /\ ~PutTaken
          /\ ~DeleteTaken("delete") /\ ~DeleteTaken("confirmed")
    BY <1>0 DEF Begin, ConsoleCreates, PutTaken, DeleteTaken, Calls
  <2>2. CASE FinishUpdate(n)
    <3>1. PICK c \in {200, 500}, v \in {tenant[n].val, tenant[n].next} :
            UpdateEndsAs(n, c, v)
      BY <2>2 DEF FinishUpdate
    <3>2. tenant'[n].val = v /\ tenant'[n].next = v
      BY <1>0, <3>1 DEF UpdateEndsAs, Object
    <3> QED BY <3>2
  <2>3. CASE ConsoleDeletes(n) \/ FinishTeardown(n) \/ FailTeardown(n)
    BY <1>0, <2>3 DEF ConsoleDeletes, FinishTeardown, FailTeardown, Object
  <2>4. CASE Settle(n)
    <3>1. PICK code \in Codes, p \in {"live", "gone"}, named \in BOOLEAN :
            SettleAs(n, code, p, named)
      BY <2>4 DEF Settle
    <3> QED BY <1>0, <3>1 DEF SettleAs, Object
  <2> QED BY <1>3, <2>1, <2>2, <2>3, <2>4 DEF Changes
<1> QED BY <1>1, <1>2, <1>3, TenantSteps

(* What becomes of an object whose update is waited for.                   *)
LEMMA AwaitedStays ==
  ASSUME TypeOK, Calls, [Next]_vars, op.kind = "update",
         op.pc \in {"await", "read"}, op.id \in Id, Awaited, op' = op
  PROVE  Awaited'
<1> DEFINE n == op.id
           o == tenant[n]
           w == tenant'[n]
<1>0. /\ tenant \in [Id -> Object] /\ o \in Object /\ o.job \in Job(Codes)
      /\ type' = type
  BY ObjectParts, Settings DEF TypeOK
<1>1. ASSUME w = o PROVE Awaited'
  BY <1>0, <1>1 DEF Awaited
<1>2. ASSUME NEW m \in Id, Changes(m), m # n PROVE w = o
  BY <1>0, <1>2 DEF Changes, Begin, ConsoleCreates, ConsoleDeletes, Settle,
     SettleAs, FinishUpdate, UpdateEndsAs, FinishTeardown, FailTeardown,
     PutTaken, DeleteTaken
<1>3. CASE Changes(n)
  <2>1. ~Begin(n) /\ ~ConsoleCreates(n) /\ ~Settle(n) /\ ~PutTaken
          /\ ~DeleteTaken("delete") /\ ~DeleteTaken("confirmed")
    BY DEF Begin, ConsoleCreates, Settle, PutTaken, DeleteTaken, Awaited,
       Calls
  <2>2. CASE \/ ConsoleDeletes(n) /\ o.job.done
             \/ FinishTeardown(n) \/ FailTeardown(n)
    <3>1. o.job.done
      BY <2>2 DEF FinishTeardown, FailTeardown, Awaited
    <3>2. PICK p \in {"deleting", "gone", "live"}, c \in Codes :
            tenant' = [tenant EXCEPT ![n].phase = p, ![n].job = Ended(@, c)]
      BY <2>2 DEF ConsoleDeletes, FinishTeardown, FailTeardown, Codes
    <3>3. Ended(o.job, c) = o.job
      BY <3>1 DEF Ended
    <3>4. w.phase = p /\ w.job = o.job /\ w.val = o.val
      BY <1>0, <3>2, <3>3 DEF Object
    <3> HIDE DEF w, o
    <3>5. w.job.done /\ w.phase \notin {"unborn", "provisioning"}
      BY <3>1, <3>4
    <3> QED BY <1>0, <3>4, <3>5 DEF Awaited, w, o
  <2>3. CASE FinishUpdate(n)
    <3>1. PICK c \in {200, 500}, v \in {tenant[n].val, tenant[n].next} :
            UpdateEndsAs(n, c, v)
      BY <2>3 DEF FinishUpdate
    <3>2. ~o.job.done /\ o.phase = "live"
      BY <2>3 DEF FinishUpdate
    <3>3. /\ o.next = op.val
          /\ op.pc = "read" => type \in Unwaited
      BY <3>2 DEF Awaited
    <3>4. Ended(o.job, c)
            = [done |-> TRUE, code |-> c, resource |-> o.job.resource]
      BY <1>0, <3>2 DEF Ended, Job
    <3>5. w.val = v /\ w.phase = o.phase /\ w.job = Ended(o.job, c)
      BY <1>0, <3>1 DEF UpdateEndsAs, Object
    <3>6. w.job.done /\ w.job.code = c
      BY <3>4, <3>5
    <3>7. c = 500 \/ v = op.val
      BY <3>1, <3>3 DEF UpdateEndsAs
    <3>8. ~isSuccessStatus(500)
      BY DEF isSuccessStatus
    <3> HIDE DEF w, o
    <3> QED
      BY <1>0, <3>2, <3>3, <3>5, <3>6, <3>7, <3>8 DEF Awaited, w, o
  <2>4. CASE ConsoleDeletes(n) /\ ~o.job.done
    <3>1. tenant' = [tenant EXCEPT ![n].phase = "deleting",
                                   ![n].job = Ended(@, 500)]
      BY <2>4 DEF ConsoleDeletes
    <3>2. Ended(o.job, 500)
            = [done |-> TRUE, code |-> 500, resource |-> o.job.resource]
      BY <1>0, <2>4 DEF Ended, Job
    <3>3. w.phase = "deleting" /\ w.job = Ended(o.job, 500)
      BY <1>0, <3>1 DEF Object
    <3>4. /\ w.job.done /\ ~isSuccessStatus(w.job.code)
          /\ op.pc = "read" => type \in Unwaited
      BY <2>4, <3>2, <3>3 DEF isSuccessStatus, Awaited
    <3> HIDE DEF w, o
    <3> QED BY <1>0, <3>3, <3>4 DEF Awaited, w
  <2> QED BY <1>3, <2>1, <2>2, <2>3, <2>4 DEF Changes
<1> QED BY <1>1, <1>2, <1>3, TenantSteps

(* Creates and updates read what they have put in force.                   *)
LEMMA NextInForce ==
  TypeOK /\ Calls /\ Record /\ Lives /\ Born /\ Own /\ InForce /\ [Next]_vars
    => InForce'
<1> SUFFICES ASSUME TypeOK, Calls, Record, Lives, Born, Own, InForce,
                    [Next]_vars
             PROVE  InForce'
  OBVIOUS
<1>0. /\ op \in Operation /\ type' = type /\ unread' = unread
      /\ tenant \in [Id -> Object] /\ want \in 0..MaxVal
  BY Settings DEF TypeOK
<1>1. ASSUME op'.target \in Id
      PROVE  /\ tenant'[op'.target].val = op'.val
             /\ tenant'[op'.target].next = op'.val
  <2>1. op'.target # NoId
    BY <1>1, NoIdAssumption
  <2>2. ASSUME NEW n \in Id, Posts(n), op'.target = n, op'.pc = "poll"
        PROVE  tenant'[n].val = op'.val /\ tenant'[n].next = op'.val
    <3>1. op' # Idle
      BY <2>2, IdleIsOperation
    <3>2. op'.val = op.val
      BY <1>0, <2>2, <3>1 DEF Posts, Operation
    <3>3. tenant'[n].val = op.val /\ tenant'[n].next = op.val
      BY <1>0, <2>2 DEF Posts, Begin, Object
    <3> QED BY <3>2, <3>3
  <2>3. CASE /\ op'.target = op.target /\ op.target \in Id
             /\ \/ op' = op \/ Searches \/ Learns
                \/ \E n \in Id : Finds(n)
    <3>1. op'.val = op.val
      BY <1>0, <2>3 DEF Searches, Learns, Finds, Operation
    <3>2. /\ tenant[op.target].val = op.val /\ tenant[op.target].next = op.val
          /\ tenant[op.target].phase # "unborn"
      BY <2>3 DEF InForce, Born
    <3> QED BY <2>3, <3>1, <3>2, ValuesStay
  <2> QED BY <2>1, <2>2, <2>3, Targets
<1>2. ASSUME unread, op'.kind = "update", op'.pc \in {"await", "read"}
      PROVE  Awaited'
  <2>1. CASE op' = op
    <3>1. op.id \in Id /\ Awaited
      BY <1>2, <2>1, IdsAreIds DEF InForce, Record
    <3> QED BY <1>2, <2>1, <3>1, AwaitedStays
  <2>2. CASE Reads
    <3>1. op.pc = "await" /\ op.kind = "update" /\ tenant' = tenant
            /\ tenant[op.id].job.done
            /\ isSuccessStatus(tenant[op.id].job.code)
      BY <2>2 DEF Reads, Calls
    <3>2. Awaited
      BY <1>2, <3>1 DEF InForce
    <3>3. op'.id = op.id /\ op'.val = op.val
      BY <1>0, <2>2 DEF Reads, Operation
    <3> QED BY <1>0, <3>1, <3>2, <3>3 DEF Awaited
  <2>3. CASE Puts /\ op' # Idle
    <3>1. /\ PutTaken /\ op.id \in Id
          /\ \/ op' = [op EXCEPT !.pc = "await"]
             \/ op' = [op EXCEPT !.pc = "read"] /\ type \in Unwaited
      BY <2>3 DEF Puts, PutTaken, TypeOK
    <3>2. /\ op'.id = op.id /\ op'.val = op.val
          /\ op'.pc = "read" => type \in Unwaited
      BY <1>0, <3>1 DEF Operation
    <3>3. Sent = op.val
      BY <1>2 DEF Sent, TypeOK, Readability, Keeping
    <3>4. /\ tenant[op.id].phase = "live"
          /\ tenant' = [tenant EXCEPT ![op.id].next = Sent,
                                      ![op.id].job = Restarted(@)]
      BY <3>1 DEF PutTaken
    <3>5. /\ tenant'[op.id].phase = "live" /\ tenant'[op.id].next = Sent
          /\ tenant'[op.id].job = Restarted(tenant[op.id].job)
      BY <1>0, <3>1, <3>4 DEF Object
    <3>6. ~tenant'[op.id].job.done
      BY <3>1, <3>5, JobsAreJobs, ObjectParts DEF Codes
    <3> QED BY <1>0, <3>2, <3>3, <3>5, <3>6 DEF Awaited
  <2>4. ~(\/ op' = Idle
          \/ \E s \in Records :
               op' = Planned(s) /\ s.id \in {state.id, op.id, NoId}
          \/ op'.kind = "plan")
    BY <1>0, <1>2, IdleIsOperation, PlannedIds
  <2>5. ~(\E n \in Id : Import(n) \/ Finds(n) \/ Posts(n))
    <3>1. \A n \in Id : Import(n) => op'.kind = "import"
      BY DEF Import, Idle
    <3>2. \A n \in Id : Finds(n) => op'.kind = op.kind /\ op.kind = "create"
      BY <1>0 DEF Finds, Calls, Creating, Operation
    <3>3. \A n \in Id : Posts(n) => op'.pc \in {"poll", "idle"}
      BY <1>0, IdleIsOperation DEF Posts, Operation
    <3> QED BY <1>2, <3>1, <3>2, <3>3
  <2>6. ~(Searches \/ Learns \/ ConfirmedNotHA)
    <3>1. Searches \/ Learns => op'.kind = op.kind /\ op.kind = "create"
      BY <1>0 DEF Searches, Learns, Calls, Creating, Operation
    <3>2. ConfirmedNotHA => op'.pc = "confirmed"
      BY <1>0 DEF ConfirmedNotHA, Operation
    <3> QED BY <1>2, <3>1, <3>2
  <2>7. op' # [op EXCEPT !.pc = "wait"]
    BY <1>0, <1>2 DEF Operation
  <2> QED
    BY <2>1, <2>2, <2>3, <2>4, <2>5, <2>6, <2>7, Going DEF Goes
<1> QED BY <1>0, <1>1, <1>2 DEF InForce

(* A step that records a new value records the one it has read, or one of  *)
(* an attribute that is not read, from the create or the update that has   *)
(* put it in force, but for the three cases of the property.               *)
LEMMA RecordsRight ==
  ASSUME TypeOK, Calls, Record, InForce, [Next]_vars,
         state'.val \notin {0, state.val}
  PROVE  \/ tenant[state'.id].val = state'.val
         \/ unread /\ op.kind = "import" /\ type = "openvpn"
         \/ unread /\ op.kind = "create" /\ op.id # op.target
         \/ /\ unread /\ op.kind = "update" /\ op.pc = "read"
            /\ type \in {"enhanced_static_tunnel", "enhanced_dynamic_tunnel"}
            /\ ~(/\ tenant[op.id].job.done
                 /\ tenant[op.id].job.code = 200)
<1>0. NoRecord.val = 0
  BY DEF NoRecord
<1>1. ReadFinds
  <2>1. ~(Fails \/ \E n \in Id : Posts(n))
    BY <1>0 DEF Fails, CreateFailed, Posts
  <2>2. ~(ReadClears \/ Misreads \/ Forgets)
    BY <1>0 DEF ReadClears, ReadSucceeds, Misreads, ReadErrs, Forgets,
       DeleteReturns
  <2>3. ~(\/ Searches \/ Learns \/ \E n \in Id : Finds(n)
          \/ Puts \/ Reads \/ Stays \/ Deletes \/ ConfirmedNotHA)
    BY DEF Searches, Learns, Finds, Puts, Reads, Stays, Deletes,
       ConfirmedNotHA
  <2>4. state' # state
    OBVIOUS
  <2> QED
    BY <2>1, <2>2, <2>3, <2>4, Steps
    DEF HandlerShape, vars, Surroundings, Apply, ApplyStale, Crash, Import
<1>2. /\ state'.id = op.id /\ state'.val = Shown /\ op.pc = "read"
      /\ op.id \in Id /\ unread \in BOOLEAN
      /\ op.kind \in {"create", "update", "plan", "import"}
  BY <1>1 DEF ReadFinds, ReadSucceeds, Exists, TypeOK, Readability, Calls
<1>3. CASE ~unread
  BY <1>2, <1>3 DEF Shown
<1>4. CASE unread /\ op.kind \in {"plan", "import"}
  BY <1>2, <1>4 DEF Shown
<1>5. CASE unread /\ op.kind = "create"
  <2>1. state'.val = op.val
    BY <1>2, <1>5 DEF Shown
  <2> QED BY <1>2, <1>5, <2>1 DEF InForce
<1>6. CASE unread /\ op.kind = "update"
  <2>1. state'.val = op.val
    BY <1>2, <1>6 DEF Shown
  <2>2. Awaited
    BY <1>2, <1>6 DEF InForce
  <2>3. CASE tenant[op.id].job.done /\ isSuccessStatus(tenant[op.id].job.code)
    BY <1>2, <2>1, <2>2, <2>3 DEF Awaited
  <2>4. CASE ~(/\ tenant[op.id].job.done
               /\ isSuccessStatus(tenant[op.id].job.code))
    <3>1. type \in Unwaited
      BY <1>2, <2>2, <2>4 DEF Awaited
    <3>2. type \in {"enhanced_static_tunnel", "enhanced_dynamic_tunnel"}
      BY <1>6, <3>1 DEF Unwaited, TypeOK, Readability, Keeping
    <3>3. isSuccessStatus(200)
      BY DEF isSuccessStatus
    <3> QED BY <1>2, <1>6, <2>4, <3>2, <3>3
  <2> QED BY <2>3, <2>4
<1> QED BY <1>2, <1>3, <1>4, <1>5, <1>6

-----------------------------------------------------------------------------
(* The theorems                                                            *)

(* Every step keeps the inductive invariant.                               *)
LEMMA NextIInv == IInv /\ [Next]_vars => IInv'
<1> SUFFICES ASSUME IInv, [Next]_vars PROVE IInv'
  OBVIOUS
<1>1. TypeOK' /\ Calls' /\ Record'
  BY NextTypeOK DEF IInv
<1>2. Lives' /\ Born'
  BY NextLives, NextBorn DEF IInv
<1>3. Own' /\ Follows'
  BY NextOwn, NextFollows DEF IInv
<1>4. Accounted'
  BY NextAccounted
<1>5. Waits' /\ HAMembersAreSpared'
  BY NextWaits, NextHA DEF IInv
<1>6. OnlyToldObjectsAreTakenOver'
  BY NextTakeover DEF IInv
<1> QED BY <1>1, <1>2, <1>3, <1>4, <1>5, <1>6 DEF IInv

(* The inductive invariant holds for ever.                                 *)
LEMMA Invariance == Spec => []IInv
BY InitIInv, NextIInv, PTL DEF Spec

(* No object that a create started is lost in silence, whatever fails, is  *)
(* lost, refused or cut short, for any number of objects and faults.       *)
THEOREM OrphansCorrect == Spec => []NoSilentOrphan
<1>1. IInv => NoSilentOrphan
  BY DEF IInv, Accounted, Overlooked, Enhanced, NoSilentOrphan
<1> QED BY <1>1, Invariance, PTL

(* Somebody else's object gets into the record only by an import, by an    *)
(* adoption that warns, or by a lookup by name that was mistaken.          *)
THEOREM TakeoverCorrect == Spec => []OnlyToldObjectsAreTakenOver
<1>1. IInv => OnlyToldObjectsAreTakenOver
  BY DEF IInv
<1> QED BY <1>1, Invariance, PTL

(* No member of an HA pair is deleted through the single-tunnel endpoint.  *)
THEOREM HACorrect == Spec => []HAMembersAreSpared
<1>1. IInv => HAMembersAreSpared
  BY DEF IInv
<1> QED BY <1>1, Invariance, PTL

(* The record lets go of an object only once the tenant has, or with the   *)
(* warning of an application.                                              *)
THEOREM ForgetsCorrect == Spec => ForgetsOnlyTheGone
<1>1. IInv /\ [Next]_vars =>
        [state.id # NoId /\ state'.id # state.id
           => \/ tenant[state.id].phase = "gone"
              \/ type = "application" /\ state.id \in reported']_vars
  BY LetsGo DEF IInv
<1> QED BY <1>1, Invariance, PTL DEF Spec, ForgetsOnlyTheGone

(* A value that enters the record is the one in force, but for the three   *)
(* cases of attributes no read returns: otherwise neither the promise of   *)
(* an update nor its failure is ever taken for its effect.                 *)
THEOREM InForceCorrect == Spec => RecordsOnlyWhatIsInForce
<1> DEFINE FInv == IInv /\ InForce
<1>1. Init => FInv
  <2>1. Init => op = Idle /\ IInv
    BY InitIInv DEF Init
  <2> QED BY <2>1, IdleIsOperation, NoIdAssumption DEF InForce
<1>2. FInv /\ [Next]_vars => FInv'
  BY NextIInv, NextInForce DEF IInv
<1>3. FInv /\ [Next]_vars =>
        [state'.val \notin {0, state.val}
           => \/ tenant[state'.id].val = state'.val
              \/ unread /\ op.kind = "import" /\ type = "openvpn"
              \/ unread /\ op.kind = "create" /\ op.id # op.target
              \/ /\ unread /\ op.kind = "update" /\ op.pc = "read"
                 /\ type \in {"enhanced_static_tunnel",
                              "enhanced_dynamic_tunnel"}
                 /\ ~(/\ tenant[op.id].job.done
                      /\ tenant[op.id].job.code = 200)]_vars
  BY RecordsRight DEF IInv
<1> HIDE DEF FInv
<1> QED BY <1>1, <1>2, <1>3, PTL DEF Spec, RecordsOnlyWhatIsInForce
=============================================================================
