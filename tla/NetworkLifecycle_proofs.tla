----------------------- MODULE NetworkLifecycle_proofs -----------------------
(***************************************************************************)
(* Proofs about the life of a checkpointsase_network address, for any      *)
(* number of networks, faults and edits.                                   *)
(***************************************************************************)
EXTENDS NetworkLifecycle, TLAPS

(* Which handler makes which call.                                         *)
Calls ==
  /\ op.pc \in {"post", "poll", "list"} => op.kind = "create"
  /\ op.pc = "read" => op.kind \in {"create", "refresh", "import"}
  /\ op.pc \in {"delete", "wait"} => op.kind \in {"replace", "destroy"}

(* A handler that creates or imports starts from an empty record, and one  *)
(* that reads or deletes works on the id of the record.                    *)
Record ==
  /\ op.kind \in {"create", "import"} => state.id = NoId
  /\ op.kind \in {"replace", "destroy", "refresh"} =>
       state.id # NoId /\ op.id = state.id

(* Every id that is anywhere in use was given out by the tenant.           *)
Born ==
  \A n \in NetId :
    n \in {state.id, op.id, op.target} \cup timedOut =>
      tenant[n].phase # "unborn"

(* A create polls the network its own POST started.                        *)
Own ==
  op.pc = "poll" =>
    op.target \in NetId /\ tenant[op.target].owner = "terraform"

(* A network whose operation ended in a conflict is gone: no lookup finds  *)
(* it and no import reads it.                                              *)
LosersAreGone ==
  \A n \in NetId : tenant[n].job.code = 409 => tenant[n].phase = "gone"

(* Once a poll has reported a conflict, nobody works on that network, save *)
(* for an import that will not find it.                                    *)
Refused ==
  /\ \A n \in refused : tenant[n].phase = "gone"
  /\ op.target \notin refused /\ state.id \notin refused
  /\ op.kind # "import" => op.id \notin refused

(* The inductive invariant.                                                *)
IInv ==
  /\ TypeOK /\ Calls /\ Record /\ Born /\ Own /\ LosersAreGone /\ Refused
  /\ OnlyToldNetworksAreTakenOver
  /\ TimedOutCreateLeavesNoOrphan

-----------------------------------------------------------------------------
(* What any step may do to the tenant: a network keeps its owner once it   *)
(* is born, is never unborn again, and never comes back.                   *)
TenantAges ==
  /\ tenant' \in [NetId -> Network]
  /\ \A n \in NetId :
       /\ tenant[n].phase # "unborn" =>
            tenant'[n].phase # "unborn" /\ tenant'[n].owner = tenant[n].owner
       /\ tenant[n].phase = "gone" => tenant'[n].phase = "gone"

(* One network changes, in a way that is an ageing of it.                  *)
LEMMA OneAges ==
  ASSUME TypeOK, NEW n \in NetId, NEW w \in Network,
         tenant' = [tenant EXCEPT ![n] = w],
         tenant[n].phase # "unborn" =>
           w.phase # "unborn" /\ w.owner = tenant[n].owner,
         tenant[n].phase = "gone" => w.phase = "gone"
  PROVE  TenantAges
BY DEF TypeOK, TenantAges

LEMMA SetPhaseAges ==
  ASSUME TypeOK, NEW n \in NetId, NEW p \in Phase, SetPhase(n, p),
         tenant[n].phase # "unborn" => p # "unborn",
         tenant[n].phase = "gone" => p = "gone"
  PROVE  TenantAges
<1> DEFINE w == [tenant[n] EXCEPT !.phase = p]
<1>1. tenant' = [tenant EXCEPT ![n] = w]
  BY DEF SetPhase, TypeOK
<1>2. /\ w \in Network
      /\ w.phase = p
      /\ w.owner = tenant[n].owner
  BY DEF TypeOK, Network
<1> HIDE DEF w
<1> QED BY <1>1, <1>2, OneAges

LEMMA SetOwnerAges ==
  ASSUME TypeOK, NEW n \in NetId, NEW p \in Phase,
         NEW o \in {"terraform", "other"},
         tenant[n].phase = "unborn",
         tenant' = [tenant EXCEPT ![n].phase = p, ![n].owner = o]
  PROVE  TenantAges
<1> DEFINE w == [tenant[n] EXCEPT !.phase = p, !.owner = o]
<1>1. tenant' = [tenant EXCEPT ![n] = w]
  BY DEF TypeOK
<1>2. w \in Network
  BY DEF TypeOK, Network
<1> HIDE DEF w
<1> QED BY <1>1, <1>2, OneAges

LEMMA SetJobAges ==
  ASSUME TypeOK, NEW n \in NetId, NEW p \in Phase, NEW j \in Job(Codes),
         tenant' = [tenant EXCEPT ![n].phase = p, ![n].job = j],
         tenant[n].phase # "gone", p # "unborn"
  PROVE  TenantAges
<1> DEFINE w == [tenant[n] EXCEPT !.phase = p, !.job = j]
<1>1. tenant' = [tenant EXCEPT ![n] = w]
  BY DEF TypeOK
<1>2. w \in Network /\ w.phase = p /\ w.owner = tenant[n].owner
  BY DEF TypeOK, Network
<1> HIDE DEF w
<1> QED BY <1>1, <1>2, OneAges

(* The steps that change the tenant.                                       *)
LEMMA TenantSteps ==
  ASSUME [Next]_vars
  PROVE  \/ UNCHANGED tenant
         \/ DeleteAccepted \/ DeleteReplyLost
         \/ \E n \in NetId :
              \/ Post(n) \/ ConsoleCreates(n) \/ ConsoleDeletes(n)
              \/ FinishTeardown(n) \/ Settle(n) \/ NameObject(n)
BY DEF Next, Apply, Refresh, EditConfig, Crash, Rest, Handler, Backend,
   Console, Import, Create, CreateAccepted, CreateReplyLost, Adopt,
   CreateRefused, PollPending, CreateSucceeds, CreateTimesOut, CreateFails,
   CreateConflicts, LookUp, PollEnds, NothingToAdopt, ListFails, Read,
   ReadFinds, ReadGone, ReadFails, Delete, DeleteOfGone, DeleteRefused,
   WaitSeesGone, WaitGivesUp, vars

LEMMA NextAges == TypeOK /\ [Next]_vars => TenantAges
<1> SUFFICES ASSUME TypeOK, [Next]_vars PROVE TenantAges
  OBVIOUS
<1>1. ASSUME UNCHANGED tenant PROVE TenantAges
  BY <1>1 DEF TypeOK, TenantAges
<1>2. ASSUME NEW n \in NetId, Post(n) PROVE TenantAges
  BY <1>2, SetOwnerAges DEF Post, Phase
<1>3. ASSUME NEW n \in NetId, ConsoleCreates(n) PROVE TenantAges
  BY <1>3, SetOwnerAges DEF ConsoleCreates, Phase
<1>4. ASSUME NEW n \in NetId, ConsoleDeletes(n) PROVE TenantAges
  BY <1>4, SetPhaseAges DEF ConsoleDeletes, Phase
<1>5. ASSUME DeleteAccepted \/ DeleteReplyLost PROVE TenantAges
  <2>1. op.id \in NetId /\ SetPhase(op.id, "deleting")
          /\ tenant[op.id].phase # "gone"
    BY <1>5 DEF DeleteAccepted, DeleteReplyLost, TearDown, Exists
  <2> QED BY <2>1, SetPhaseAges DEF Phase
<1>6. ASSUME NEW n \in NetId, FinishTeardown(n) PROVE TenantAges
  <2> DEFINE j == IF tenant[n].job.done THEN tenant[n].job
                  ELSE [tenant[n].job EXCEPT !.done = TRUE, !.code = 500]
  <2>1. j \in Job(Codes)
    <3>1. tenant[n].job \in Job(Codes)
      BY DEF TypeOK, Network
    <3>2. CASE tenant[n].job.done
      BY <3>1, <3>2
    <3>3. CASE ~tenant[n].job.done
      BY <3>1, <3>3 DEF Job, Codes
    <3> QED BY <3>2, <3>3
  <2>2. tenant' = [tenant EXCEPT ![n].phase = "gone", ![n].job = j]
    BY <1>6 DEF FinishTeardown
  <2> HIDE DEF j
  <2> QED BY <1>6, <2>1, <2>2, SetJobAges DEF FinishTeardown, Phase
<1>7. ASSUME NEW n \in NetId, Settle(n) PROVE TenantAges
  <2>1. PICK code \in Codes, p \in {"live", "gone"}, named \in BOOLEAN :
          SettleAs(n, code, p, named)
    BY <1>7 DEF Settle
  <2> DEFINE j == [done |-> TRUE, code |-> code,
                   resource |-> tenant[n].job.resource \/ named]
  <2>2. j \in Job(Codes)
    BY DEF TypeOK, Network, Job
  <2>3. /\ tenant' = [tenant EXCEPT ![n].phase = p, ![n].job = j]
        /\ tenant[n].phase = "provisioning"
    BY <2>1 DEF SettleAs
  <2>4. p \in Phase /\ p # "unborn"
    BY DEF Phase
  <2> HIDE DEF j
  <2> QED BY <2>2, <2>3, <2>4, SetJobAges
<1>8. ASSUME NEW n \in NetId, NameObject(n) PROVE TenantAges
  <2> DEFINE w == [tenant[n] EXCEPT
                     !.job = [tenant[n].job EXCEPT !.resource = TRUE]]
  <2>1. tenant' = [tenant EXCEPT ![n] = w]
    BY <1>8 DEF NameObject, TypeOK
  <2>2. tenant[n] \in Network /\ tenant[n].job \in Job(Codes)
    BY DEF TypeOK, Network
  <2>3. [tenant[n].job EXCEPT !.resource = TRUE] \in Job(Codes)
    BY <2>2 DEF Job
  <2>4. w \in Network /\ w.phase = tenant[n].phase /\ w.owner = tenant[n].owner
    BY <2>2, <2>3 DEF Network
  <2> HIDE DEF w
  <2> QED BY <2>1, <2>4, OneAges
<1> QED
  BY <1>1, <1>2, <1>3, <1>4, <1>5, <1>6, <1>7, <1>8, TenantSteps

-----------------------------------------------------------------------------
(* Type correctness                                                        *)

LEMMA IdleIsOperation == Idle \in Operation
BY DEF Idle, Operation

(* A step is one of Terraform core, of a handler, or of the surroundings,  *)
(* which leave the record, the operation and the history alone.            *)
Surroundings ==
  \/ EditConfig
  \/ \E n \in NetId :
       \/ Settle(n) \/ FinishTeardown(n) \/ NameObject(n)
       \/ ConsoleCreates(n) \/ ConsoleDeletes(n)

LEMMA SurroundingsLeave ==
  Surroundings => UNCHANGED <<state, op, told, refused, timedOut>>
BY DEF Surroundings, EditConfig, Settle, SettleAs, FinishTeardown, NameObject,
   ConsoleCreates, ConsoleDeletes, history

LEMMA Steps ==
  ASSUME [Next]_vars
  PROVE  \/ UNCHANGED vars \/ Surroundings
         \/ Apply \/ Refresh \/ Crash \/ Handler
         \/ \E n \in NetId : Import(n)
BY DEF Next, Rest, Backend, Console, Surroundings

(* A conflict is on the history only when a poll has reported it, and the  *)
(* create returns with it.                                                 *)
Refusals ==
  \/ refused' = refused
  \/ /\ op.pc = "poll" /\ refused' = refused \cup {op.target}
     /\ tenant[op.target].job.code = 409
     /\ CreateReturns(NoId, TRUE) /\ UNCHANGED tenant

LEMMA NextRefusals == [Next]_vars => Refusals
<1> SUFFICES ASSUME [Next]_vars PROVE Refusals
  OBVIOUS
<1>1. ASSUME NEW v, NEW c, PollEnds(v, c), v # asyncFailedError(409)
      PROVE  refused' = refused
  BY <1>1 DEF PollEnds
<1>2. ASSUME NEW v, NEW c, CreateConflicts(v, c) PROVE Refusals
  <2>1. v = asyncFailedError(tenant[op.target].job.code)
    BY <1>2 DEF CreateConflicts, PollEnds, Justified, isAsyncConflict, Plain
  <2>2. tenant[op.target].job.code = 409
    BY <1>2, <2>1
    DEF CreateConflicts, isAsyncConflict, classifyAPIError, asyncFailedError
  <2> QED BY <1>2, <2>1, <2>2 DEF CreateConflicts, PollEnds, Refusals
<1>3. ASSUME NEW v, NEW c, LookUp(v, c) PROVE refused' = refused
  <2>1. isAsyncConflict(asyncFailedError(409))
    BY DEF isAsyncConflict, classifyAPIError, asyncFailedError
  <2> QED BY <1>1, <1>3, <2>1 DEF LookUp
<1>4. ASSUME CreateSucceeds \/ \E c : CreateTimesOut(c)
      PROVE  refused' = refused
  <2>1. Plain("ok") # asyncFailedError(409)
          /\ Plain("deadline") # asyncFailedError(409)
    BY DEF Plain, asyncFailedError
  <2> QED BY <1>1, <1>4, <2>1 DEF CreateSucceeds, CreateTimesOut
<1>5. CASE Handler
  <2>1. ASSUME NEW n \in NetId, CreateAccepted(n) \/ CreateReplyLost(n) \/ Adopt(n)
        PROVE  refused' = refused
    BY <2>1 DEF CreateAccepted, CreateReplyLost, Post, Adopt, history
  <2>2. ASSUME \/ CreateRefused \/ PollPending \/ NothingToAdopt \/ ListFails
               \/ Read \/ Delete
        PROVE  refused' = refused
    BY <2>2 DEF CreateRefused, PollPending, NothingToAdopt, ListFails, Read,
       ReadFinds, ReadGone, ReadFails, Delete, DeleteOfGone, DeleteRefused,
       DeleteReplyLost, DeleteAccepted, WaitSeesGone, WaitGivesUp, history
  <2> QED
    BY <1>2, <1>3, <1>4, <1>5, <2>1, <2>2
    DEF Handler, Create, CreateFails, Refusals
<1>6. ASSUME UNCHANGED vars \/ Apply \/ Refresh \/ Crash \/ \E n \in NetId : Import(n)
      PROVE  refused' = refused
  BY <1>6 DEF vars, Apply, Refresh, Crash, Import, history
<1> QED BY <1>5, <1>6, Steps, SurroundingsLeave DEF Refusals

LEMMA InitTypeOK == Init => TypeOK
<1> SUFFICES ASSUME Init PROVE TypeOK
  OBVIOUS
<1>1. Unborn \in Network
  BY DEF Unborn, Network, Phase, Running, Job
<1>2. tenant \in [NetId -> Network]
  BY <1>1 DEF Init
<1>3. Idle.pc # "poll"
  BY DEF Idle
<1> QED
  BY <1>2, <1>3, IdleIsOperation, BoundsAssumption DEF Init, TypeOK, NoRecord

(* The counters of the bounds stay within them.                            *)
LEMMA BoundsHold ==
  ASSUME TypeOK, Fault \/ Edit \/ UNCHANGED bounds
  PROVE  faults' \in 0..MaxFaults /\ edits' \in 0..MaxEdits
BY BoundsAssumption DEF TypeOK, Fault, Edit, bounds

(* What the three ways of returning leave in the record and the operation. *)
LEMMA ReturnsOK ==
  ASSUME TypeOK, NEW id \in NetId \cup {NoId}, NEW errors \in BOOLEAN,
         \/ CreateReturns(id, errors)
         \/ DeleteReturns(id)
         \/ /\ ReadReturns(id, errors)
            /\ op.kind \in {"create", "refresh", "import"}
  PROVE  /\ state' \in [id : NetId \cup {NoId}, tainted : BOOLEAN]
         /\ op' \in Operation
<1>1. CASE CreateReturns(id, errors)
  BY <1>1, IdleIsOperation DEF CreateReturns
<1>2. CASE DeleteReturns(id)
  <2>1. [Idle EXCEPT !.pc = "post", !.kind = "create"] \in Operation
    BY DEF Idle, Operation
  <2> QED BY <1>2, <2>1, IdleIsOperation DEF DeleteReturns, TypeOK, NoRecord
<1>3. CASE ReadReturns(id, errors)
             /\ op.kind \in {"create", "refresh", "import"}
  <2>1. [id |-> id, tainted |-> errors /\ id # NoId]
          \in [id : NetId \cup {NoId}, tainted : BOOLEAN]
    OBVIOUS
  <2>2. /\ NoRecord \in [id : NetId \cup {NoId}, tainted : BOOLEAN]
        /\ [id |-> id, tainted |-> FALSE]
             \in [id : NetId \cup {NoId}, tainted : BOOLEAN]
    BY DEF NoRecord
  <2>3. CASE op.kind = "create"
    BY <1>3, <2>1, <2>3, IdleIsOperation DEF ReadReturns
  <2>4. CASE op.kind = "refresh"
    BY <1>3, <2>2, <2>4, IdleIsOperation DEF ReadReturns, TypeOK
  <2>5. CASE op.kind = "import"
    BY <1>3, <2>2, <2>5, IdleIsOperation DEF ReadReturns, TypeOK
  <2> QED BY <1>3, <2>3, <2>4, <2>5
<1> QED BY <1>1, <1>2, <1>3

LEMMA NextTypeOK == TypeOK /\ Calls /\ Own /\ [Next]_vars => TypeOK'
<1> SUFFICES ASSUME TypeOK, Calls, Own, [Next]_vars PROVE TypeOK'
  OBVIOUS
<1>1. tenant' \in [NetId -> Network]
  BY NextAges DEF TenantAges
<1>2. faults' \in 0..MaxFaults /\ edits' \in 0..MaxEdits
  <2>1. Fault \/ Edit \/ UNCHANGED bounds
    BY DEF Next, Apply, Refresh, EditConfig, Crash, Rest, Handler, Backend,
       Console, Import, Create, CreateAccepted, CreateReplyLost, Adopt,
       CreateRefused, PollPending, CreateSucceeds, CreateTimesOut,
       CreateFails, CreateConflicts, LookUp, PollEnds, NothingToAdopt,
       ListFails, Read, ReadFinds, ReadGone, ReadFails, Delete, DeleteOfGone,
       DeleteRefused, DeleteReplyLost, DeleteAccepted, WaitSeesGone,
       WaitGivesUp, Settle, SettleAs, FinishTeardown, ConsoleCreates,
       ConsoleDeletes, NameObject, vars, bounds
  <2> QED BY <2>1, BoundsHold
<1>3. want' \in BOOLEAN
  <2>1. CASE EditConfig
    BY <2>1 DEF EditConfig
  <2>2. ASSUME Handler PROVE want' = want
    BY <2>2
    DEF Handler, Create, CreateAccepted, CreateReplyLost, Post, Adopt,
        CreateRefused, PollPending, CreateSucceeds, CreateTimesOut,
        CreateFails, CreateConflicts, LookUp, PollEnds, NothingToAdopt,
        ListFails, Read, ReadFinds, ReadGone, ReadFails, Delete, DeleteOfGone,
        DeleteRefused, DeleteReplyLost, DeleteAccepted, WaitSeesGone,
        WaitGivesUp
  <2>3. ASSUME NEW n \in NetId,
               \/ Settle(n) \/ FinishTeardown(n) \/ NameObject(n)
               \/ ConsoleCreates(n) \/ ConsoleDeletes(n) \/ Import(n)
        PROVE  want' = want
    BY <2>3 DEF Settle, SettleAs, FinishTeardown, NameObject, ConsoleCreates,
       ConsoleDeletes, Import
  <2>4. ASSUME UNCHANGED vars \/ Apply \/ Refresh \/ Crash
        PROVE  want' = want
    BY <2>4 DEF vars, Apply, Refresh, Crash
  <2> QED BY <2>1, <2>2, <2>3, <2>4, Steps DEF Surroundings, TypeOK
<1>7. refused' \subseteq NetId
  <2>1. \/ refused' = refused
        \/ op.pc = "poll" /\ refused' = refused \cup {op.target}
    BY NextRefusals DEF Refusals
  <2>2. refused \subseteq NetId /\ (op.pc = "poll" => op.target \in NetId)
    BY DEF TypeOK
  <2> QED BY <2>1, <2>2
<1>5. told' \subseteq NetId /\ timedOut' \subseteq NetId
  <2>1. \/ UNCHANGED <<told, timedOut>>
        \/ \E c : CreateTimesOut(c)
        \/ \E n \in NetId : Import(n) \/ Adopt(n)
    <3>1. CASE Handler
      BY <3>1
      DEF Handler, Create, CreateAccepted, CreateReplyLost, Post,
          CreateRefused, PollPending, CreateSucceeds, CreateFails,
          CreateConflicts, LookUp, PollEnds, NothingToAdopt, ListFails, Read,
          ReadFinds, ReadGone, ReadFails, Delete, DeleteOfGone,
          DeleteRefused, DeleteReplyLost, DeleteAccepted, WaitSeesGone,
          WaitGivesUp, history
    <3>2. CASE UNCHANGED vars \/ Apply \/ Refresh \/ Crash
      BY <3>2 DEF vars, Apply, Refresh, Crash, history
    <3> QED BY <3>1, <3>2, Steps, SurroundingsLeave
  <2>2. CASE UNCHANGED <<told, timedOut>>
    BY <2>2 DEF TypeOK
  <2>3. CASE \E c : CreateTimesOut(c)
    BY <2>3 DEF CreateTimesOut, PollEnds, Own, TypeOK
  <2>4. CASE \E n \in NetId : Import(n) \/ Adopt(n)
    BY <2>4 DEF Import, Adopt, TypeOK
  <2> QED BY <2>1, <2>2, <2>3, <2>4
<1>4. /\ state' \in [id : NetId \cup {NoId}, tainted : BOOLEAN]
      /\ op' \in Operation
  <2>1. CASE UNCHANGED <<state, op>>
    BY <2>1 DEF TypeOK
  <2>2. CASE Apply \/ Refresh \/ \E n \in NetId : Import(n)
    <3>1. \A p \in {"post", "read", "delete"}, id \in NetId \cup {NoId},
             k \in {"create", "replace", "destroy", "refresh", "import"} :
            [Idle EXCEPT !.pc = p, !.kind = k, !.id = id] \in Operation
      BY DEF Idle, Operation
    <3>2. [Idle EXCEPT !.pc = "post", !.kind = "create"] \in Operation
      BY DEF Idle, Operation
    <3>3. state.id \in NetId \cup {NoId}
      BY DEF TypeOK
    <3>4. CASE Apply
      BY <3>1, <3>2, <3>3, <3>4 DEF Apply, TypeOK
    <3>5. CASE Refresh
      BY <3>1, <3>3, <3>5 DEF Refresh, TypeOK
    <3>6. ASSUME NEW n \in NetId, Import(n)
          PROVE  state' = state /\ op' \in Operation
      BY <3>1, <3>6 DEF Import
    <3> QED BY <2>2, <3>4, <3>5, <3>6 DEF TypeOK
  <2>3. CASE Crash
    BY <2>3, IdleIsOperation DEF Crash, TypeOK
  <2>4. CASE \E n \in NetId : CreateAccepted(n) \/ Adopt(n)
    BY <2>4 DEF CreateAccepted, Adopt, TypeOK, Operation
  <2>5. CASE PollPending
    <3>1. tenant[op.target].job.resource \in BOOLEAN
      BY <2>5 DEF PollPending, Own, TypeOK, Network, Job
    <3> QED BY <2>5, <3>1 DEF PollPending, TypeOK, Operation
  <2>6. CASE CreateSucceeds
    <3>1. op.target \in NetId
      BY <2>6 DEF CreateSucceeds, PollEnds, Own
    <3> QED BY <2>6, <3>1 DEF CreateSucceeds, TypeOK, Operation
  <2>7. ASSUME NEW v, NEW c, LookUp(v, c)
        PROVE  op' \in Operation /\ state' = state
    BY <2>7 DEF LookUp, TypeOK, Operation
  <2>8. CASE \/ CreateRefused \/ NothingToAdopt \/ ListFails
             \/ \E c : CreateTimesOut(c)
             \/ \E v, c : CreateConflicts(v, c)
             \/ \E n \in NetId : CreateReplyLost(n)
    <3>1. \E id \in NetId \cup {NoId} : CreateReturns(id, TRUE)
      BY <2>8 DEF CreateTimesOut, CreateRefused, NothingToAdopt, ListFails,
         CreateConflicts, CreateReplyLost, PollEnds, Own
    <3> QED BY <3>1, ReturnsOK
  <2>9. CASE Read
    <3>1. \E id \in NetId \cup {NoId}, errors \in BOOLEAN :
            ReadReturns(id, errors)
      BY <2>9 DEF Read, ReadFinds, ReadGone, ReadFails, TypeOK, Operation
    <3>2. op.kind \in {"create", "refresh", "import"}
      BY <2>9 DEF Read, ReadFinds, ReadGone, ReadFails, Calls
    <3> QED BY <3>1, <3>2, ReturnsOK
  <2>10. CASE DeleteAccepted
    BY <2>10 DEF DeleteAccepted, TypeOK, Operation
  <2>11. CASE \/ DeleteOfGone \/ DeleteRefused \/ DeleteReplyLost
              \/ WaitSeesGone \/ WaitGivesUp
    <3>1. \E id \in NetId \cup {NoId} : DeleteReturns(id)
      BY <2>11 DEF DeleteOfGone, DeleteRefused, DeleteReplyLost,
         WaitSeesGone, WaitGivesUp, TypeOK, Operation
    <3> QED BY <3>1, ReturnsOK
  <2>12. ASSUME Create
         PROVE  /\ state' \in [id : NetId \cup {NoId}, tainted : BOOLEAN]
                /\ op' \in Operation
    BY <2>12, <2>4, <2>5, <2>6, <2>7, <2>8 DEF Create, CreateFails, TypeOK
  <2>13. CASE Delete
    BY <2>13, <2>10, <2>11 DEF Delete
  <2>14. CASE UNCHANGED vars \/ Surroundings
    BY <2>14, <2>1, SurroundingsLeave DEF vars
  <2> QED
    BY <2>2, <2>3, <2>9, <2>12, <2>13, <2>14, Steps DEF Handler
<1>6. op'.pc = "poll" => op'.target \in NetId
  <2>1. Idle.pc # "poll"
        /\ [Idle EXCEPT !.pc = "post", !.kind = "create"].pc # "poll"
    BY DEF Idle
  <2>2. op \in Operation
    BY DEF TypeOK
  <2>3. ASSUME Read PROVE op' = Idle
    <3>1. \E id, errors : ReadReturns(id, errors)
      BY <2>3 DEF Read, ReadFinds, ReadGone, ReadFails
    <3> QED BY <3>1 DEF ReadReturns
  <2>4. ASSUME \/ DeleteOfGone \/ DeleteRefused \/ DeleteReplyLost
               \/ WaitSeesGone \/ WaitGivesUp
        PROVE  \/ op' = Idle
               \/ op' = [Idle EXCEPT !.pc = "post", !.kind = "create"]
    BY <2>4 DEF DeleteOfGone, DeleteRefused, DeleteReplyLost, WaitSeesGone,
       WaitGivesUp, DeleteReturns
  <2>5. ASSUME DeleteAccepted PROVE op'.pc = "wait"
    BY <2>2, <2>5 DEF DeleteAccepted, Operation
  <2>6. ASSUME \/ CreateRefused \/ \E c : CreateTimesOut(c)
               \/ NothingToAdopt \/ ListFails
               \/ \E v, c : CreateConflicts(v, c)
               \/ \E n \in NetId : CreateReplyLost(n)
        PROVE  op' = Idle
    BY <2>6 DEF CreateTimesOut, CreateRefused, NothingToAdopt, ListFails,
       CreateConflicts, CreateReplyLost, CreateReturns
  <2>7. ASSUME \/ CreateSucceeds
               \/ \E v, c : LookUp(v, c)
               \/ \E n \in NetId : Adopt(n)
        PROVE  op'.pc # "poll"
    BY <2>2, <2>7 DEF CreateSucceeds, LookUp, Adopt, Operation
  <2>8. ASSUME NEW n \in NetId, CreateAccepted(n) PROVE op'.target \in NetId
    BY <2>2, <2>8 DEF CreateAccepted, Operation
  <2>9. ASSUME PollPending PROVE op'.target \in NetId
    BY <2>2, <2>9 DEF PollPending, TypeOK, Operation
  <2>10. CASE Create
    BY <2>1, <2>6, <2>7, <2>8, <2>9, <2>10 DEF Create, CreateFails
  <2>11. CASE Delete
    BY <2>1, <2>4, <2>5, <2>11 DEF Delete
  <2>12. CASE \/ Apply \/ Refresh \/ Crash \/ \E n \in NetId : Import(n)
    <3>1. \/ op' = Idle
          \/ op' = [Idle EXCEPT !.pc = "post", !.kind = "create"]
          \/ \E p \in {"read", "delete"} : \E k, id :
               op' = [Idle EXCEPT !.pc = p, !.kind = k, !.id = id]
      BY <2>12 DEF Apply, Refresh, Crash, Import
    <3> QED BY <2>1, <3>1 DEF Idle
  <2>13. CASE UNCHANGED vars \/ Surroundings
    BY <2>13, SurroundingsLeave DEF vars, TypeOK
  <2> QED
    BY <2>1, <2>3, <2>10, <2>11, <2>12, <2>13, Steps DEF Handler
<1> QED BY <1>1, <1>2, <1>3, <1>4, <1>5, <1>6, <1>7 DEF TypeOK

-----------------------------------------------------------------------------
(* The calls of the handlers, and the record they work on                  *)

ReturnsFromCreate ==
  \/ CreateRefused \/ NothingToAdopt \/ ListFails
  \/ \E c : CreateTimesOut(c)
  \/ \E v, c : CreateConflicts(v, c)
  \/ \E n \in NetId : CreateReplyLost(n)

ContinuesCreate ==
  \/ PollPending \/ CreateSucceeds
  \/ \E v, c : LookUp(v, c)
  \/ \E n \in NetId : CreateAccepted(n) \/ Adopt(n)

ReturnsFromDelete ==
  \/ DeleteOfGone \/ DeleteRefused \/ DeleteReplyLost
  \/ WaitSeesGone \/ WaitGivesUp

LEMMA HandlerSteps ==
  Handler => \/ ReturnsFromCreate \/ ContinuesCreate
             \/ Read
             \/ DeleteAccepted \/ ReturnsFromDelete
BY DEF Handler, Create, CreateFails, Delete, ReturnsFromCreate,
   ContinuesCreate, ReturnsFromDelete

(* A create that returns records the id its poll read, or none at all.     *)
LEMMA CreateReturnsId ==
  ASSUME ReturnsFromCreate
  PROVE  /\ op.pc \in {"post", "poll", "list"}
         /\ \/ CreateReturns(NoId, TRUE)
            \/ /\ \E c : CreateTimesOut(c)
               /\ CreateReturns(op.target, TRUE)
BY DEF ReturnsFromCreate, CreateTimesOut, CreateRefused, NothingToAdopt,
   ListFails, CreateConflicts, PollEnds, CreateReplyLost, Post

(* A read returns the id it was given, or none when the network is not     *)
(* there; it leaves the tenant alone.                                      *)
LEMMA ReadReturnsId ==
  ASSUME TypeOK, Read
  PROVE  /\ op.pc = "read" /\ UNCHANGED <<tenant, told, timedOut>>
         /\ \E errors \in BOOLEAN :
              \/ (Exists(op.id) \/ errors) /\ ReadReturns(op.id, errors)
              \/ ~Exists(op.id) /\ ReadReturns(NoId, errors)
<1>1. op.errors \in BOOLEAN /\ (op.errors \/ op.kind = "import") \in BOOLEAN
  BY DEF TypeOK, Operation
<1> QED
  BY <1>1 DEF Read, ReadFinds, ReadGone, ReadFails, history

(* A delete that returns keeps the id unless the network is not there.     *)
LEMMA DeleteReturnsId ==
  ASSUME ReturnsFromDelete
  PROVE  /\ op.pc \in {"delete", "wait"} /\ UNCHANGED <<told, timedOut>>
         /\ \/ DeleteReturns(op.id)
            \/ ~Exists(op.id) /\ DeleteReturns(NoId) /\ UNCHANGED tenant
BY DEF ReturnsFromDelete, DeleteOfGone, DeleteRefused, DeleteReplyLost,
   WaitSeesGone, WaitGivesUp, history

(* What any step may do to the id on record.                               *)
RecordMoves ==
  \/ state'.id = state.id
  \/ /\ state'.id = NoId /\ state.id \in NetId
     /\ tenant[state.id].phase = "gone" /\ tenant' = tenant
  \/ /\ state.id = NoId /\ state'.id \in NetId /\ tenant' = tenant
     /\ \/ state'.id = op.id /\ (op.kind = "import" => Exists(op.id))
        \/ op.pc = "poll" /\ state'.id = op.target

(* A network that an id in use stands for and that is not there is gone.   *)
LEMMA BornAndAbsent ==
  ASSUME TypeOK, Born, state.id \in NetId, ~Exists(state.id)
  PROVE  tenant[state.id].phase = "gone"
BY DEF TypeOK, Born, Exists, Network, Phase

LEMMA StepMovesRecord == IInv /\ [Next]_vars => RecordMoves
<1> SUFFICES ASSUME IInv, [Next]_vars PROVE RecordMoves
  OBVIOUS
<1> USE DEF IInv
<1>0. state.id \in NetId \cup {NoId} /\ op.id \in NetId \cup {NoId}
  BY DEF TypeOK, Operation
<1>1. CASE ReturnsFromCreate
  <2>1. state.id = NoId
    BY <1>1, CreateReturnsId DEF Calls, Record
  <2>2. CASE CreateReturns(NoId, TRUE)
    BY <2>1, <2>2 DEF CreateReturns, RecordMoves
  <2>3. CASE (\E c : CreateTimesOut(c)) /\ CreateReturns(op.target, TRUE)
    BY <2>1, <2>3
    DEF CreateReturns, CreateTimesOut, PollEnds, Own, RecordMoves
  <2> QED BY <1>1, <2>2, <2>3, CreateReturnsId
<1>2. CASE Read
  <2>1. PICK errors \in BOOLEAN :
          /\ op.pc = "read" /\ tenant' = tenant
          /\ \/ (Exists(op.id) \/ errors) /\ ReadReturns(op.id, errors)
             \/ ~Exists(op.id) /\ ReadReturns(NoId, errors)
    BY <1>2, ReadReturnsId
  <2>2. CASE op.kind = "create"
    BY <1>0, <2>1, <2>2 DEF ReadReturns, RecordMoves, Record
  <2>3. CASE op.kind = "import"
    BY <1>0, <2>1, <2>3 DEF ReadReturns, RecordMoves, Record
  <2>4. CASE op.kind = "refresh"
    BY <1>0, <2>1, <2>4, BornAndAbsent
    DEF ReadReturns, RecordMoves, Record, NoRecord
  <2> QED BY <2>1, <2>2, <2>3, <2>4 DEF Calls
<1>3. CASE ReturnsFromDelete
  <2>1. state.id \in NetId /\ op.id = state.id
    BY <1>0, <1>3, DeleteReturnsId DEF Calls, Record
  <2> QED
    BY <1>3, <2>1, DeleteReturnsId, BornAndAbsent, NoIdAssumption
    DEF DeleteReturns, RecordMoves, NoRecord
<1>4. CASE ContinuesCreate \/ DeleteAccepted
  BY <1>4
  DEF ContinuesCreate, PollPending, CreateSucceeds, LookUp, CreateAccepted,
      Adopt, DeleteAccepted, RecordMoves
<1>5. CASE \/ UNCHANGED vars \/ Apply \/ Refresh \/ Crash
           \/ \E n \in NetId : Import(n)
  BY <1>5 DEF vars, Apply, Refresh, Crash, Import, RecordMoves
<1>6. CASE Surroundings
  BY <1>6, SurroundingsLeave DEF RecordMoves
<1> QED BY <1>1, <1>2, <1>3, <1>4, <1>5, <1>6, Steps, HandlerSteps

(* What any step may do to the ids of the operation and to the history.    *)
OperationMoves ==
  /\ told \subseteq told'
  /\ \A n \in timedOut' \ timedOut : state'.id = n
  /\ \/ op'.id \in {NoId, state.id}
     \/ op'.id = op.id /\ op'.kind = op.kind
     \/ /\ op'.id \in told' /\ tenant[op'.id].phase # "unborn"
        /\ op'.kind # "import" => Exists(op'.id)
     \/ op.pc = "poll" /\ op'.id = op.target
  /\ \/ op'.target \in {NoId, op.target}
     \/ op'.target \in NetId /\ tenant[op'.target].phase = "unborn"
        /\ tenant'[op'.target].phase # "unborn"

(* The operation after a step works the way Calls and Record say, and a    *)
(* create goes on polling its own network.                                 *)
OperationFits == Calls' /\ Record' /\ Own'

LEMMA IdleFits ==
  ASSUME op'.pc = "idle", op'.kind = "none", op'.id = NoId,
         op'.target = NoId, told \subseteq told',
         \A n \in timedOut' \ timedOut : state'.id = n
  PROVE  OperationMoves /\ OperationFits
BY DEF OperationMoves, OperationFits, Calls, Record, Own

LEMMA ReturnsFit ==
  ASSUME NEW id, NEW errors,
         \/ CreateReturns(id, errors)
         \/ ReadReturns(id, errors) /\ op.kind \in {"create", "refresh", "import"}
         \/ DeleteReturns(id) /\ (id # NoId \/ op.kind # "replace"),
         told \subseteq told',
         \A n \in timedOut' \ timedOut : state'.id = n
  PROVE  OperationMoves /\ OperationFits
<1>1. op' = Idle
  BY DEF CreateReturns, ReadReturns, DeleteReturns
<1> QED BY <1>1, IdleFits DEF Idle

LEMMA StepFits == IInv /\ [Next]_vars => OperationMoves /\ OperationFits
<1> SUFFICES ASSUME IInv, [Next]_vars PROVE OperationMoves /\ OperationFits
  OBVIOUS
<1> USE DEF IInv
<1>0. TenantAges
  BY NextAges
<1>1. CASE ReturnsFromCreate
  <2>1. told' = told /\ \A n \in timedOut' \ timedOut : state'.id = n
    <3>1. CASE \E c : CreateTimesOut(c)
      BY <3>1 DEF CreateTimesOut, PollEnds, CreateReturns
    <3>2. CASE \E v, c : CreateConflicts(v, c)
      BY <3>2 DEF CreateConflicts, PollEnds
    <3>3. CASE \E n \in NetId : CreateReplyLost(n)
      BY <3>3 DEF CreateReplyLost, Post, history
    <3>4. CASE CreateRefused \/ NothingToAdopt \/ ListFails
      BY <3>4 DEF CreateRefused, NothingToAdopt, ListFails, history
    <3> QED BY <1>1, <3>1, <3>2, <3>3, <3>4 DEF ReturnsFromCreate
  <2> QED BY <1>1, <2>1, CreateReturnsId, ReturnsFit
<1>2. CASE Read
  <2>1. op.kind \in {"create", "refresh", "import"}
    BY <1>2, ReadReturnsId DEF Calls
  <2> QED BY <1>2, <2>1, ReadReturnsId, ReturnsFit
<1>3. CASE ReturnsFromDelete
  <2>1. op.kind \in {"replace", "destroy"} /\ op.id # NoId
    BY <1>3, DeleteReturnsId DEF Calls, Record
  <2>2. CASE DeleteReturns(op.id)
    BY <1>3, <2>1, <2>2, DeleteReturnsId, ReturnsFit
  <2>3. CASE DeleteReturns(NoId) /\ op.kind # "replace"
    BY <1>3, <2>3, DeleteReturnsId, ReturnsFit
  <2>4. CASE DeleteReturns(NoId) /\ op.kind = "replace"
    <3>1. /\ op'.pc = "post" /\ op'.kind = "create"
          /\ op'.id = NoId /\ op'.target = NoId /\ state'.id = NoId
      BY <2>4 DEF DeleteReturns, Idle, NoRecord
    <3> QED
      BY <1>3, <3>1, DeleteReturnsId
      DEF OperationMoves, OperationFits, Calls, Record, Own
  <2> QED BY <1>3, <2>2, <2>3, <2>4, DeleteReturnsId
<1>4. CASE PollPending \/ CreateSucceeds \/ \E v, c : LookUp(v, c)
  <2>1. /\ op.pc = "poll" /\ UNCHANGED <<tenant, state, told, timedOut>>
        /\ op'.pc \in {"poll", "list", "read"} /\ op'.kind = op.kind
        /\ op'.target = op.target
        /\ op'.id \in {op.id, op.target, NoId}
    BY <1>4
    DEF PollPending, CreateSucceeds, LookUp, PollEnds, history, TypeOK,
        Operation
  <2> QED
    BY <2>1 DEF OperationMoves, OperationFits, Calls, Record, Own
<1>5. ASSUME NEW n \in NetId, CreateAccepted(n)
      PROVE  OperationMoves /\ OperationFits
  <2>1. /\ op.pc = "post" /\ UNCHANGED <<state, told, timedOut>>
        /\ op'.pc = "poll" /\ op'.kind = op.kind
        /\ op'.target = n /\ op'.id = op.id
    BY <1>5 DEF CreateAccepted, Post, history, TypeOK, Operation
  <2>2. /\ tenant[n].phase = "unborn" /\ tenant'[n].phase = "provisioning"
        /\ tenant'[n].owner = "terraform"
    BY <1>5 DEF CreateAccepted, Post, TypeOK, Network
  <2> QED
    BY <2>1, <2>2 DEF OperationMoves, OperationFits, Calls, Record, Own
<1>6. ASSUME NEW n \in NetId, Adopt(n)
      PROVE  OperationMoves /\ OperationFits
  <2>1. /\ op.pc = "list" /\ UNCHANGED <<tenant, state, timedOut>>
        /\ told' = told \cup {n} /\ tenant[n].phase # "unborn" /\ Exists(n)
        /\ op'.pc = "read" /\ op'.kind = op.kind
        /\ op'.target = op.target /\ op'.id = n
    BY <1>6 DEF Adopt, Exists, TypeOK, Operation
  <2> QED
    BY <2>1 DEF OperationMoves, OperationFits, Calls, Record, Own
<1>7. CASE DeleteAccepted
  <2>1. /\ op.pc = "delete" /\ UNCHANGED <<state, told, timedOut>>
        /\ op'.pc = "wait" /\ op'.kind = op.kind
        /\ op'.target = op.target /\ op'.id = op.id
    BY <1>7 DEF DeleteAccepted, history, TypeOK, Operation
  <2> QED
    BY <2>1 DEF OperationMoves, OperationFits, Calls, Record, Own
<1>8. CASE Apply \/ Refresh
  <2>1. /\ UNCHANGED <<state, told, timedOut>> /\ op'.target = NoId
        /\ \/ /\ op'.pc = "post" /\ op'.kind = "create" /\ op'.id = NoId
              /\ state.id = NoId
           \/ /\ op'.pc = "delete" /\ op'.kind \in {"replace", "destroy"}
              /\ op'.id = state.id /\ state.id # NoId
           \/ /\ op'.pc = "read" /\ op'.kind = "refresh"
              /\ op'.id = state.id /\ state.id # NoId
    BY <1>8 DEF Apply, Refresh, Idle, history
  <2> QED
    BY <2>1 DEF OperationMoves, OperationFits, Calls, Record, Own
<1>9. ASSUME NEW n \in NetId, Import(n)
      PROVE  OperationMoves /\ OperationFits
  <2>1. /\ UNCHANGED <<tenant, state, timedOut>> /\ told' = told \cup {n}
        /\ tenant[n].phase # "unborn" /\ state.id = NoId
        /\ op'.pc = "read" /\ op'.kind = "import"
        /\ op'.target = NoId /\ op'.id = n
    BY <1>9 DEF Import, Idle
  <2> QED
    BY <2>1 DEF OperationMoves, OperationFits, Calls, Record, Own
<1>10. CASE Crash
  BY <1>10, IdleFits DEF Crash, Idle, history
<1>11. CASE UNCHANGED vars \/ Surroundings
  <2>1. UNCHANGED <<state, op, told, refused, timedOut>>
    BY <1>11, SurroundingsLeave DEF vars
  <2>2. op.pc = "poll" => op.target \in NetId
                            /\ tenant[op.target].phase # "unborn"
    BY DEF Own, Born
  <2> QED
    BY <2>1, <2>2, <1>0
    DEF TenantAges, OperationMoves, OperationFits, Calls, Record, Own
<1> QED
  BY <1>1, <1>2, <1>3, <1>4, <1>5, <1>6, <1>7, <1>8, <1>9, <1>10, <1>11,
     Steps, HandlerSteps DEF ContinuesCreate

-----------------------------------------------------------------------------
(* The inductive invariant, and the theorems                               *)

LEMMA InitIInv == Init => IInv
<1> SUFFICES ASSUME Init PROVE IInv
  OBVIOUS
<1>1. Calls /\ Record /\ Own
  BY DEF Init, Idle, Calls, Record, Own
<1>2. Born /\ OnlyToldNetworksAreTakenOver /\ TimedOutCreateLeavesNoOrphan
  BY NoIdAssumption
  DEF Init, Idle, NoRecord, Born, OnlyToldNetworksAreTakenOver,
      TimedOutCreateLeavesNoOrphan
<1>3. LosersAreGone /\ Refused
  BY DEF Init, Idle, NoRecord, Unborn, Running, LosersAreGone, Refused
<1> QED BY <1>1, <1>2, <1>3, InitTypeOK DEF IInv

(* A conflict is only ever reported of a network that is gone, and what is *)
(* gone does not come back.                                                *)
LEMMA NextLosersAreGone == IInv /\ [Next]_vars => LosersAreGone'
<1> SUFFICES ASSUME IInv, [Next]_vars, NEW m \in NetId,
                    tenant'[m].job.code = 409
             PROVE  tenant'[m].phase = "gone"
  BY DEF LosersAreGone
<1> USE DEF IInv
<1>0. TenantAges /\ (tenant[m].job.code = 409 => tenant[m].phase = "gone")
  BY NextAges DEF LosersAreGone
<1>1. CASE tenant'[m].job.code = tenant[m].job.code
  BY <1>0, <1>1 DEF TenantAges
<1>2. CASE tenant'[m].job.code # tenant[m].job.code
  <2>1. ASSUME NEW n \in NetId,
               Post(n) \/ ConsoleCreates(n) \/ ConsoleDeletes(n) \/ NameObject(n)
        PROVE  tenant'[m].job.code = tenant[m].job.code
    BY <2>1
    DEF Post, ConsoleCreates, ConsoleDeletes, NameObject, SetPhase, TypeOK,
        Network, Job
  <2>2. ASSUME DeleteAccepted \/ DeleteReplyLost
        PROVE  tenant'[m].job.code = tenant[m].job.code
    BY <2>2
    DEF DeleteAccepted, DeleteReplyLost, TearDown, Exists, SetPhase, TypeOK,
        Network
  <2>3. ASSUME NEW n \in NetId, FinishTeardown(n)
        PROVE  tenant'[m].phase = "gone"
    BY <1>2, <2>3 DEF FinishTeardown, TypeOK, Network
  <2>4. ASSUME NEW n \in NetId, Settle(n)
        PROVE  tenant'[m].phase = "gone"
    BY <1>2, <2>4 DEF Settle, SettleAs, TypeOK, Network
  <2> QED BY <1>2, <2>1, <2>2, <2>3, <2>4, TenantSteps
<1> QED BY <1>1, <1>2

(* Nothing that was refused as a conflict is worked on or recorded again.  *)
LEMMA NextRefused == IInv /\ [Next]_vars => Refused'
<1> SUFFICES ASSUME IInv, [Next]_vars PROVE Refused'
  OBVIOUS
<1> USE NoIdAssumption DEF IInv
<1>1. TypeOK' /\ TenantAges /\ RecordMoves /\ OperationMoves /\ Refusals
  BY NextTypeOK, NextAges, StepMovesRecord, StepFits, NextRefusals
<1>2. refused \subseteq NetId /\ NoId \notin refused
  BY DEF TypeOK
<1>3. CASE refused' # refused
  <2>1. /\ refused' = refused \cup {op.target} /\ op.target \in NetId
        /\ tenant' = tenant /\ tenant[op.target].job.code = 409
        /\ op' = Idle /\ state'.id = NoId
    BY <1>1, <1>3 DEF Refusals, CreateReturns, Own
  <2>2. \A n \in refused' : tenant'[n].phase = "gone"
    BY <2>1 DEF Refused, LosersAreGone
  <2> QED BY <1>1, <2>1, <2>2 DEF Refused, Idle, TypeOK
<1>4. CASE refused' = refused
  <2>1. \A n \in refused' : tenant'[n].phase = "gone"
    BY <1>1, <1>2, <1>4 DEF Refused, TenantAges
  <2>2. state'.id \notin refused
    BY <1>1, <1>2 DEF RecordMoves, Refused, Exists
  <2>3. op'.target \notin refused
    BY <1>1, <1>2, <2>1, <1>4 DEF OperationMoves, Refused, TenantAges
  <2>4. op'.kind # "import" => op'.id \notin refused
    BY <1>1, <1>2 DEF OperationMoves, Refused, Exists
  <2> QED BY <1>4, <2>1, <2>2, <2>3, <2>4 DEF Refused
<1> QED BY <1>3, <1>4

LEMMA NextIInv == IInv /\ [Next]_vars => IInv'
<1> SUFFICES ASSUME IInv, [Next]_vars PROVE IInv'
  OBVIOUS
<1> USE NoIdAssumption DEF IInv
<1>1. TypeOK'
  BY NextTypeOK
<1>2. TenantAges /\ RecordMoves /\ OperationMoves /\ OperationFits
  BY NextAges, StepMovesRecord, StepFits
<1>3. \A n \in NetId :
        n \in {state.id, op.id, op.target} \cup timedOut =>
          /\ tenant'[n].phase # "unborn"
          /\ tenant'[n].owner = tenant[n].owner
          /\ tenant[n].phase = "gone" => tenant'[n].phase = "gone"
  BY <1>2 DEF TenantAges, Born
<1>4. Born'
  <2> SUFFICES ASSUME NEW n \in NetId,
                      n \in {state'.id, op'.id, op'.target} \cup timedOut'
               PROVE  tenant'[n].phase # "unborn"
    BY DEF Born
  <2>1. CASE n = state'.id
    BY <1>2, <1>3, <2>1 DEF RecordMoves
  <2>2. CASE n = op'.id
    BY <1>2, <1>3, <2>2 DEF OperationMoves, TenantAges
  <2>3. CASE n = op'.target
    BY <1>2, <1>3, <2>3 DEF OperationMoves
  <2>4. CASE n \in timedOut'
    BY <1>2, <1>3, <2>1, <2>4 DEF OperationMoves
  <2> QED BY <2>1, <2>2, <2>3, <2>4
<1>5. OnlyToldNetworksAreTakenOver'
  <2> SUFFICES ASSUME NEW n \in {state'.id, op'.id} \ {NoId},
                      tenant'[n].owner = "other"
               PROVE  n \in told'
    BY NextRefused DEF OnlyToldNetworksAreTakenOver, Refused
  <2>1. n \in NetId
    BY <1>1 DEF TypeOK, Operation
  <2>2. CASE n \in {state.id, op.id}
    BY <1>2, <1>3, <2>1, <2>2
    DEF OnlyToldNetworksAreTakenOver, OperationMoves
  <2>3. CASE op.pc = "poll" /\ n = op.target
    BY <1>3, <2>1, <2>3 DEF Own
  <2>4. CASE n = state'.id
    BY <1>2, <2>2, <2>3, <2>4 DEF RecordMoves
  <2>5. CASE n = op'.id
    BY <1>2, <2>2, <2>3, <2>5 DEF OperationMoves
  <2> QED BY <2>4, <2>5
<1>6. TimedOutCreateLeavesNoOrphan'
  <2> SUFFICES ASSUME NEW n \in timedOut', Exists(n)'
               PROVE  state'.id = n
    BY DEF TimedOutCreateLeavesNoOrphan
  <2>1. CASE n \notin timedOut
    BY <1>2, <2>1 DEF OperationMoves
  <2>2. CASE n \in timedOut
    <3>1. n \in NetId /\ tenant[n].phase # "unborn"
      BY <2>2 DEF TypeOK, Born
    <3>2. tenant[n].phase # "gone"
      BY <1>2, <3>1 DEF Exists, TenantAges
    <3>3. Exists(n)
      BY <3>1, <3>2 DEF Exists, TypeOK, Network, Phase
    <3>4. state.id = n
      BY <2>2, <3>3 DEF TimedOutCreateLeavesNoOrphan
    <3> QED BY <1>2, <3>1, <3>2, <3>4 DEF RecordMoves
  <2> QED BY <2>1, <2>2
<1> QED
  BY <1>1, <1>2, <1>4, <1>5, <1>6, NextLosersAreGone, NextRefused
  DEF OperationFits

LEMMA AlwaysIInv == Spec => []IInv
BY InitIInv, NextIInv, PTL DEF Spec

(* Every variable keeps to its type, for any set of network ids and any    *)
(* bounds: in particular a handler never polls, reads or deletes an id     *)
(* that the tenant did not give out.                                       *)
THEOREM TypeCorrect == Spec => []TypeOK
BY AlwaysIInv, PTL DEF IInv

(* The record and the handlers never come to name somebody else's network  *)
(* without the operator having been told.                                  *)
THEOREM TakeoverCorrect == Spec => []OnlyToldNetworksAreTakenOver
BY AlwaysIInv, PTL DEF IInv

(* A create that timed out with the network's URL known leaves no orphan,  *)
(* whatever refreshes, retries, replacements, failed deletes and crashes   *)
(* follow.                                                                 *)
THEOREM TimedOutCreateCorrect == Spec => []TimedOutCreateLeavesNoOrphan
BY AlwaysIInv, PTL DEF IInv

(* No step makes Terraform forget a network that the tenant still has.     *)
THEOREM ForgetsCorrect == Spec => ForgetsOnlyTheGone
<1>1. IInv /\ [Next]_vars =>
        [state.id # NoId /\ state'.id # state.id
           => tenant[state.id].phase = "gone"]_vars
  BY StepMovesRecord DEF RecordMoves
<1> QED BY <1>1, AlwaysIInv, PTL DEF Spec, ForgetsOnlyTheGone

-----------------------------------------------------------------------------
(* Refinement: the record of the address implements ManagedObject          *)

MadeNets == {n \in NetId : tenant[n].phase # "unborn"}
GoneNets == {n \in NetId : tenant[n].phase = "gone"}

(* The tenant changes one network at a time, and none is born gone.        *)
OneChanges ==
  \E n \in NetId :
    /\ \A m \in NetId \ {n} : tenant'[m] = tenant[m]
    /\ tenant[n].phase = "unborn" => tenant'[n].phase # "gone"

LEMMA StepChangesOne == TypeOK /\ [Next]_vars => tenant' = tenant \/ OneChanges
<1> SUFFICES ASSUME TypeOK, [Next]_vars PROVE tenant' = tenant \/ OneChanges
  OBVIOUS
<1>1. ASSUME NEW n \in NetId, NEW p \in {"provisioning", "live"}, NEW o,
             tenant' = [tenant EXCEPT ![n].phase = p, ![n].owner = o]
      PROVE  OneChanges
  BY <1>1 DEF OneChanges, TypeOK, Network
<1>2. ASSUME NEW n \in NetId, NEW p, SetPhase(n, p),
             tenant[n].phase # "unborn"
      PROVE  OneChanges
  BY <1>2 DEF SetPhase, OneChanges, TypeOK
<1>3. ASSUME NEW n \in NetId, FinishTeardown(n) \/ Settle(n) \/ NameObject(n)
      PROVE  OneChanges
  BY <1>3 DEF FinishTeardown, Settle, SettleAs, NameObject, OneChanges, TypeOK
<1>4. ASSUME NEW n \in NetId, Post(n) \/ ConsoleCreates(n)
      PROVE  OneChanges
  BY <1>1, <1>4 DEF Post, ConsoleCreates
<1>5. ASSUME NEW n \in NetId, ConsoleDeletes(n) PROVE OneChanges
  BY <1>2, <1>5 DEF ConsoleDeletes
<1>6. ASSUME DeleteAccepted \/ DeleteReplyLost PROVE OneChanges
  <2>1. op.id \in NetId /\ SetPhase(op.id, "deleting")
          /\ tenant[op.id].phase # "unborn"
    BY <1>6 DEF DeleteAccepted, DeleteReplyLost, TearDown, Exists
  <2> QED BY <1>2, <2>1
<1> QED BY <1>3, <1>4, <1>5, <1>6, TenantSteps

LEMMA StepKeepsPromise ==
  IInv /\ [Next]_vars => [Promise!Next]_(Promise!objectVars)
<1> SUFFICES ASSUME IInv, [Next]_vars
             PROVE  \/ Promise!Next
                    \/ UNCHANGED <<MadeNets, GoneNets, state.id>>
  BY DEF Promise!objectVars, MadeNets, GoneNets
<1> USE NoIdAssumption DEF IInv, MadeNets, GoneNets
<1>1. /\ TenantAges /\ RecordMoves /\ IInv'
      /\ tenant' = tenant \/ OneChanges
  BY NextAges, StepMovesRecord, NextIInv, StepChangesOne
<1>2. CASE state'.id # state.id
  <2>1. tenant' = tenant
    BY <1>1, <1>2 DEF RecordMoves
  <2>2. CASE state'.id = NoId
    BY <1>1, <1>2, <2>1, <2>2
    DEF RecordMoves, Promise!Next, Promise!Forget
  <2>3. CASE state'.id # NoId
    <3>1. state.id = NoId /\ state'.id \in NetId
      BY <1>1, <1>2, <2>3 DEF RecordMoves
    <3>2. state'.id \in MadeNets
      BY <1>1, <2>1, <3>1 DEF Born
    <3> QED BY <2>1, <3>1, <3>2 DEF Promise!Next, Promise!Track
  <2> QED BY <2>2, <2>3
<1>3. CASE state'.id = state.id /\ tenant' = tenant
  BY <1>3
<1>4. CASE state'.id = state.id /\ OneChanges
  <2>1. PICK n \in NetId :
          /\ \A m \in NetId \ {n} : tenant'[m] = tenant[m]
          /\ tenant[n].phase = "unborn" => tenant'[n].phase # "gone"
    BY <1>4 DEF OneChanges
  <2>2. CASE tenant[n].phase = "unborn" /\ tenant'[n].phase # "unborn"
    <3>1. n \notin MadeNets /\ MadeNets' = MadeNets \cup {n}
            /\ GoneNets' = GoneNets
      BY <2>1, <2>2
    <3> QED BY <1>4, <3>1 DEF Promise!Next, Promise!Make
  <2>3. CASE tenant[n].phase = "unborn" /\ tenant'[n].phase = "unborn"
    <3>1. MadeNets' = MadeNets /\ GoneNets' = GoneNets
      BY <2>1, <2>3
    <3> QED BY <1>4, <3>1
  <2>4. CASE tenant[n].phase # "unborn" /\ tenant[n].phase # "gone"
               /\ tenant'[n].phase = "gone"
    <3>1. n \in MadeNets \ GoneNets /\ MadeNets' = MadeNets
            /\ GoneNets' = GoneNets \cup {n}
      BY <2>1, <2>4
    <3> QED BY <1>4, <3>1 DEF Promise!Next, Promise!Vanish
  <2>5. CASE tenant[n].phase # "unborn" /\ tenant'[n].phase # "unborn"
               /\ (tenant[n].phase = "gone" <=> tenant'[n].phase = "gone")
    <3>1. MadeNets' = MadeNets /\ GoneNets' = GoneNets
      BY <2>1, <2>5
    <3> QED BY <1>4, <3>1
  <2> QED BY <1>1, <2>2, <2>3, <2>4, <2>5 DEF TenantAges
<1> QED BY <1>1, <1>2, <1>3, <1>4

(* The create, read, delete and import handlers together keep the promise  *)
(* about the address: at most one object, taken on only when it exists,    *)
(* never swapped in one step, forgotten only when it is gone.              *)
THEOREM PromiseKept == Spec => KeepsThePromise
<1>1. Init => Promise!Init
  BY DEF Init, Unborn, NoRecord, Promise!Init
<1> QED
  BY <1>1, AlwaysIInv, StepKeepsPromise, PTL
  DEF Spec, KeepsThePromise, Promise!Spec

=============================================================================
