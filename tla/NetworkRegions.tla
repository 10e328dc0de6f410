--------------------------- MODULE NetworkRegions ---------------------------
(***************************************************************************)
(* The regions of one standard network: the read of resource_network.go    *)
(* rebuilds the region list from what the tenant reports, the update turns *)
(* the difference between two lists into calls that add and remove regions *)
(* one at a time, and the tenant makes a region appear and disappear some  *)
(* time after it has accepted the call.                                    *)
(*                                                                         *)
(* A region is known by the id the tenant gave it, by the cloud region it  *)
(* is in, and by a name that ties the two together: the display name of    *)
(* the cloud region, its plain name, or a name the catalogue of cloud      *)
(* regions does not have.                                                  *)
(***************************************************************************)
EXTENDS Integers, Sequences, FiniteSetsExt

CONSTANTS
  Cp,         \* the cloud regions of the catalogue
  NoCp,       \* the empty cpregion_id
  Configs,    \* the region lists an operator may declare
  Births,     \* the names a new region may come with
  Others,     \* what others do to the network: "add", "remove", "rename"
  MaxRegions, \* bound: regions the network may ever have had
  MaxFaults,  \* bound: failed, lost, refused or interrupted calls
  MaxEdits    \* bound: edits of the configuration and of the network by
              \* others, and plans made without a refresh

Names == {"display", "name", "unknown"}

Block == [cp : Cp, idle : BOOLEAN]

ASSUME CpAssumption == NoCp \notin Cp
ASSUME ConfigsAssumption ==
  Configs \subseteq {list \in Seq(Block) : Len(list) \in 1..MaxRegions}
ASSUME BoundsAssumption == {MaxRegions, MaxFaults, MaxEdits} \subseteq Nat
ASSUME NamesAssumption ==
  Births \subseteq Names /\ Others \subseteq {"add", "remove", "rename"}

VARIABLES
  tenant,     \* region id -> [cp, name, phase], in the order of the API
  state,      \* Terraform's record of the list: [rid, cp, idle]
  config,     \* the list the configuration declares
  op,         \* the operation: the next call and the block it is about
  quiet,      \* history: since the last refresh, which found nothing under
              \* way, there was no fault and nobody else
  faults, edits

vars == <<tenant, state, config, op, quiet, faults, edits>>

NoRid == 0

Region ==
  [cp : Cp, name : Names, phase : {"adding", "live", "removing", "gone"}]

Entry == [rid : 0..MaxRegions, cp : Cp \cup {NoCp}, idle : BOOLEAN]

Operation ==
  [pc : {"idle", "read", "add", "resolve", "appear", "remove", "vanish"},
   kind : {"none", "refresh", "apply", "update"}, at : Nat]

Idle == [pc |-> "idle", kind |-> "none", at |-> 0]

TypeOK ==
  /\ tenant \in Seq(Region) /\ Len(tenant) <= MaxRegions
  /\ state \in Seq(Entry)
  /\ config \in Configs
  /\ op \in Operation
  /\ quiet \in BOOLEAN
  /\ faults \in 0..MaxFaults
  /\ edits \in 0..MaxEdits

(* A network as its create left it in the state, or its import: the order  *)
(* of the API and idle = false.                                            *)
Init ==
  /\ config \in Configs
  /\ tenant \in [DOMAIN config -> [cp : Cp, name : Births, phase : {"live"}]]
  /\ \A i \in DOMAIN config : tenant[i].cp = config[i].cp
  /\ \/ state = [i \in DOMAIN config |->
                   [rid |-> i, cp |-> config[i].cp, idle |-> config[i].idle]]
     \/ state = [i \in DOMAIN config |->
                   [rid |-> i, cp |-> config[i].cp, idle |-> FALSE]]
  /\ op = Idle
  /\ quiet = TRUE
  /\ faults = 0 /\ edits = 0

Fault ==
  /\ faults < MaxFaults /\ faults' = faults + 1 /\ quiet' = FALSE
  /\ UNCHANGED edits

Edit == edits < MaxEdits /\ edits' = edits + 1 /\ UNCHANGED faults

NoFault == UNCHANGED <<quiet, faults, edits>>

(* networkData.Regions: what a GET of the network shows.                   *)
Visible == {r \in DOMAIN tenant : tenant[r].phase \in {"live", "removing"}}

Cps(list) == {list[i].cp : i \in DOMAIN list}

VisibleCps == {tenant[r].cp : r \in Visible}

-----------------------------------------------------------------------------
(* reconcileNetworkRegions                                                 *)

(* The catalogue is searched for the name, as display name and as name.    *)
cpRegionIdForRegionName(r) ==
  IF tenant[r].name = "unknown" THEN NoCp ELSE tenant[r].cp

(* Mutant: an API region may be claimed by several blocks.                 *)
MatchClaimedToo(claimed, b) ==
  LET same == {r \in Visible :
                 b.cp # NoCp /\ cpRegionIdForRegionName(r) = b.cp}
  IN IF b.rid \in Visible THEN b.rid
     ELSE IF same # {} THEN Min(same) ELSE NoRid

(* The API region the block b stands for when others have claimed theirs:  *)
(* the one with its id, or else the first in its cloud region.             *)
matchAPIRegion(claimed, b) ==
  LET free == Visible \ claimed
      same == {r \in free : b.cp # NoCp /\ cpRegionIdForRegionName(r) = b.cp}
  IN IF b.rid \in free THEN b.rid
     ELSE IF same # {} THEN Min(same) ELSE NoRid

(* Each block claims a region after the blocks before it have claimed.     *)
(* There is exactly one such assignment.                                   *)
Claims(prior) ==
  {claim \in [DOMAIN prior -> Visible \cup {NoRid}] :
     \A i \in DOMAIN prior :
       claim[i] = matchAPIRegion({claim[j] : j \in 1..(i - 1)}, prior[i])}

(* Mutant: the name is written where the cloud region belongs.             *)
CarryName(r, b) == [rid |-> r, idle |-> b.idle, cp |-> tenant[r].name]

(* The region r in the list, with what the API cannot say taken from b.    *)
Carry(r, b) ==
  [rid |-> r, idle |-> b.idle,
   cp |-> IF cpRegionIdForRegionName(r) = NoCp THEN b.cp
          ELSE cpRegionIdForRegionName(r)]

(* The members of a finite set of numbers as a list.  There is one.        *)
Ascending(S) ==
  {s \in [1..Cardinality(S) -> S] :
     \A i, j \in DOMAIN s : i < j => s[i] < s[j]}

(* Mutant: the prior list is copied forward (P81-145407).                  *)
CopyForward(prior, claim) == {prior}

(* The blocks whose regions are still there, and the regions of no block.  *)
Kept(claim) == {i \in DOMAIN claim : claim[i] # NoRid}
Found(claim) == Visible \ {claim[i] : i \in Kept(claim)}

(* The blocks k of the prior list, then the regions f.                     *)
Listed(prior, claim, k, f) ==
  [i \in DOMAIN k |-> Carry(claim[k[i]], prior[k[i]])] \o
    [i \in DOMAIN f |->
       [rid |-> f[i], idle |-> FALSE, cp |-> cpRegionIdForRegionName(f[i])]]

(* The list that is read back: the blocks of the prior list that are still *)
(* there, in its order, then the regions no block has claimed.             *)
reconcileNetworkRegions(prior, claim) ==
  {Listed(prior, claim, k, f) :
     k \in Ascending(Kept(claim)), f \in Ascending(Found(claim))}

-----------------------------------------------------------------------------
(* Terraform core: the plan, and the two lists the update is given         *)

(* The planned list: region_id is computed, so that a block keeps the one  *)
(* that the state has at its position, whichever region it was.            *)
Planned ==
  [i \in DOMAIN config |->
     [rid |-> IF i \in DOMAIN state THEN state[i].rid ELSE NoRid,
      cp |-> config[i].cp, idle |-> config[i].idle]]

Differs(list) ==
  config # [i \in DOMAIN list |-> [cp |-> list[i].cp, idle |-> list[i].idle]]

(* Mutant: the lists are compared position by position.                    *)
SurplusPositions(old) == {i \in DOMAIN old : i > Len(config)}

(* regionExistsInArray decides on cpregion_id alone.                       *)
ToAdd(old) == {i \in DOMAIN config : config[i].cp \notin Cps(old)}
ToRemove(old) == {i \in DOMAIN old : old[i].cp \notin Cps(config)}

At(pc, set) == [pc |-> pc, kind |-> "update", at |-> Min(set)]

(* Mutant: the regions that are no longer wanted go first.                 *)
RemovalsFirst(old, adds, removes) ==
  IF removes # {} THEN At("remove", removes)
  ELSE IF adds # {} THEN At("add", adds)
  ELSE [pc |-> "read", kind |-> "update", at |-> 0]

(* Where the update goes when these are left: resourceRegionCreate runs    *)
(* through the new list, then resourceRegionDelete through the old one,    *)
(* then the network is read.                                               *)
Continue(old, adds, removes) ==
  IF adds # {} THEN At("add", adds)
  ELSE IF removes # {} THEN At("remove", removes)
  ELSE [pc |-> "read", kind |-> "update", at |-> 0]

StartUpdate(old) == Continue(old, ToAdd(old), ToRemove(old))

(* terraform apply, and terraform apply -refresh-only.                     *)
Refresh(kind) ==
  /\ op = Idle
  /\ op' = [pc |-> "read", kind |-> kind, at |-> 0]
  /\ quiet' = \A r \in DOMAIN tenant : tenant[r].phase \in {"live", "gone"}
  /\ UNCHANGED <<tenant, state, config, faults, edits>>

(* terraform apply -refresh=false, or of a saved plan.                     *)
ApplyStale ==
  /\ op = Idle /\ Differs(state)
  /\ Edit /\ quiet' = FALSE
  /\ op' = StartUpdate(state)
  /\ UNCHANGED <<tenant, state, config>>

EditConfig ==
  /\ op = Idle
  /\ Edit /\ UNCHANGED quiet
  /\ config' \in Configs \ {config}
  /\ UNCHANGED <<tenant, state, op>>

(* d.Partial(true): an update or a read that fails leaves the record alone *)
Fails == op' = Idle /\ UNCHANGED <<state, config>>

Interrupted ==
  /\ op # Idle
  /\ Fault /\ Fails /\ UNCHANGED tenant

-----------------------------------------------------------------------------
(* resourceNetworkRead                                                     *)

(* The list the read starts from is the planned one inside an update.      *)
Prior == IF op.kind = "update" THEN Planned ELSE state

ReadSucceeds ==
  /\ op.pc = "read"
  /\ \E claim \in Claims(Prior) :
       state' \in reconcileNetworkRegions(Prior, claim)
  /\ op' = IF op.kind = "apply" /\ Differs(state')
           THEN StartUpdate(state') ELSE Idle
  /\ NoFault /\ UNCHANGED <<tenant, config>>

-----------------------------------------------------------------------------
(* resourceRegionCreate                                                    *)

Full == Len(tenant) = MaxRegions

NewRegion(cp) ==
  \E name \in Births :
    tenant' = Append(tenant, [cp |-> cp, name |-> name, phase |-> "adding"])

AddAccepted ==
  /\ op.pc = "add" /\ ~Full
  /\ NewRegion(config[op.at].cp)
  /\ op' = [op EXCEPT !.pc = "resolve"]
  /\ NoFault /\ UNCHANGED <<state, config>>

AddReplyLost ==
  /\ op.pc = "add" /\ ~Full
  /\ NewRegion(config[op.at].cp)
  /\ Fault /\ Fails

(* The call fails, or answers with a status that is not 2xx; a tenant that *)
(* is out of ids (a bound) always refuses.                                 *)
AddRefused ==
  /\ op.pc = "add"
  /\ IF Full THEN NoFault ELSE Fault
  /\ Fails /\ UNCHANGED tenant

(* regionDisplayNameByCpRegionId finds the cloud region in the catalogue.  *)
Resolve ==
  /\ op.pc = "resolve"
  /\ op' = [op EXCEPT !.pc = "appear"]
  /\ NoFault /\ UNCHANGED <<tenant, state, config>>

(* A visible region with the display name of the cloud region.             *)
Appeared(cp) ==
  \E r \in Visible : tenant[r].cp = cp /\ tenant[r].name = "display"

AppearSeen ==
  /\ op.pc = "appear" /\ Appeared(config[op.at].cp)
  /\ op' = Continue(state, {i \in ToAdd(state) : i > op.at}, ToRemove(state))
  /\ NoFault /\ UNCHANGED <<tenant, state, config>>

(* The region is there under another name, or gone again: the wait runs    *)
(* into the deadline, as nothing will ever end it.                         *)
AppearTimesOut ==
  /\ op.pc = "appear" /\ ~Appeared(config[op.at].cp)
  /\ \A r \in DOMAIN tenant :
       tenant[r].phase = "adding" => tenant[r].cp # config[op.at].cp
  /\ quiet' = FALSE
  /\ Fails /\ UNCHANGED <<tenant, faults, edits>>

-----------------------------------------------------------------------------
(* resourceRegionDelete                                                    *)

Doomed == state[op.at].rid

RemoveAccepted ==
  /\ op.pc = "remove" /\ Doomed \in Visible
  /\ tenant' = [tenant EXCEPT ![Doomed].phase = "removing"]
  /\ op' = [op EXCEPT !.pc = "vanish"]
  /\ NoFault /\ UNCHANGED <<state, config>>

RemoveReplyLost ==
  /\ op.pc = "remove" /\ Doomed \in Visible
  /\ tenant' = [tenant EXCEPT ![Doomed].phase = "removing"]
  /\ Fault /\ Fails

(* A region that is not there any more is an error, unlike a network.      *)
RemoveRefused ==
  /\ op.pc = "remove"
  /\ IF Doomed \in Visible THEN Fault ELSE NoFault
  /\ Fails /\ UNCHANGED tenant

VanishSeen ==
  /\ op.pc = "vanish" /\ Doomed \notin Visible
  /\ op' = Continue(state, {}, {i \in ToRemove(state) : i > op.at})
  /\ NoFault /\ UNCHANGED <<tenant, state, config>>

-----------------------------------------------------------------------------
(* The tenant, and others who act on the network                           *)

MoveOn(r, from, to) ==
  /\ tenant[r].phase = from
  /\ tenant' = [tenant EXCEPT ![r].phase = to]
  /\ UNCHANGED <<state, config, op>>

Backend ==
  /\ \E r \in DOMAIN tenant :
       MoveOn(r, "adding", "live") \/ MoveOn(r, "removing", "gone")
  /\ NoFault

OthersAdd ==
  /\ "add" \in Others /\ ~Full
  /\ Edit /\ quiet' = FALSE
  /\ \E cp \in Cp : NewRegion(cp)
  /\ UNCHANGED <<state, config, op>>

OthersRemove ==
  /\ "remove" \in Others
  /\ Edit /\ quiet' = FALSE
  /\ \E r \in DOMAIN tenant : MoveOn(r, "live", "removing")

OthersRename ==
  /\ "rename" \in Others
  /\ Edit /\ quiet' = FALSE
  /\ \E r \in Visible : tenant' = [tenant EXCEPT ![r].name = "unknown"]
  /\ UNCHANGED <<state, config, op>>

Handler ==
  \/ ReadSucceeds
  \/ AddAccepted \/ AddReplyLost \/ AddRefused
  \/ Resolve \/ AppearSeen \/ AppearTimesOut
  \/ RemoveAccepted \/ RemoveReplyLost \/ RemoveRefused \/ VanishSeen

Next ==
  \/ Refresh("apply") \/ Refresh("refresh") \/ ApplyStale \/ EditConfig
  \/ Handler \/ Interrupted
  \/ Backend
  \/ OthersAdd \/ OthersRemove \/ OthersRename

Spec == Init /\ [][Next]_vars

(* Every call returns, what the tenant accepted comes about, and the       *)
(* operator keeps applying the configuration in the ordinary way.          *)
Fairness ==
  WF_vars(Handler) /\ WF_vars(Backend) /\ SF_vars(Refresh("apply"))

FairSpec == Spec /\ Fairness

-----------------------------------------------------------------------------
(* Whatever happened out of band, a successful read lists every region the *)
(* tenant reports exactly once, and none that it does not report.          *)
FootprintIsReported ==
  [][ReadSucceeds =>
       /\ {state'[i].rid : i \in DOMAIN state'} = Visible
       /\ Len(state') = Cardinality(Visible)]_vars

(* No region is given up before what replaces it is there: when a region   *)
(* is removed, every cloud region the update had to add is on the network. *)
ReplacementsComeFirst ==
  [][RemoveAccepted \/ RemoveReplyLost =>
       \A i \in ToAdd(state) : config[i].cp \in VisibleCps]_vars

(* The update never removes a region in a cloud region that the            *)
(* configuration declares.                                                 *)
OnlyUnwantedAreRemoved ==
  [][RemoveAccepted \/ RemoveReplyLost =>
       tenant[Doomed].cp \notin Cps(config)]_vars

(* Once nobody changes the configuration or the network any more and the   *)
(* calls stop failing, repeated applies bring the network to the cloud     *)
(* regions of the configuration, changed ones too, and keep it there.  An  *)
(* update that refreshed, met no fault and was alone adds no region to a   *)
(* cloud region that has one, so that a second region takes a lost reply.  *)
FootprintConverges ==
  /\ <>[](VisibleCps = Cps(config) /\ Cps(state) = Cps(config))
  /\ [][(AddAccepted \/ AddReplyLost) /\ quiet =>
          \A r \in DOMAIN tenant :
            tenant[r].phase # "gone" => tenant[r].cp # config[op.at].cp]_vars

(* "A region removed out of band drops out of state, the list is shorter   *)
(* than the config, and the update puts it back": an apply that refreshed, *)
(* met no fault and was alone leaves as many regions in every cloud region *)
(* as the configuration declares.                                          *)
ApplyPutsRegionsBack ==
  [][ReadSucceeds /\ op.kind = "update" /\ quiet =>
       \A cp \in Cp :
         Cardinality({r \in Visible : tenant[r].cp = cp})
           >= Cardinality({i \in DOMAIN config : config[i].cp = cp})]_vars
=============================================================================
