---------------------------- MODULE TunnelGroups ----------------------------
(***************************************************************************)
(* Tunnels that are groups: the two members of a redundant IPsec pair with *)
(* the slots of the record they belong to, and the endpoints of an         *)
(* enhanced dynamic tunnel, which no read tells.  A function keeps the     *)
(* name it has in the code.                                                *)
(***************************************************************************)
EXTENDS Integers, Sequences, FiniteSets

Absent == <<>>

NoText == ""

-----------------------------------------------------------------------------
(* A redundant pair.  A slot and a member have the same attributes; the    *)
(* remote_public_ip stands for all those that are required and told.       *)

MemberIds == <<"member1", "member2">>

Slot(texts) ==
  [tunnel_id : {NoText, MemberIds[1], MemberIds[2]},
   remote_id : texts \cup {NoText}, remote_public_ip : texts,
   passphrase : texts \cup {NoText}]

ConfiguredSlot(texts) ==
  {s \in Slot(texts) : s.tunnel_id = NoText /\ s.passphrase # NoText}

(* The server knows all of a member.                                       *)
StoredPair(texts) ==
  {p \in [1..2 -> Slot(texts)] : \A m \in 1..2 :
     p[m].tunnel_id = MemberIds[m] /\ NoText \notin {p[m].remote_id, p[m].passphrase}}

remoteIDFromAPITunnel(member) == member.remote_id

(* Before an import there is no prior slot.                                *)
remoteIDFromPriorTunnelData(prior, i) ==
  IF prior = Absent THEN NoText ELSE prior[i].remote_id

matchRedundantTunnelsToSlots(members, prior) ==
  LET want(i) == remoteIDFromPriorTunnelData(prior, i)
      api(i) == remoteIDFromAPITunnel(members[i])
  IN IF /\ want(1) # NoText \/ want(2) # NoText
        /\ want(1) = api(2) /\ want(2) = api(1)
     THEN <<members[2], members[1]>>
     ELSE members

(* A passphrase that is not told is the slot's.                            *)
flattenTunnelData(member, prior, i) ==
  [member EXCEPT
     !.passphrase = IF @ # NoText \/ prior = Absent THEN @
                    ELSE prior[i].passphrase]

resourceIpsecRedundantRead(members, prior) ==
  LET slots == matchRedundantTunnelsToSlots(members, prior)
  IN [i \in 1..2 |-> flattenTunnelData(slots[i], prior, i)]

(* An update without the id of a member is refused before it is sent.      *)
UpdateNeedsIds(planned) == \E i \in 1..2 : planned[i].tunnel_id = NoText

(* The members in either order, with or without their ids and passphrases. *)
PairAnswers(pair, keys) ==
  LET told(m, ids) ==
        [m EXCEPT !.tunnel_id = IF ids THEN @ ELSE NoText,
                  !.passphrase = IF keys THEN @ ELSE NoText]
  IN {<<told(pair[o[1]], ids), told(pair[o[2]], ids)>> :
        o \in {<<1, 2>>, <<2, 1>>}, ids \in BOOLEAN}

(* A remote_id that is not sent is the public address.                     *)
MemberStored(sent, id) ==
  [sent EXCEPT !.tunnel_id = id,
               !.remote_id = IF @ = NoText THEN sent.remote_public_ip ELSE @]

PairCreated(body) == [i \in 1..2 |-> MemberStored(body[i], MemberIds[i])]

PairUpdated(pair, body) ==
  [m \in 1..2 |->
     LET i == CHOOSE i \in 1..2 : body[i].tunnel_id = pair[m].tunnel_id
     IN MemberStored(body[i], pair[m].tunnel_id)]

(* Slots that the remote_ids tell apart, whatever order they come back in. *)
SlotsDiffer(slots) ==
  /\ slots[1].remote_id # slots[2].remote_id
  /\ NoText \notin {slots[1].remote_id, slots[2].remote_id}

(* The slots are the members.  The passphrases of slots that look alike    *)
(* may be in the wrong one.                                                *)
PairInForce(planned, pair) ==
  \A i \in 1..2 : \E m \in 1..2 :
    /\ pair[m].remote_id = planned[i].remote_id
    /\ pair[m].remote_public_ip = planned[i].remote_public_ip
    /\ SlotsDiffer(planned) => pair[m].passphrase = planned[i].passphrase

-----------------------------------------------------------------------------
(* An enhanced dynamic tunnel.  The server stores a name with a suffix,    *)
(* once; a name is its stem and the number of its suffixes.                *)

Suffixed(name) == [name EXCEPT !.suffixes = @ + 1]

NoName == [stem |-> NoText, suffixes |-> 0]

dynamicTunnelNameIsDerivedFrom(serverName, configured) ==
  configured # NoName /\ serverName \in {configured, Suffixed(configured)}

dynamicTunnelNameForState(prior, serverName) ==
  IF dynamicTunnelNameIsDerivedFrom(serverName, prior) THEN prior
  ELSE serverName

(* A remote_id that is not configured is sent as the public address.       *)
flattenDynamicTunnelDetails(blocks) ==
  [i \in DOMAIN blocks |->
     [blocks[i] EXCEPT
        !.remote_id = IF @ = NoText THEN blocks[i].remote_public_ip ELSE @]]

Endpoint(texts) ==
  [remote_public_ip : texts, remote_id : texts \cup {NoText}]

Name(texts) == [stem : texts \cup {NoText}, suffixes : Nat]

Group(texts) == [tunnel_name : Name(texts), tunnel : Seq(Endpoint(texts))]

Count(list, e) == Cardinality({i \in DOMAIN list : list[i] = e})

(* The n-th of a set of numbers, in their order.                           *)
Nth(S, n) == CHOOSE x \in S : Cardinality({y \in S : y <= x}) = n

(* An endpoint that is gone or changed cannot be addressed, and a record   *)
(* without any is an import's.                                             *)
EndpointsGoneOrUnknown(old, new) ==
  \/ old = <<>> /\ new # <<>>
  \/ \E i \in DOMAIN old : Count(new, old[i]) < Count(old, old[i])

(* What is left of the new list when the old one is taken away, the first  *)
(* of equal blocks first.                                                  *)
Added(old, new) ==
  {j \in DOMAIN new :
     Cardinality({i \in DOMAIN new : i < j /\ new[i] = new[j]})
       < Count(new, new[j]) - Count(old, new[j])}

planDynamicTunnelEndpointChanges(old, new) ==
  LET added == Added(old, new)
  IN flattenDynamicTunnelDetails(
       [k \in 1..Cardinality(added) |-> new[Nth(added, k)]])

NoGroup == [tunnel_name |-> NoName, tunnel |-> <<>>]

(* The list of endpoints is left as it is.                                 *)
resourceEnhancedDynamicTunnelRead(group, prior) ==
  [prior EXCEPT !.tunnel_name = dynamicTunnelNameForState(@, group.tunnel_name)]

GroupCreated(planned) ==
  [tunnel_name |-> Suffixed(planned.tunnel_name),
   tunnel |-> flattenDynamicTunnelDetails(planned.tunnel)]

buildDynamicTunnelUpdatePayload(old, planned) ==
  [tunnel_name |-> planned.tunnel_name,
   tunnel |-> planDynamicTunnelEndpointChanges(old.tunnel, planned.tunnel)]

GroupUpdated(group, body) ==
  [tunnel_name |-> Suffixed(body.tunnel_name),
   tunnel |-> group.tunnel \o body.tunnel]

(* The same endpoints, as many times as they are configured.               *)
GroupInForce(planned, group) ==
  LET sent == flattenDynamicTunnelDetails(planned.tunnel)
  IN /\ dynamicTunnelNameIsDerivedFrom(group.tunnel_name, planned.tunnel_name)
     /\ Len(sent) = Len(group.tunnel)
     /\ \A i \in DOMAIN sent : Count(sent, sent[i]) = Count(group.tunnel, sent[i])
=============================================================================
