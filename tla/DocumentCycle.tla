---------------------------- MODULE DocumentCycle ----------------------------
(***************************************************************************)
(* The documents of PolicyDocuments, SettingDocuments and TunnelGroups on  *)
(* their way from the configuration through the plan to the server, and    *)
(* from its answer to the record and into the next plan, while the console *)
(* edits them too.  Calls succeed or are refused here, TenantSettings has  *)
(* their failures; only the update of a tunnel can be left half-done.      *)
(***************************************************************************)
EXTENDS SettingDocuments, TunnelGroups

CONSTANTS
  Configs,     \* the documents that may be configured, by kind
  Stored,      \* what the console may leave on the server, by kind
  Exceptions,  \* the exceptions of split tunneling
  Ids,         \* ids of rules
  Texts,       \* names, addresses, remote ids and passphrases of tunnels
  MaxEdits     \* bound: edits of the configuration and by the console

Policies == {"access_policy", "https_inspection_policy"}

Objects == {"object_addresses", "object_services"}

(* Groups of tunnels, which a create makes and a delete removes.           *)
Tunnels == {"ipsec_redundant", "enhanced_dynamic_tunnel"}

Kind == Policies \cup Objects \cup Tunnels \cup
  {"firewall_policy", "private_dns", "split_tunneling", "support_options",
   "internet_access_status"}

(* The documents a plan and a record can hold.                             *)
Recordable(k, d) ==
  CASE k = "access_policy" -> d \in Seq(AccessRule)
    [] k = "https_inspection_policy" -> d \in Seq(HttpsRule)
    [] k = "firewall_policy" -> d \in [enabled : BOOLEAN, rules : Seq(FirewallRule)]
    [] k = "private_dns" -> d \in DnsDocument(Seq(Nat))
    [] k = "split_tunneling" -> d \in SplitDocument(Seq(Nat), SUBSET Exceptions)
    [] k = "support_options" -> d \in SupportDocument
    [] k = "internet_access_status" -> d \in internetAccessStatusValues
    [] k = "object_addresses" -> d \in AddressDocument(Seq({"host", "block"}))
    [] k = "object_services" -> d \in Seq(ServiceEntry)
    [] k = "ipsec_redundant" -> d \in [1..2 -> Slot(Texts)]
    [] k = "enhanced_dynamic_tunnel" -> d \in Group(Texts)

(* Those that can be configured: ids of rules and of members and saved     *)
(* exceptions are Computed, a tunnel has a name and an endpoint.           *)
Configurable(k, d) ==
  /\ Recordable(k, d)
  /\ k \in Policies => \A i \in DOMAIN d : d[i].id = NoId
  /\ k = "split_tunneling" => d.exceptions = {}
  /\ k = "ipsec_redundant" => \A i \in 1..2 : d[i] \in ConfiguredSlot(Texts)
  /\ k = "enhanced_dynamic_tunnel" =>
       d.tunnel_name # NoName /\ d.tunnel # <<>>

(* Those the server can have.                                              *)
Storable(k, d) ==
  CASE k = "access_policy" -> d \in Seq(StoredAccessRule) /\ Unshared(d)
    [] k = "https_inspection_policy" -> d \in Seq(StoredHttpsRule) /\ Unshared(d)
    [] k = "firewall_policy" ->
         /\ d \in [enabled : BOOLEAN, rules : Seq(StoredFirewallRule)]
         /\ Unshared(d.rules)
    [] k = "private_dns" -> d \in StoredDns(Seq(Nat))
    [] k = "support_options" -> d \in StoredSupport
    [] k = "object_services" -> d \in Seq(StoredService)
    [] k = "ipsec_redundant" -> d = Absent \/ d \in StoredPair(Texts)
    [] k = "enhanced_dynamic_tunnel" -> d = Absent \/ d \in Group(Texts)
    [] OTHER -> Recordable(k, d)

(* The number of rules in the document of a kind that has numbered rules.  *)
Rules(k, d) == IF k = "firewall_policy" THEN Len(d.rules) ELSE Len(d)

(* There are ids enough for the rules of any two documents.                *)
ASSUME DocumentsAssumption ==
  /\ DOMAIN Configs = Kind /\ DOMAIN Stored = Kind
  /\ \A k \in Kind : \A d \in Configs[k] : Configurable(k, d)
  /\ \A k \in Kind : \A d \in Stored[k] : Storable(k, d)
  /\ Ids \subseteq Nat \ {NoId} /\ MaxEdits \in Nat /\ NoText \notin Texts
  /\ IsFiniteSet(Ids) =>
       \A k \in Policies \cup {"firewall_policy"} :
         \A c, d \in Configs[k] \cup Stored[k] :
           Rules(k, c) + Rules(k, d) <= Cardinality(Ids)

VARIABLES
  kind,
  config,   \* the configured document
  late,     \* what a plan would refuse in it is not known before the apply
  server,   \* the document on the server
  record,   \* a set of at most one document: Terraform's record
  op,       \* [pc, plan]: the apply under way and its planned document
  told,     \* the types a refresh has warned about since the last write
  unseen,   \* the server has changed since a read showed all of it
  settled,  \* an apply has just written and read back
  edits

vars == <<kind, config, late, server, record, op, told, unseen, settled, edits>>

Idle == [pc |-> "idle", plan |-> {}]

-----------------------------------------------------------------------------
(* Terraform core and the SDK: the planned document.                       *)

(* A rule has its configured id, or else the one of the record's rule at   *)
(* its position.                                                           *)
IdAt(rules, i) == IF i \in DOMAIN rules THEN rules[i].id ELSE NoId

PlanRules(rules, prior) ==
  [i \in DOMAIN rules |->
     [rules[i] EXCEPT !.id = IF @ # NoId THEN @ ELSE IdAt(prior, i)]]

(* A slot has the ids of the record's, where they are not configured.      *)
PlanSlots(slots, prior) ==
  IF prior = Absent THEN slots
  ELSE [i \in 1..2 |->
          [slots[i] EXCEPT
             !.tunnel_id = prior[i].tunnel_id,
             !.remote_id = IF @ # NoText THEN @ ELSE prior[i].remote_id]]

Prior(recorded, none) ==
  IF recorded = {} THEN none ELSE CHOOSE r \in recorded : TRUE

NoPolicy == [enabled |-> FALSE, rules |-> <<>>]

(* Mutant: attributes that are not configured are planned empty.           *)
PlansWhatIsWritten(k, c, prior) ==
  CASE k \in Policies -> PlanRules(c, Prior(prior, <<>>))
    [] k = "firewall_policy" ->
         [c EXCEPT !.rules = PlanRules(@, Prior(prior, NoPolicy).rules)]
    [] OTHER -> c

(* The plan for the configured document c: what is Computed and not        *)
(* configured is the record's, if there is one.                            *)
PlanFor(k, c, prior) ==
  CASE k \in Policies -> PlanRules(c, Prior(prior, <<>>))
    [] k = "firewall_policy" ->
         [c EXCEPT !.rules = PlanRules(@, Prior(prior, NoPolicy).rules)]
    [] k = "private_dns" ->
         IF c.attributes # {} THEN c
         ELSE [c EXCEPT !.attributes = Prior(prior, c).attributes]
    [] k = "split_tunneling" ->
         [c EXCEPT !.exceptions = Prior(prior, c).exceptions]
    [] k = "object_services" ->
         [i \in DOMAIN c |-> [c[i] EXCEPT !.protocol_options = OrZero(@)]]
    [] k = "ipsec_redundant" -> PlanSlots(c, Prior(prior, Absent))
    [] OTHER -> c

RefusedAtPlan(k, c, planned) ==
  CASE k = "access_policy" -> resourceAccessPolicyCustomizeDiff(planned)
    [] k = "https_inspection_policy" ->
         resourceHttpsInspectionPolicyCustomizeDiff(planned)
    [] k = "firewall_policy" ->
         resourceFirewallPolicyCustomizeDiff(planned.rules)
    [] k = "private_dns" -> validatePrivateDNSDiff(planned)
    [] k = "split_tunneling" -> validateSplitTunnelingDiff(planned)
    [] k = "support_options" -> validateSupportOptionsCustomFields(planned)
    [] k = "object_addresses" -> resourceObjectAddressesCustomizeDiff(planned)
    [] k = "object_services" -> validateObjectServicesProtocols(c)
    [] OTHER -> FALSE

Planned == PlanFor(kind, config, record)

NothingPlanned == record # {} /\ Planned \in record

-----------------------------------------------------------------------------
(* The provider: what is sent, and what is made of an answer.              *)

(* Two kinds check again once every value is known, and an update of a     *)
(* tunnel must know whom it addresses.                                     *)
RefusedAtApply(k, prior, planned) ==
  CASE k = "firewall_policy" -> validateFirewallPolicyRules(planned.rules)
    [] k = "support_options" -> validateSupportOptionsCustomFields(planned)
    [] k = "ipsec_redundant" /\ prior # {} -> UpdateNeedsIds(planned)
    [] k = "enhanced_dynamic_tunnel" /\ prior # {} ->
         EndpointsGoneOrUnknown(Prior(prior, NoGroup).tunnel, planned.tunnel)
    [] OTHER -> FALSE

Body(k, prior, planned) ==
  CASE k = "access_policy" -> expandAccessPolicyRules(planned)
    [] k = "https_inspection_policy" -> expandHttpsInspectionRules(planned)
    [] k = "firewall_policy" ->
         [planned EXCEPT !.rules = [i \in DOMAIN @ |->
                                      buildGranularFirewallPolicyRule(@[i])]]
    [] k = "private_dns" -> expandCustomDnsUpdate(planned)
    [] k = "split_tunneling" -> expandSplitTunneling(planned)
    [] k = "support_options" -> buildSupportOptionsRequest(planned)
    [] k = "object_services" -> flattenProtocolsData(planned)
    [] k = "enhanced_dynamic_tunnel" /\ prior # {} ->
         buildDynamicTunnelUpdatePayload(Prior(prior, NoGroup), planned)
    [] OTHER -> planned

(* The records a read of a document may give, from a prior record if there *)
(* is one; none when it is an error.  Passphrases may be told or not.      *)
Readings(k, stored, prior, keys) ==
  CASE k = "access_policy" ->
         {flattenAccessPolicyRules(AccessPolicyAnswer(stored))}
    [] k = "https_inspection_policy" ->
         {flattenHttpsInspectionRules(HttpsInspectionAnswer(stored))}
    [] k = "firewall_policy" ->
         {[enabled |-> stored.enabled,
           rules |-> flattenFirewallPolicyRules(
                       decodeGranularFirewallPolicy(stored).rules)]}
    [] k = "private_dns" ->
         {[enabled |-> stored.enabled,
           attributes |-> flattenCustomDnsAttributes(stored.attributes)]}
    [] k = "split_tunneling" ->
         {flattenSplitTunnelingData(SplitAnswer(stored))}
    [] k = "support_options" -> {SupportRecord(stored)}
    [] k = "object_addresses" -> {stored}
    [] k = "object_services" -> {flattenObjectServicesProtocols(stored)}
    [] k \in Tunnels /\ stored = Absent -> {}
    [] k = "ipsec_redundant" /\ stored # Absent ->
         {resourceIpsecRedundantRead(a, Prior(prior, Absent)) :
            a \in PairAnswers(stored, keys)}
    [] k = "enhanced_dynamic_tunnel" /\ stored # Absent ->
         {resourceEnhancedDynamicTunnelRead(stored, Prior(prior, NoGroup))}
    [] k = "internet_access_status" ->
         UNION {readInternetAccessStatusResponse(a) : a \in InternetAnswers(stored)}

WarnedOf(k, stored) ==
  CASE k = "access_policy" ->
         unknownAccessPolicyBucketTypes(AccessPolicyAnswer(stored))
    [] k = "https_inspection_policy" ->
         unknownHttpsInspectionBucketTypes(HttpsInspectionAnswer(stored))
    [] OTHER -> {}

-----------------------------------------------------------------------------
(* The server                                                              *)

IdsOf(rules) == {rules[i].id : i \in DOMAIN rules}

(* A rule without an id gets one that is not in use.                       *)
Numbered(rules, used) ==
  LET free == Ids \ (used \cup IdsOf(rules))
      rank(i) == Cardinality({j \in DOMAIN rules : j <= i /\ rules[j].id = NoId})
  IN [i \in DOMAIN rules |->
        [rules[i] EXCEPT !.id = IF @ # NoId THEN @ ELSE Nth(free, rank(i))]]

(* What every tenant refuses.                                              *)
Refuses(k, body) ==
  CASE k = "https_inspection_policy" ->
         \E i \in DOMAIN body : NeverInspectable(body[i])
    [] k = "firewall_policy" -> FirewallRefuses(body)
    [] k = "private_dns" -> DnsRefuses(body)
    [] k = "split_tunneling" -> SplitRefuses(body)
    [] k = "support_options" -> SupportRefuses(body)
    [] k = "object_addresses" -> AddressRefuses(body)
    [] k = "object_services" -> ServicesRefuse(body)
    [] OTHER -> FALSE

(* What a tenant may refuse besides, because of its features or of another *)
(* resource, which no plan can see.                                        *)
MayRefuse(k, body) ==
  \/ k = "https_inspection_policy"
       /\ \E i \in DOMAIN body : NeedsInspection(body[i])
  \/ k = "private_dns" /\ DnsMayRefuse(body)

(* Every write replaces the document, but for the exceptions and for the   *)
(* endpoints of a tunnel, which it adds to.                                *)
Written(k, stored, body) ==
  CASE k \in Policies -> Numbered(body, IdsOf(stored))
    [] k = "firewall_policy" ->
         [body EXCEPT !.rules = Numbered(@, IdsOf(stored.rules))]
    [] k = "private_dns" -> DnsStored(body)
    [] k = "split_tunneling" -> SplitStored(stored, body)
    [] k = "ipsec_redundant" ->
         IF stored = Absent THEN PairCreated(body)
         ELSE PairUpdated(stored, body)
    [] k = "enhanced_dynamic_tunnel" ->
         IF stored = Absent THEN GroupCreated(body) ELSE GroupUpdated(stored, body)
    [] OTHER -> body

(* What a delete leaves; three kinds leave the document alone.             *)
Cleared(k, stored) ==
  CASE k \in Policies -> <<>>
    [] k = "firewall_policy" ->
         IF stored.rules = <<>> THEN stored
         ELSE buildGranularFirewallPolicyClear(stored)
    [] k = "private_dns" -> DnsStored(defaultCustomDnsUpdate)
    [] k \in Tunnels -> Absent
    [] OTHER -> stored

(* What an apply of a planned document sends, and what it leaves.          *)
Sent(planned) == Body(kind, record, planned)

After(planned) == Written(kind, server, Sent(planned))

IsRefused(planned) ==
  RefusedAtApply(kind, record, planned) \/ Refuses(kind, Sent(planned))

-----------------------------------------------------------------------------
Init ==
  /\ kind \in Kind
  /\ config \in Configs[kind]
  /\ late \in BOOLEAN
  /\ server \in Stored[kind]
  /\ record = {}
  /\ op = Idle
  /\ told = {} /\ unseen = TRUE /\ settled = "no"
  /\ edits = 0

Edit == edits < MaxEdits /\ edits' = edits + 1

(* No read tells the endpoints of an enhanced dynamic tunnel, but the      *)
(* record of an import shows that it has none of them.                     *)
HidesSome(keys) ==
  \/ kind = "enhanced_dynamic_tunnel" /\ record # {}
  \/ kind = "ipsec_redundant" /\ ~keys

(* A refresh, or an import.                                                *)
Refresh ==
  /\ op = Idle
  /\ \E keys \in BOOLEAN :
       /\ \E r \in Readings(kind, server, record, keys) : record' = {r}
       /\ unseen' = (unseen /\ HidesSome(keys))
  /\ told' = WarnedOf(kind, server)
  /\ UNCHANGED <<kind, config, late, server, op, settled, edits>>

(* Everything but the values that are not known yet is checked.  What      *)
(* AsyncResource has is left to it: tunnels with a name that is taken.     *)
Plan ==
  /\ op = Idle /\ ~NothingPlanned
  /\ late \/ ~RefusedAtPlan(kind, config, Planned)
  /\ kind \in Tunnels /\ server # Absent => record # {}
  /\ op' = [pc |-> "planned", plan |-> Planned]
  /\ settled' = "no"
  /\ UNCHANGED <<kind, config, late, server, record, told, unseen, edits>>

(* A write of a whole tunnel leaves nothing unseen.                        *)
SendsAll ==
  kind = "ipsec_redundant" \/ (kind = "enhanced_dynamic_tunnel" /\ record = {})

Write ==
  /\ op.pc = "planned" /\ ~IsRefused(op.plan)
  /\ server' = After(op.plan)
  /\ op' = [op EXCEPT !.pc = "written"]
  /\ told' = {} /\ late' = FALSE
  /\ unseen' = (unseen /\ ~SendsAll)
  /\ UNCHANGED <<kind, config, record, settled, edits>>

(* The wait for an accepted update of a tunnel fails, and nothing tells    *)
(* whether the update took effect.                                         *)
WriteNotAwaited ==
  /\ kind \in Tunnels /\ record # {}
  /\ op.pc = "planned" /\ ~IsRefused(op.plan)
  /\ Edit
  /\ server' \in {server, After(op.plan)}
  /\ op' = Idle /\ late' = FALSE /\ unseen' = TRUE
  /\ UNCHANGED <<kind, config, record, told, settled>>

(* A refused apply shows every value there is to plan with.                *)
Refused ==
  /\ op.pc = "planned"
  /\ IsRefused(op.plan) \/ MayRefuse(kind, Sent(op.plan))
  /\ op' = Idle /\ late' = FALSE
  /\ UNCHANGED <<kind, config, server, record, told, unseen, settled, edits>>

(* The read after a write warns of nothing.  Members without passphrases   *)
(* do not show which slot a passphrase of the plan has gone to, unless the *)
(* remote_ids of the plan do.                                              *)
Reread ==
  /\ op.pc = "written"
  /\ \E keys \in BOOLEAN :
       /\ \E r \in Readings(kind, server, {op.plan}, keys) : record' = {r}
       /\ unseen' = (\/ unseen
                     \/ kind = "ipsec_redundant" /\ ~keys /\ ~SlotsDiffer(op.plan))
  /\ op' = Idle
  /\ settled' = IF unseen THEN "no" ELSE "yes"
  /\ UNCHANGED <<kind, config, late, server, told, edits>>

(* DirectoryObjects has the deletes of objects.                            *)
Delete ==
  /\ op = Idle /\ record # {} /\ kind \notin Objects
  /\ Edit
  /\ server' = Cleared(kind, server)
  /\ record' = {} /\ told' = {} /\ settled' = "no"
  /\ UNCHANGED <<kind, config, late, op, unseen>>

EditConfig ==
  /\ op = Idle
  /\ Edit
  /\ config' \in Configs[kind] /\ late' \in BOOLEAN
  /\ settled' = "no"
  /\ UNCHANGED <<kind, server, record, op, told, unseen>>

Console ==
  /\ Edit
  /\ server' \in Stored[kind] \ {server}
  /\ kind \in Tunnels => server # Absent /\ server' # Absent
  /\ unseen' = TRUE /\ settled' = "no"
  /\ UNCHANGED <<kind, config, late, record, op, told>>

Next ==
  \/ Refresh \/ Plan \/ Write \/ WriteNotAwaited \/ Refused \/ Reread \/ Delete
  \/ EditConfig \/ Console

Spec == Init /\ [][Next]_vars

-----------------------------------------------------------------------------
(* The spellings the server cannot tell from an omitted block, that the    *)
(* plan of these two kinds accepts all the same.                           *)
EmptySpelling ==
  \/ kind = "firewall_policy"
       /\ \E i \in DOMAIN config.rules :
            {{}} \in {config.rules[i].sources, config.rules[i].destinations}
  \/ kind = "private_dns"
       /\ \E a \in config.attributes : a.dns_policy = {{}}

(* Whatever is written, read and edited, the server has a document of its  *)
(* kind, in which no two rules share an id, and the record and the plan    *)
(* one the schema can hold.                                                *)
TypeOK ==
  /\ kind \in Kind /\ config \in Configs[kind]
  /\ late \in BOOLEAN /\ unseen \in BOOLEAN
  /\ Storable(kind, server)
  /\ Cardinality(record) <= 1 /\ \A r \in record : Recordable(kind, r)
  /\ \/ op = Idle
     \/ /\ op = [pc |-> op.pc, plan |-> op.plan]
        /\ op.pc \in {"planned", "written"} /\ Recordable(kind, op.plan)
  /\ told \subseteq {Newer} /\ settled \in {"no", "yes"}
  /\ edits \in 0..MaxEdits

(* One apply is enough: the plan after it is empty, or refuses a           *)
(* configuration whose values the first plan did not know.                 *)
SettlesInOneApply ==
  settled = "yes" =>
    \/ NothingPlanned \/ RefusedAtPlan(kind, config, Planned) \/ EmptySpelling
    \/ kind = "ipsec_redundant" /\ ~SlotsDiffer(config)

(* What is in force, as far as the configuration speaks of it.             *)
InForce(stored) ==
  CASE kind = "private_dns" /\ config.attributes = {} -> stored.enabled
    [] kind = "split_tunneling" -> [stored EXCEPT !.exceptions = {}]
    [] OTHER -> stored

OtherConditions ==
  kind = "access_policy"
    /\ \E i \in DOMAIN server : server[i].conditions \ {"datetime"} # {}

(* An empty plan after a refresh that warned of nothing means that what is *)
(* configured is in force: sending it would change nothing on the server.  *)
(* Conditions of a type the provider does not know are the exception:      *)
(* nothing warns of them.                                                  *)
EmptyPlanMeansInForce ==
  op = Idle /\ ~unseen /\ told = {} /\ NothingPlanned =>
    CASE kind = "ipsec_redundant" -> PairInForce(Planned, server)
      [] kind = "enhanced_dynamic_tunnel" -> GroupInForce(Planned, server)
      [] OTHER ->
           \/ InForce(After(Planned)) = InForce(server)
           \/ OtherConditions

(* The restrictions of a server's rule that a body does not have.          *)
Dropped(stored, body) ==
  UNION {(stored[i].sources \cup stored[i].destinations)
           \ (IF i \in DOMAIN body THEN body[i].sources \cup body[i].destinations
              ELSE {}) : i \in DOMAIN stored}

(* A write takes away a restriction of a type the plan cannot show only if *)
(* the refresh has warned of it.                                           *)
NothingDroppedUnwarned ==
  [][op.pc = "planned" /\ op'.pc = "written" /\ ~unseen /\ kind \in Policies
     => Dropped(server, Sent(op.plan)) \cap {Newer} \subseteq told]_vars

(* An id is configured that another rule of the plan has, or has inherited *)
(* from the rule of the record at its position.                            *)
IdsClash(k, c, planned) ==
  k = "firewall_policy"
    /\ \E i, j \in DOMAIN c.rules :
         /\ i # j /\ c.rules[i].id # NoId
         /\ planned.rules[j].id = c.rules[i].id

(* Whatever passes the plan is a body no tenant need refuse; where values  *)
(* were not known, the two kinds that check again refuse it before it is   *)
(* sent.  Left out are the firewall rules that come to share an id, which  *)
(* nothing compares, and address objects, whose plan repeats the one rule  *)
(* of the server that is known.                                            *)
OnlyAcceptedBodies ==
  op.pc = "planned" /\ ~IdsClash(kind, config, op.plan)
    /\ kind # "object_addresses" =>
    \/ RefusedAtApply(kind, record, op.plan)
    \/ ~Refuses(kind, Sent(op.plan))
    \/ late /\ kind \in {"https_inspection_policy", "private_dns",
                         "split_tunneling", "object_services"}

(* No write and no delete touches what the configuration does not speak    *)
(* of: saved exceptions, private DNS attributes that were left out, the    *)
(* switch of a firewall policy that is cleared.                            *)
OthersSurvive ==
  [][/\ kind = "split_tunneling" /\ op' # op =>
          server'.exceptions = server.exceptions
     /\ kind = "private_dns" /\ op.pc = "planned" /\ op'.pc = "written"
          /\ config.attributes = {} /\ record # {} /\ ~unseen
          /\ server.attributes # {}
          => \A a \in server.attributes : \A b \in server'.attributes :
               /\ b.servers = a.servers
               /\ b.search_domains = a.search_domains
               /\ b.dns_policy = a.dns_policy
     /\ kind = "firewall_policy" /\ record # {} /\ record' = {} =>
          server'.enabled = server.enabled]_vars
=============================================================================
