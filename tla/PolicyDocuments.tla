--------------------------- MODULE PolicyDocuments ---------------------------
(***************************************************************************)
(* What the provider makes of the rules of its three policies: the body a  *)
(* write sends for the planned rules, and the blocks a read records for    *)
(* the rules it is answered.  The functions keep the names they have in    *)
(* the code.                                                               *)
(*                                                                         *)
(* A nested block is a set of at most one set of attributes, those that    *)
(* have values: {} is no block, {{}} one that is there and empty.  A       *)
(* bucket is kept without its values: an answer is a function from the     *)
(* types to whether they have any.                                         *)
(***************************************************************************)
EXTENDS Naturals, Sequences

accessPolicySourceBuckets == {"users", "groups", "addresses"}

accessPolicyDestinationBuckets ==
  {"custom_urls", "categories", "application_control_applications",
   "updatable_objects"}

httpsInspectionSourceBuckets ==
  {"users", "groups", "applications", "addresses"}

httpsInspectionDestinationBuckets ==
  {"categories", "domains", "addresses", "updatable_objects",
   "application_control_applications"}

firewallEndpointLists == {"addresses", "users", "groups"}

(* A type the API has and this version of the provider does not know.      *)
Newer == "newer"

NoId == 0

Blocks(attrs) == {{}} \cup {{s} : s \in SUBSET attrs}

policySingleBlock(block) == UNION block

(* What is left of a block once its attributes without values are dropped. *)
Wrapped(attrs) == IF attrs = {} THEN {} ELSE {attrs}

HasValues(buckets) == {t \in DOMAIN buckets : buckets[t]}

(* The server numbers the rules of a policy, each with an id of its own.   *)
Unshared(rules) ==
  \A i, j \in DOMAIN rules : rules[i].id = rules[j].id => i = j

-----------------------------------------------------------------------------
(* The web access policy                                                   *)

(* The ids are Computed: a rule has the one the record has at its position.*)
AccessRule ==
  [id : Nat, sources : Blocks(accessPolicySourceBuckets),
   destinations : Blocks(accessPolicyDestinationBuckets), timed : BOOLEAN]

(* A rule of the server, which may be of a later version of the API.       *)
StoredAccessRule ==
  [id : Nat \ {NoId}, sources : SUBSET (accessPolicySourceBuckets \cup {Newer}),
   destinations : SUBSET (accessPolicyDestinationBuckets \cup {Newer}),
   conditions : SUBSET {"datetime", Newer}]

resourceAccessPolicyCustomizeDiff(rules) ==
  \E i \in DOMAIN rules : {{}} \in {rules[i].sources, rules[i].destinations}

expandAccessPolicySources(block) ==
  accessPolicySourceBuckets \cap policySingleBlock(block)

expandAccessPolicyDestinations(block) ==
  accessPolicyDestinationBuckets \cap policySingleBlock(block)

expandAccessPolicyConditions(timed) == IF timed THEN {"datetime"} ELSE {}

expandAccessPolicyRules(rules) ==
  [i \in DOMAIN rules |->
     [id |-> rules[i].id,
      sources |-> expandAccessPolicySources(rules[i].sources),
      destinations |-> expandAccessPolicyDestinations(rules[i].destinations),
      conditions |-> expandAccessPolicyConditions(rules[i].timed)]]

(* The server answers one bucket for every type it knows.                  *)
Canonical(types, stored) == [t \in types \cup {Newer} |-> t \in stored]

AccessPolicyAnswer(stored) ==
  [i \in DOMAIN stored |->
     [id |-> stored[i].id,
      sources |-> Canonical(accessPolicySourceBuckets, stored[i].sources),
      destinations |->
        Canonical(accessPolicyDestinationBuckets, stored[i].destinations),
      conditions |-> Canonical({"datetime"}, stored[i].conditions)]]

(* Mutant: the block is recorded even if nothing is in it.                 *)
KeepsEmptySources(buckets) ==
  {accessPolicySourceBuckets \cap HasValues(buckets)}

flattenAccessPolicySources(buckets) ==
  Wrapped(accessPolicySourceBuckets \cap HasValues(buckets))

flattenAccessPolicyDestinations(buckets) ==
  Wrapped(accessPolicyDestinationBuckets \cap HasValues(buckets))

(* A condition of another type is dropped.                                 *)
flattenAccessPolicyConditions(buckets) == "datetime" \in HasValues(buckets)

flattenAccessPolicyRules(answer) ==
  [i \in DOMAIN answer |->
     [id |-> answer[i].id,
      sources |-> flattenAccessPolicySources(answer[i].sources),
      destinations |-> flattenAccessPolicyDestinations(answer[i].destinations),
      timed |-> flattenAccessPolicyConditions(answer[i].conditions)]]

(* Mutant: the destinations are not looked at.                             *)
UnknownSourcesOnly(answer) ==
  UNION {HasValues(answer[i].sources) \ accessPolicySourceBuckets :
           i \in DOMAIN answer}

unknownAccessPolicyBucketTypes(answer) ==
  UNION {(HasValues(answer[i].sources) \ accessPolicySourceBuckets)
           \cup (HasValues(answer[i].destinations)
                   \ accessPolicyDestinationBuckets) : i \in DOMAIN answer}

-----------------------------------------------------------------------------
(* The HTTPS inspection policy                                             *)

httpsInspectionActions == {"bypass", "inspect", "inspectNoDecrypt"}

HttpsRule ==
  [id : Nat, sources : Blocks(httpsInspectionSourceBuckets),
   destinations : Blocks(httpsInspectionDestinationBuckets),
   action : httpsInspectionActions,
   applied_on : {"sites", "agents", "both"}]

StoredHttpsRule ==
  [id : Nat \ {NoId},
   sources : SUBSET (httpsInspectionSourceBuckets \cup {Newer}),
   destinations : SUBSET (httpsInspectionDestinationBuckets \cup {Newer}),
   action : httpsInspectionActions,
   applied_on : {"sites", "agents", "both"}]

(* No tenant accepts it, whatever its features.                            *)
NeverInspectable(rule) ==
  rule.action = "inspectNoDecrypt" /\ rule.applied_on \in {"sites", "both"}

(* A tenant without the Inspection Policy feature refuses it.              *)
NeedsInspection(rule) ==
  \/ rule.action = "inspectNoDecrypt"
  \/ rule.action = "inspect" /\ rule.applied_on # "sites"

resourceHttpsInspectionPolicyCustomizeDiff(rules) ==
  \E i \in DOMAIN rules :
    \/ {{}} \in {rules[i].sources, rules[i].destinations}
    \/ NeverInspectable(rules[i])

expandHttpsInspectionSources(block) ==
  httpsInspectionSourceBuckets \cap policySingleBlock(block)

expandHttpsInspectionDestinations(block) ==
  httpsInspectionDestinationBuckets \cap policySingleBlock(block)

expandHttpsInspectionRules(rules) ==
  [i \in DOMAIN rules |->
     [id |-> rules[i].id,
      sources |-> expandHttpsInspectionSources(rules[i].sources),
      destinations |->
        expandHttpsInspectionDestinations(rules[i].destinations),
      action |-> rules[i].action,
      applied_on |-> rules[i].applied_on]]

HttpsInspectionAnswer(stored) ==
  [i \in DOMAIN stored |->
     [id |-> stored[i].id,
      sources |-> Canonical(httpsInspectionSourceBuckets, stored[i].sources),
      destinations |->
        Canonical(httpsInspectionDestinationBuckets, stored[i].destinations),
      action |-> stored[i].action,
      applied_on |-> stored[i].applied_on]]

flattenHttpsInspectionSources(buckets) ==
  Wrapped(httpsInspectionSourceBuckets \cap HasValues(buckets))

flattenHttpsInspectionDestinations(buckets) ==
  Wrapped(httpsInspectionDestinationBuckets \cap HasValues(buckets))

flattenHttpsInspectionRules(answer) ==
  [i \in DOMAIN answer |->
     [id |-> answer[i].id,
      sources |-> flattenHttpsInspectionSources(answer[i].sources),
      destinations |->
        flattenHttpsInspectionDestinations(answer[i].destinations),
      action |-> answer[i].action,
      applied_on |-> answer[i].applied_on]]

(* Mutant: here too only the sources are looked at.                        *)
UnknownInSourcesOnly(answer) ==
  UNION {HasValues(answer[i].sources) \ httpsInspectionSourceBuckets :
           i \in DOMAIN answer}

unknownHttpsInspectionBucketTypes(answer) ==
  UNION {(HasValues(answer[i].sources) \ httpsInspectionSourceBuckets)
           \cup (HasValues(answer[i].destinations)
                   \ httpsInspectionDestinationBuckets) : i \in DOMAIN answer}

-----------------------------------------------------------------------------
(* The firewall policy of a network                                        *)

(* An id can be configured, to keep an existing rule's.                    *)
FirewallRule ==
  [id : Nat, sources : Blocks(firewallEndpointLists),
   destinations : Blocks(firewallEndpointLists), services : BOOLEAN]

(* Addresses exclude users and groups.                                     *)
StoredEndpoints == {{"addresses"}} \cup SUBSET {"users", "groups"}

StoredFirewallRule ==
  [id : Nat \ {NoId}, sources : StoredEndpoints, destinations : StoredEndpoints,
   services : SUBSET {"services"}]

firewallPolicyRuleEndpointLists(block) ==
  firewallEndpointLists \cap policySingleBlock(block)

(* Addresses win over users and groups; nothing at all is `{}`.            *)
expandFirewallPolicyRuleEndpoint(block) ==
  LET lists == firewallPolicyRuleEndpointLists(block)
  IN IF "addresses" \in lists THEN {"addresses"} ELSE lists

(* Mutant: what the plan let through is sent.                              *)
NeverInvalid(rules) == FALSE

validateFirewallPolicyRules(rules) ==
  \E i \in DOMAIN rules :
    \E block \in {rules[i].sources, rules[i].destinations} :
      LET lists == firewallPolicyRuleEndpointLists(block)
      IN "addresses" \in lists /\ lists \cap {"users", "groups"} # {}

resourceFirewallPolicyCustomizeDiff(rules) ==
  validateFirewallPolicyRules(rules)

(* The services of a rule without any are left out, not sent empty.        *)
buildGranularFirewallPolicyRule(rule) ==
  [id |-> rule.id,
   sources |-> expandFirewallPolicyRuleEndpoint(rule.sources),
   destinations |-> expandFirewallPolicyRuleEndpoint(rule.destinations),
   services |-> IF rule.services THEN {"services"} ELSE {}]

(* Mutant: the switches of a new network are sent instead of the present   *)
(* ones.                                                                   *)
ClearToDefaults(policy) ==
  [enabled |-> FALSE, rules |-> <<>>]

buildGranularFirewallPolicyClear(policy) ==
  [enabled |-> policy.enabled, rules |-> <<>>]

(* Both decoders of a read give the lists as they are on the server.       *)
toSDK(lists) ==
  IF "addresses" \in lists THEN {"addresses"} ELSE lists

decodeGranularFirewallPolicy(policy) ==
  [enabled |-> policy.enabled,
   rules |-> [i \in DOMAIN policy.rules |->
                [policy.rules[i] EXCEPT
                   !.sources = toSDK(@), !.destinations = toSDK(@)]]]

flattenFirewallPolicyRuleEndpoint(lists) == Wrapped(lists)

flattenFirewallPolicyRules(rules) ==
  [i \in DOMAIN rules |->
     [id |-> rules[i].id,
      sources |-> flattenFirewallPolicyRuleEndpoint(rules[i].sources),
      destinations |-> flattenFirewallPolicyRuleEndpoint(rules[i].destinations),
      services |-> rules[i].services # {}]]

(* The server's own checks of a write.                                     *)
FirewallRefuses(policy) ==
  LET rules == policy.rules
  IN \/ \E i \in DOMAIN rules :
          \E lists \in {rules[i].sources, rules[i].destinations} :
            "addresses" \in lists /\ lists \cap {"users", "groups"} # {}
     \/ \E i, j \in DOMAIN rules :
          i # j /\ rules[i].id = rules[j].id /\ rules[i].id # NoId
=============================================================================
