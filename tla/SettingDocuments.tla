-------------------------- MODULE SettingDocuments --------------------------
(***************************************************************************)
(* What the provider makes of its other settings: private DNS, split       *)
(* tunneling, support options and the internet access status, and of       *)
(* address and service objects.  As in PolicyDocuments, a block is a set   *)
(* of at most one value, and a function keeps the name it has in the code. *)
(***************************************************************************)
EXTENDS PolicyDocuments

Repeats(list) ==
  \E i, j \in DOMAIN list : i # j /\ list[i] = list[j]

-----------------------------------------------------------------------------
(* Private DNS.  The attributes are Optional and Computed: a plan keeps    *)
(* the record's when none are configured.  Inside they are Optional only.  *)

DnsSubBlocks == {"public", "private"}

(* Servers are known by their addresses.                                   *)
DnsAttributes(lists) ==
  [servers : lists, search_domains : lists, dns_policy : Blocks(DnsSubBlocks)]

DnsDocument(lists) ==
  [enabled : BOOLEAN,
   attributes : {s \in SUBSET DnsAttributes(lists) : \A a, b \in s : a = b}]

(* The server keeps no policy that names neither half.                     *)
StoredDns(lists) ==
  {d \in DnsDocument(lists) : \A a \in d.attributes : a.dns_policy # {{}}}

NoDnsAttributes ==
  [servers |-> <<>>, search_domains |-> <<>>, dns_policy |-> {}]

singleBlock(attributes) ==
  IF attributes = {} THEN NoDnsAttributes
  ELSE CHOOSE a \in attributes : TRUE

privateDNSDuplicateServerAddress(attributes) ==
  Repeats(singleBlock(attributes).servers)

privateDNSDuplicateString(list) == Repeats(list)

(* The refusals of a plan.                                                 *)
validatePrivateDNSDiff(dns) ==
  LET a == singleBlock(dns.attributes)
  IN \/ dns.enabled /\ a.servers = <<>>
     \/ privateDNSDuplicateServerAddress(dns.attributes)
     \/ privateDNSDuplicateString(a.search_domains)

(* A policy that names neither half is not sent.                           *)
expandDnsPolicy(block) == Wrapped(UNION block)

(* The body has both lists, whatever is configured.                        *)
expandCustomDnsUpdate(dns) ==
  LET a == singleBlock(dns.attributes)
  IN [enabled |-> dns.enabled,
      servers |-> a.servers,
      search_domains |-> a.search_domains,
      dns_policy |-> expandDnsPolicy(a.dns_policy)]

defaultCustomDnsUpdate ==
  [enabled |-> FALSE, servers |-> <<>>, search_domains |-> <<>>,
   dns_policy |-> {}]

flattenDnsPolicy(policy) == Wrapped(UNION policy)

(* A setting that was never configured is answered without attributes.     *)
flattenCustomDnsAttributes(attributes) ==
  {[a EXCEPT !.dns_policy = flattenDnsPolicy(@)] : a \in attributes}

DnsRefuses(body) ==
  \/ body.enabled /\ body.servers = <<>>
  \/ Repeats(body.servers) \/ Repeats(body.search_domains)

(* A server inside the subnet of the network is refused too, but no body   *)
(* tells the subnet: any server may lie in it.                             *)
DnsMayRefuse(body) == body.servers # <<>>

DnsStored(body) ==
  [enabled |-> body.enabled,
   attributes |-> {[servers |-> body.servers,
                    search_domains |-> body.search_domains,
                    dns_policy |-> body.dns_policy]}]

-----------------------------------------------------------------------------
(* Split tunneling.  The exceptions are Computed: the API merges those it  *)
(* is sent, and so can never be told to remove one.                        *)

SplitModes == {"via_tunnel", "out_of_tunnel"}

SplitDocument(lists, exceptions) ==
  [mode : SplitModes, cidr : lists, objects : lists, exceptions : exceptions]

validateSplitTunnelingDiff(split) ==
  privateDNSDuplicateString(split.cidr)
  \/ privateDNSDuplicateString(split.objects)

(* Mutant: the exceptions of the record are sent back.                     *)
SendsExceptions(split) == split

(* No exception is ever sent.                                              *)
expandSplitTunneling(split) == [split EXCEPT !.exceptions = {}]

SplitStored(stored, body) ==
  [body EXCEPT !.exceptions = stored.exceptions \cup @]

SplitRefuses(body) ==
  \/ Repeats(body.cidr) \/ Repeats(body.objects)
  \/ body.mode = "via_tunnel" /\ body.exceptions # {}

(* A network in via_tunnel does not tell its exceptions.                   *)
SplitAnswer(stored) ==
  IF stored.mode = "via_tunnel" THEN [stored EXCEPT !.exceptions = {}]
  ELSE stored

flattenSplitTunnelingExceptions(exceptions) == exceptions

flattenSplitTunnelingData(answer) ==
  [answer EXCEPT !.exceptions = flattenSplitTunnelingExceptions(@)]

-----------------------------------------------------------------------------
(* Support options                                                         *)

supportOptionsTypeValues == {"harmonySaseDefault", "custom", "hidden"}

(* Whether there are numbers and a URL.                                    *)
SupportDocument ==
  [phone_support_type : supportOptionsTypeValues,
   support_phone_numbers : BOOLEAN,
   live_chat_type : supportOptionsTypeValues,
   live_chat_custom_url : BOOLEAN]

StoredSupport ==
  [phone_support_type : supportOptionsTypeValues,
   support_phone_numbers : {"values", "absent"},
   live_chat_type : supportOptionsTypeValues,
   live_chat_custom_url : {"values", "absent"}]

(* A companion goes with its custom type and with no other.                *)
validateSupportOptionsCustomFields(f) ==
  \/ (f.phone_support_type = "custom") # f.support_phone_numbers
  \/ (f.live_chat_type = "custom") # f.live_chat_custom_url

(* Mutant: no numbers are an empty list.                                   *)
SendsEmptyNumbers(present) == IF present THEN "values" ELSE "empty"

expandSupportPhoneNumbers(present) == IF present THEN "values" ELSE "absent"

buildSupportOptionsRequest(f) ==
  [f EXCEPT
     !.support_phone_numbers = expandSupportPhoneNumbers(@),
     !.live_chat_custom_url = IF @ THEN "values" ELSE "absent"]

SupportRefuses(body) ==
  \/ "empty" \in {body.support_phone_numbers, body.live_chat_custom_url}
  \/ body.phone_support_type = "custom" /\ body.support_phone_numbers = "absent"
  \/ body.live_chat_type = "custom" /\ body.live_chat_custom_url = "absent"

flattenSupportPhoneNumbers(numbers) == numbers = "values"

SupportRecord(stored) ==
  [stored EXCEPT
     !.support_phone_numbers = flattenSupportPhoneNumbers(@),
     !.live_chat_custom_url = @ = "values"]

-----------------------------------------------------------------------------
(* The internet access status                                              *)

internetAccessStatusValues == {"active", "inactive"}

(* The answer has the status at its top, in an envelope, or not at all.    *)
InternetAnswers(status) ==
  {[flat |-> {status}, enveloped |-> {}], [flat |-> {}, enveloped |-> {status}],
   [flat |-> {}, enveloped |-> {}]}

internetAccessStatusFromEnvelope(answer) == answer.enveloped

(* Mutant: an answer without a status is the empty status.                 *)
NoStatusIsEmpty(answer) ==
  IF answer.flat \cup answer.enveloped = {} THEN {""}
  ELSE answer.flat \cup answer.enveloped

(* An answer without a status is an error: it has no reading.              *)
readInternetAccessStatusResponse(answer) ==
  IF answer.flat # {} THEN answer.flat ELSE internetAccessStatusFromEnvelope(answer)

-----------------------------------------------------------------------------
(* Address objects                                                         *)

AddressDocument(values) ==
  [value_type : {"ip", "list", "cidr", "fqdn"}, value : values]

resourceObjectAddressesCustomizeDiff(address) ==
  \/ address.value_type # "list" /\ Len(address.value) # 1
  \/ address.value_type = "list" /\ address.value = <<>>
  \/ address.value_type = "cidr" /\ \E i \in DOMAIN address.value :
                                       address.value[i] # "block"

(* The rules of the server that the plan repeats; it knows no others.      *)
AddressRefuses(body) ==
  LET n == Len(body.value)
  IN \/ n = 0 \/ (n > 1 /\ body.value_type # "list")
     \/ body.value_type = "cidr" /\ \E i \in 1..n : body.value[i] = "host"

-----------------------------------------------------------------------------
(* Service objects.  Of the ports there is their number; an ICMP code is a *)
(* set of at most one, because a code 0 is not an absent one.              *)

IcmpCodes == {0, 8}

ServiceEntry ==
  [protocol : {"tcp", "icmp"}, value_type : {"", "single", "range"},
   value : 0..2, protocol_options : {{}} \cup {{c} : c \in IcmpCodes}]

(* Each protocol has its half of the attributes, and no other.             *)
StoredService ==
  {e \in ServiceEntry :
     /\ e.protocol = "icmp" =>
          e.value_type = "" /\ e.value = 0 /\ e.protocol_options # {}
     /\ e.protocol = "tcp" => e.protocol_options = {}}

validateObjectServicesProtocolValueArity(e) ==
  \/ e.value_type = "single" /\ e.value # 1
  \/ e.value_type = "range" /\ e.value < 2

(* It asks what the configuration writes, and so tells 0 from nothing.     *)
validateObjectServicesProtocols(entries) ==
  \E i \in DOMAIN entries :
    LET e == entries[i]
    IN \/ /\ e.protocol = "icmp"
          /\ e.value_type # "" \/ e.value # 0 \/ e.protocol_options = {}
       \/ /\ e.protocol = "tcp"
          /\ \/ e.value_type = "" \/ e.value = 0 \/ e.protocol_options # {}
             \/ validateObjectServicesProtocolValueArity(e)

(* To the SDK a number that is not configured is 0.                        *)
OrZero(options) == IF options = {} THEN {0} ELSE options

(* Each protocol has its half of the attributes.                           *)
flattenProtocolsData(entries) ==
  [i \in DOMAIN entries |->
     IF entries[i].protocol = "icmp"
     THEN [entries[i] EXCEPT !.value_type = "", !.value = 0]
     ELSE [entries[i] EXCEPT !.protocol_options = {}]]

ServicesRefuse(body) ==
  \E i \in DOMAIN body :
    /\ body[i].protocol = "tcp"
    /\ \/ body[i].value_type = "" \/ body[i].value = 0
       \/ validateObjectServicesProtocolValueArity(body[i])

(* The code is read back, never its description.                           *)
flattenObjectServicesProtocols(answer) ==
  [i \in DOMAIN answer |->
     [answer[i] EXCEPT !.protocol_options = OrZero(@)]]
=============================================================================
