--------------------------- MODULE MCDocumentCycle ---------------------------
(***************************************************************************)
(* DocumentCycle for TLC: documents with every spelling of a block, every  *)
(* type of bucket the provider does not know, ids, omitted and empty       *)
(* attributes, repeated elements and companions that do not fit.           *)
(***************************************************************************)
EXTENDS DocumentCycle

A(id, s, d, timed) ==
  [id |-> id, sources |-> s, destinations |-> d, timed |-> timed]

SA(id, s, d, c) ==
  [id |-> id, sources |-> s, destinations |-> d, conditions |-> c]

H(id, s, d, a, o) ==
  [id |-> id, sources |-> s, destinations |-> d, action |-> a,
   applied_on |-> o]

F(id, s, d, v) ==
  [id |-> id, sources |-> s, destinations |-> d, services |-> v]

D(s, d, p) == [servers |-> s, search_domains |-> d, dns_policy |-> p]

S(m, c, o, e) == [mode |-> m, cidr |-> c, objects |-> o, exceptions |-> e]

O(p, n, c, u) ==
  [phone_support_type |-> p, support_phone_numbers |-> n,
   live_chat_type |-> c, live_chat_custom_url |-> u]

V(t, v) == [value_type |-> t, value |-> v]

P(p, t, v, o) ==
  [protocol |-> p, value_type |-> t, value |-> v, protocol_options |-> o]

T(id, r, a, k) ==
  [tunnel_id |-> id, remote_id |-> r, remote_public_ip |-> a, passphrase |-> k]

N(suffixes) == [stem |-> "a", suffixes |-> suffixes]

E(a, r) == [remote_public_ip |-> a, remote_id |-> r]

users == {{"users"}}

MCConfigs ==
  [access_policy |->
     {<<A(0, users, {}, FALSE)>>, <<A(0, {{}}, {}, FALSE)>>,
      <<A(0, {}, {{"categories"}}, TRUE), A(0, users, {}, FALSE)>>,
      <<A(0, {}, {}, FALSE), A(0, {{"groups", "users"}}, {{}}, TRUE)>>},
   https_inspection_policy |->
     {<<H(0, users, {}, "bypass", "both")>>,
      <<H(0, {}, {{"domains"}}, "inspectNoDecrypt", "agents"),
        H(0, users, {}, "inspect", "sites")>>,
      <<H(0, {}, {}, "inspectNoDecrypt", "sites")>>,
      <<H(0, users, {}, "inspect", "both")>>,
      <<H(0, {{"applications"}}, {{}}, "bypass", "agents")>>},
   firewall_policy |->
     [enabled : {TRUE},
      rules : {<<>>, <<F(0, {}, users, TRUE)>>, <<F(0, {{}}, {}, FALSE)>>,
               <<F(0, {{"addresses"}}, {}, TRUE), F(0, {}, users, FALSE)>>,
               <<F(0, {{"addresses", "users"}}, {}, FALSE)>>,
               <<F(0, {}, {{"groups"}}, FALSE), F(1, {}, users, TRUE)>>}],
   private_dns |->
     [enabled : BOOLEAN,
      attributes : {{}, {D(<<>>, <<>>, {})}, {D(<<1, 2>>, <<1>>, {})},
                    {D(<<2, 1>>, <<1>>, {{"private"}})},
                    {D(<<1, 1>>, <<>>, {})}, {D(<<1>>, <<>>, {{}})}}],
   split_tunneling |->
     {S(m, c, o, {}) : m \in SplitModes, c \in {<<>>, <<2, 1>>, <<1, 1>>},
                       o \in {<<>>, <<1, 2>>}},
   support_options |->
     {O("hidden", FALSE, "harmonySaseDefault", FALSE),
      O("custom", TRUE, "hidden", FALSE), O("custom", TRUE, "custom", TRUE),
      O("custom", FALSE, "hidden", FALSE), O("hidden", TRUE, "hidden", FALSE),
      O("hidden", FALSE, "custom", FALSE), O("hidden", FALSE, "hidden", TRUE)},
   internet_access_status |-> internetAccessStatusValues,
   object_addresses |->
     {V("ip", <<"host">>), V("ip", <<"host", "host">>), V("cidr", <<"host">>),
      V("cidr", <<"block">>), V("list", <<"host", "block">>)},
   object_services |->
     {<<P("tcp", "single", 1, {}), P("icmp", "", 0, {0})>>,
      <<P("icmp", "", 0, {8})>>, <<P("icmp", "", 0, {})>>,
      <<P("icmp", "single", 1, {8})>>, <<P("tcp", "range", 1, {})>>,
      <<P("tcp", "range", 2, {8})>>, <<P("tcp", "", 0, {})>>},
   ipsec_redundant |->
     {<<T("", "a", "x", "x"), T("", "b", "y", "y")>>,
      <<T("", "b", "y", "x"), T("", "a", "x", "y")>>,
      <<T("", "a", "x", "x"), T("", "a", "y", "y")>>,
      <<T("", "", "x", "x"), T("", "b", "y", "x")>>,
      <<T("", "a", "x", "y"), T("", "", "y", "x")>>,
      <<T("", "", "x", "x"), T("", "", "y", "y")>>,
      <<T("", "", "y", "x"), T("", "", "x", "y")>>},
   enhanced_dynamic_tunnel |->
     [tunnel_name : {N(0), N(1)},
      tunnel : {<<E("x", "")>>, <<E("x", ""), E("x", "")>>,
                <<E("y", "a"), E("x", "")>>, <<E("x", "x")>>}]]

MCStored ==
  [access_policy |->
     {<<>>, <<SA(1, {"users"}, {}, {})>>,
      <<SA(2, {"users", Newer}, {}, {}), SA(1, {}, {"categories"}, {})>>,
      <<SA(1, {"users"}, {Newer}, {})>>,
      <<SA(3, {"users"}, {}, {Newer})>>},
   https_inspection_policy |->
     {<<>>, <<H(1, {"users"}, {}, "bypass", "both")>>,
      <<H(1, {"users"}, {Newer}, "bypass", "both")>>,
      <<H(2, {}, {"domains"}, "inspectNoDecrypt", "agents"),
        H(1, {"users", Newer}, {}, "inspect", "sites")>>},
   firewall_policy |->
     [enabled : BOOLEAN,
      rules : {<<>>, <<F(1, {}, {"users"}, {"services"})>>,
               <<F(2, {"addresses"}, {}, {}), F(1, {}, {"users", "groups"}, {})>>}],
   private_dns |->
     {[enabled |-> FALSE, attributes |-> {}],
      [enabled |-> FALSE, attributes |-> {D(<<>>, <<>>, {{"public", "private"}})}],
      [enabled |-> TRUE, attributes |-> {D(<<1, 2>>, <<1>>, {{"private"}})}]},
   split_tunneling |->
     {S(m, c, <<>>, e) : m \in SplitModes, c \in {<<>>, <<2, 1>>},
                         e \in SUBSET Exceptions},
   support_options |->
     {O("harmonySaseDefault", "absent", "hidden", "absent"),
      O("custom", "values", "hidden", "absent"),
      O("hidden", "values", "custom", "values")},
   internet_access_status |-> internetAccessStatusValues,
   object_addresses |-> {V("ip", <<"host">>), V("list", <<"block", "host">>)},
   object_services |->
     {<<P("icmp", "", 0, {0}), P("tcp", "single", 1, {})>>,
      <<P("tcp", "range", 2, {})>>},
   ipsec_redundant |->
     {Absent, <<T("member1", "a", "x", "x"), T("member2", "b", "y", "y")>>,
      <<T("member1", "b", "x", "x"), T("member2", "a", "y", "y")>>,
      <<T("member1", "x", "x", "y"), T("member2", "b", "y", "x")>>},
   enhanced_dynamic_tunnel |->
     {Absent} \cup
     [tunnel_name : {N(1), N(2)},
      tunnel : {<<E("x", "x")>>, <<E("x", "x"), E("y", "a")>>}]]

Numbers == 1..6
=============================================================================
