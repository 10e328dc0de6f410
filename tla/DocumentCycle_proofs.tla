------------------------- MODULE DocumentCycle_proofs -------------------------
(***************************************************************************)
(* Proofs about the documents on their way from the configuration to the   *)
(* server and back, for all documents the schema can hold and any number   *)
(* of edits.  The first part is about the operators: for each of the nine  *)
(* kinds of plain documents, seven facts (Sound) that say what a plan, a   *)
(* write, a read and a delete of it do to one another; for the tunnels,    *)
(* what is known of the order of their slots and of their endpoints.  The  *)
(* second part is about the steps: an invariant that says what the record  *)
(* and the plan show of a server nobody else has changed.                  *)
(***************************************************************************)
EXTENDS DocumentCycle, Counting, SequenceTheorems, TLAPS

(* The kinds whose document is always on the server.                       *)
Plain(k) == k \in Kind \ Tunnels

(* Those whose rules the server numbers.                                   *)
Numbering == Policies \cup {"firewall_policy"}

RulesOf(k, d) == IF k = "firewall_policy" THEN d.rules ELSE d

-----------------------------------------------------------------------------
(* The numbering of rules                                                  *)

(* A list of n rules has n ids at most.                                    *)
LEMMA IdsAreFew ==
  ASSUME NEW n \in Nat, NEW rules, NEW D \in SUBSET (1..n), D \subseteq DOMAIN rules
  PROVE  /\ IsFiniteSet(D) /\ Cardinality(D) \in Nat
         /\ IsFiniteSet({rules[i].id : i \in D})
         /\ Cardinality({rules[i].id : i \in D}) \in Nat
         /\ Cardinality({rules[i].id : i \in D}) <= Cardinality(D)
<1> DEFINE T == {rules[i].id : i \in D}
           f == [i \in D |-> rules[i].id]
<1>1. IsFiniteSet(1..n)
  BY FS_Interval
<1>2. IsFiniteSet(D)
  BY <1>1, FS_Subset
<1>3. f \in Surjection(D, T)
  BY DEF Surjection
<1>4. IsFiniteSet(T) /\ Cardinality(T) <= Cardinality(D)
  <2> HIDE DEF f, T
  <2> QED BY <1>2, <1>3, FS_Surjection
<1>5. Cardinality(D) \in Nat /\ Cardinality(T) \in Nat
  BY <1>2, <1>4, FS_CardinalityType
<1> QED BY <1>2, <1>4, <1>5

LEMMA OneTo ==
  ASSUME NEW n \in Nat
  PROVE  /\ IsFiniteSet(1..n) /\ Cardinality(1..n) = n
         /\ 1..n \in SUBSET Nat
BY FS_Interval

WithId(rule, id) == [rule EXCEPT !.id = id]

(* A list of n rules, in which no two have the same id.                    *)
Apart(rules, n) ==
  /\ DOMAIN rules = 1..n
  /\ \A i \in 1..n : rules[i].id \in Nat /\ "id" \in DOMAIN rules[i]
  /\ \A i, j \in 1..n :
       rules[i].id = rules[j].id /\ rules[i].id # NoId => i = j

(* The server numbers the rules that have no id, gives no id twice, and    *)
(* leaves the rest of every rule alone, if it has ids enough.              *)
LEMMA NumberedFacts ==
  ASSUME NEW n \in Nat, NEW rules, Apart(rules, n),
         NEW used, IsFiniteSet(used),
         IsFiniteSet(Ids) => Cardinality(used) + n <= Cardinality(Ids),
         NEW q, q = Numbered(rules, used)
  PROVE  /\ DOMAIN q = 1..n
         /\ \A i \in 1..n : q[i] = WithId(rules[i], q[i].id)
         /\ \A i \in 1..n : q[i].id \in Nat \ {NoId}
         /\ \A i \in 1..n : rules[i].id # NoId => q[i].id = rules[i].id
         /\ \A i, j \in 1..n : q[i].id = q[j].id => i = j
<1> DEFINE free == Ids \ (used \cup IdsOf(rules))
           Open == {j \in 1..n : rules[j].id = NoId}
           rank(i) == Cardinality(Below(Open, i))
           NewId(i) == IF rules[i].id # NoId THEN rules[i].id
                       ELSE Nth(free, rank(i))
<1>1. Ids \subseteq Nat \ {NoId}
  BY DocumentsAssumption
<1>2. free \in SUBSET Nat /\ Open \in SUBSET Nat
  <2>1. Open \in SUBSET (1..n)
    OBVIOUS
  <2> QED BY <1>1, <2>1, OneTo
<1>3. IsFiniteSet(Open) /\ Cardinality(Open) \in Nat
  BY OneTo, FS_Subset, FS_CardinalityType
<1>4. IsFiniteSet(free) => Cardinality(Open) <= Cardinality(free)
  <2> SUFFICES ASSUME IsFiniteSet(free)
               PROVE  Cardinality(Open) <= Cardinality(free)
    OBVIOUS
  <2> DEFINE Closed == (1..n) \ Open
             G == {rules[i].id : i \in Closed}
  <2>1. /\ IsFiniteSet(Closed) /\ Cardinality(Closed) \in Nat
        /\ IsFiniteSet(G) /\ Cardinality(G) \in Nat
        /\ Cardinality(G) <= Cardinality(Closed)
    BY IdsAreFew DEF Apart
  <2>2. Cardinality(Closed) = n - Cardinality(Open)
    <3>1. (1..n) \cap Open = Open
      OBVIOUS
    <3> HIDE DEF Open
    <3>2. Cardinality((1..n) \ Open) = Cardinality(1..n) - Cardinality((1..n) \cap Open)
      BY OneTo, FS_Difference
    <3> QED BY <3>1, <3>2, OneTo
  <2>3. Ids \subseteq (free \cup used) \cup G
    <3>1. ASSUME NEW id \in Ids, id \in IdsOf(rules) PROVE id \in G
      <4>1. PICK i \in 1..n : id = rules[i].id
        BY <3>1 DEF IdsOf, Apart
      <4>2. id # NoId
        BY <1>1
      <4> QED BY <4>1, <4>2
    <3> QED BY <3>1
  <2> HIDE DEF G, Closed, free, Open
  <2>4. /\ IsFiniteSet(free \cup used)
        /\ Cardinality(free \cup used) \in Nat
        /\ Cardinality(free \cup used) <= Cardinality(free) + Cardinality(used)
        /\ Cardinality(free) \in Nat /\ Cardinality(used) \in Nat
    <3>1. Cardinality(free) \in Nat /\ Cardinality(used) \in Nat
      BY FS_CardinalityType
    <3>2. /\ IsFiniteSet(free \cup used)
          /\ Cardinality(free \cup used) =
               Cardinality(free) + Cardinality(used) - Cardinality(free \cap used)
      BY FS_Union
    <3>3. Cardinality(free \cap used) \in Nat
      BY FS_Intersection, FS_CardinalityType
    <3>4. Cardinality(free \cup used) \in Nat
      BY <3>2, FS_CardinalityType
    <3> QED BY <3>1, <3>2, <3>3, <3>4
  <2>5. /\ IsFiniteSet((free \cup used) \cup G)
        /\ Cardinality((free \cup used) \cup G)
             <= Cardinality(free \cup used) + Cardinality(G)
        /\ Cardinality((free \cup used) \cup G) \in Nat
    <3>1. /\ IsFiniteSet((free \cup used) \cup G)
          /\ Cardinality((free \cup used) \cup G) =
               Cardinality(free \cup used) + Cardinality(G)
                 - Cardinality((free \cup used) \cap G)
      BY <2>1, <2>4, FS_Union
    <3>2. Cardinality((free \cup used) \cap G) \in Nat
      BY <2>4, FS_Intersection, FS_CardinalityType
    <3>3. Cardinality((free \cup used) \cup G) \in Nat
      BY <3>1, FS_CardinalityType
    <3> QED BY <2>1, <2>4, <3>1, <3>2, <3>3
  <2>6. /\ IsFiniteSet(Ids) /\ Cardinality(Ids) \in Nat
        /\ Cardinality(Ids) <= Cardinality((free \cup used) \cup G)
    BY <2>3, <2>5, FS_Subset, FS_CardinalityType
  <2>7. Cardinality(used) + n <= Cardinality(Ids)
    BY <2>6
  <2> QED BY <1>3, <2>1, <2>2, <2>4, <2>5, <2>6, <2>7
<1>5. ASSUME NEW i \in Open
      PROVE  /\ Nth(free, rank(i)) \in free
             /\ Cardinality(Below(free, Nth(free, rank(i)))) = rank(i)
  <2>1. rank(i) \in 1..Cardinality(Open)
    BY <1>2, <1>3, BelowBounds
  <2>2. rank(i) \in Nat \ {0} /\ rank(i) <= Cardinality(Open)
    BY <1>3, <2>1
  <2>3. IsFiniteSet(free) => rank(i) <= Cardinality(free)
    <3>1. SUFFICES ASSUME IsFiniteSet(free) PROVE rank(i) <= Cardinality(free)
      OBVIOUS
    <3>2. Cardinality(free) \in Nat
      BY <3>1, FS_CardinalityType
    <3> HIDE DEF rank, free, Open
    <3> QED BY <1>3, <1>4, <2>2, <3>1, <3>2
  <2> DEFINE k == rank(i)
  <2> HIDE DEF k, free
  <2>4. \E x \in free : Cardinality(Below(free, x)) = k
    BY <1>2, <2>2, <2>3, NthExists DEF k
  <2>5. /\ Nth(free, k) \in free
        /\ Cardinality(Below(free, Nth(free, k))) = k
    BY <2>4 DEF Nth, Below
  <2> QED BY <2>5 DEF k
<1>6. Numbered(rules, used) =
        [i \in 1..n |-> [rules[i] EXCEPT !.id = NewId(i)]]
  <2>1. \A i \in 1..n : Below(Open, i) =
          {j \in DOMAIN rules : j <= i /\ rules[j].id = NoId}
    BY DEF Below, Apart
  <2> QED BY <2>1 DEF Numbered, Apart
<1>7. \A i \in 1..n : NewId(i) \in Nat \ {NoId}
  BY <1>1, <1>5 DEF Apart
<1>8. \A i, j \in 1..n : NewId(i) = NewId(j) => i = j
  <2> SUFFICES ASSUME NEW i \in 1..n, NEW j \in 1..n, NewId(i) = NewId(j)
               PROVE  i = j
    OBVIOUS
  <2>1. CASE i \notin Open /\ j \notin Open
    BY <2>1 DEF Apart
  <2>2. CASE i \in Open /\ j \in Open
    <3>1. NewId(i) = Nth(free, rank(i)) /\ NewId(j) = Nth(free, rank(j))
      BY <2>2
    <3>2. rank(i) = rank(j)
      <4> HIDE DEF NewId, rank, free
      <4> QED BY <2>2, <1>5, <3>1
    <3> HIDE DEF Open
    <3> QED BY <1>2, <2>2, <3>2, BelowTells
  <2>3. ASSUME NEW a \in 1..n, NEW b \in 1..n, a \in Open, b \notin Open
        PROVE  NewId(a) # NewId(b)
    <3>1. NewId(a) \in free
      BY <1>5, <2>3
    <3>2. NewId(b) = rules[b].id
      BY <2>3
    <3>3. rules[b].id \in IdsOf(rules)
      BY DEF IdsOf, Apart
    <3> QED BY <3>1, <3>2, <3>3
  <2> QED BY <2>1, <2>2, <2>3
<1> HIDE DEF NewId, free, Open
<1>9. DOMAIN q = 1..n /\ \A i \in 1..n : q[i] = [rules[i] EXCEPT !.id = NewId(i)]
  BY <1>6
<1>10. \A i \in 1..n : q[i].id = NewId(i)
  BY <1>9 DEF Apart
<1>11. \A i \in 1..n : rules[i].id # NoId => NewId(i) = rules[i].id
  BY DEF NewId
<1>12. \A i \in 1..n : q[i] = WithId(rules[i], q[i].id)
  BY <1>9, <1>10 DEF WithId
<1>13. \A i \in 1..n : q[i].id \in Nat \ {NoId}
  BY <1>7, <1>10
<1>14. \A i \in 1..n : rules[i].id # NoId => q[i].id = rules[i].id
  BY <1>10, <1>11
<1>15. \A i, j \in 1..n : q[i].id = q[j].id => i = j
  BY <1>8, <1>10
<1>16. DOMAIN q = 1..n
  BY <1>9
<1> QED BY <1>12, <1>13, <1>14, <1>15, <1>16

-----------------------------------------------------------------------------
(* Lists of rules                                                          *)

(* The rules of a policy are records with an id; an id can be given.       *)
HasIds(T) ==
  \A a \in T :
    /\ a.id \in Nat /\ "id" \in DOMAIN a /\ WithId(a, a.id) = a
    /\ \A id \in Nat : WithId(a, id) \in T /\ WithId(a, id).id = id

LEMMA WithIdTwice ==
  ASSUME NEW a, NEW x, NEW y, "id" \in DOMAIN a
  PROVE  WithId(WithId(a, x), y) = WithId(a, y)
BY DEF WithId

LEMMA AccessFields ==
  ASSUME NEW a \in AccessRule, NEW id \in Nat
  PROVE  /\ WithId(a, id) \in AccessRule
         /\ WithId(a, id).id = id
         /\ WithId(a, id).sources = a.sources
         /\ WithId(a, id).destinations = a.destinations
         /\ WithId(a, id).timed = a.timed
BY DEF WithId, AccessRule

LEMMA HttpsFields ==
  ASSUME NEW a \in HttpsRule, NEW id \in Nat
  PROVE  /\ WithId(a, id) \in HttpsRule
         /\ WithId(a, id).id = id
         /\ WithId(a, id).sources = a.sources
         /\ WithId(a, id).destinations = a.destinations
         /\ WithId(a, id).action = a.action
         /\ WithId(a, id).applied_on = a.applied_on
BY DEF WithId, HttpsRule

LEMMA FirewallFields ==
  ASSUME NEW a \in FirewallRule, NEW id \in Nat
  PROVE  /\ WithId(a, id) \in FirewallRule
         /\ WithId(a, id).id = id
         /\ WithId(a, id).sources = a.sources
         /\ WithId(a, id).destinations = a.destinations
         /\ WithId(a, id).services = a.services
BY DEF WithId, FirewallRule

LEMMA SameAccessRule ==
  ASSUME NEW a \in AccessRule, NEW b \in AccessRule,
         a.id = b.id, a.sources = b.sources, a.destinations = b.destinations,
         a.timed = b.timed
  PROVE  a = b
BY DEF AccessRule

LEMMA SameHttpsRule ==
  ASSUME NEW a \in HttpsRule, NEW b \in HttpsRule,
         a.id = b.id, a.sources = b.sources, a.destinations = b.destinations,
         a.action = b.action, a.applied_on = b.applied_on
  PROVE  a = b
BY DEF HttpsRule

LEMMA SameFirewallRule ==
  ASSUME NEW a \in FirewallRule, NEW b \in FirewallRule,
         a.id = b.id, a.sources = b.sources, a.destinations = b.destinations,
         a.services = b.services
  PROVE  a = b
BY DEF FirewallRule

LEMMA RulesHaveIds ==
  HasIds(AccessRule) /\ HasIds(HttpsRule) /\ HasIds(FirewallRule)
<1>1. HasIds(AccessRule)
  <2> SUFFICES ASSUME NEW a \in AccessRule
               PROVE  /\ a.id \in Nat /\ "id" \in DOMAIN a /\ WithId(a, a.id) = a
                      /\ \A id \in Nat : /\ WithId(a, id) \in AccessRule
                                         /\ WithId(a, id).id = id
    BY DEF HasIds
  <2>1. a.id \in Nat /\ "id" \in DOMAIN a
    BY DEF AccessRule
  <2>2. WithId(a, a.id) = a
    BY <2>1, AccessFields, SameAccessRule
  <2> QED BY <2>1, <2>2, AccessFields
<1>2. HasIds(HttpsRule)
  <2> SUFFICES ASSUME NEW a \in HttpsRule
               PROVE  /\ a.id \in Nat /\ "id" \in DOMAIN a /\ WithId(a, a.id) = a
                      /\ \A id \in Nat : /\ WithId(a, id) \in HttpsRule
                                         /\ WithId(a, id).id = id
    BY DEF HasIds
  <2>1. a.id \in Nat /\ "id" \in DOMAIN a
    BY DEF HttpsRule
  <2>2. WithId(a, a.id) = a
    BY <2>1, HttpsFields, SameHttpsRule
  <2> QED BY <2>1, <2>2, HttpsFields
<1>3. HasIds(FirewallRule)
  <2> SUFFICES ASSUME NEW a \in FirewallRule
               PROVE  /\ a.id \in Nat /\ "id" \in DOMAIN a /\ WithId(a, a.id) = a
                      /\ \A id \in Nat : /\ WithId(a, id) \in FirewallRule
                                         /\ WithId(a, id).id = id
    BY DEF HasIds
  <2>1. a.id \in Nat /\ "id" \in DOMAIN a
    BY DEF FirewallRule
  <2>2. WithId(a, a.id) = a
    BY <2>1, FirewallFields, SameFirewallRule
  <2> QED BY <2>1, <2>2, FirewallFields
<1> QED BY <1>1, <1>2, <1>3

(* A plan has a rule for every configured one, which differs from it in    *)
(* its id at most, and the ids of the record's rules at their positions.   *)
LEMMA PlanRulesFacts ==
  ASSUME NEW T, HasIds(T), NEW c \in Seq(T), NEW r \in Seq(T),
         NEW q, q = PlanRules(c, r)
  PROVE  /\ q \in Seq(T) /\ Len(q) = Len(c)
         /\ \A i \in 1..Len(c) :
              q[i] = WithId(c[i], IF c[i].id # NoId THEN c[i].id ELSE IdAt(r, i))
         /\ \A i \in 1..Len(c) :
              q[i].id = IF c[i].id # NoId THEN c[i].id ELSE IdAt(r, i)
<1> DEFINE n == Len(c)
           NewId(i) == IF c[i].id # NoId THEN c[i].id ELSE IdAt(r, i)
<1>1. n \in Nat /\ DOMAIN c = 1..n /\ \A i \in 1..n : c[i] \in T
  OBVIOUS
<1>2. \A i \in 1..n : NewId(i) \in Nat
  <2> SUFFICES ASSUME NEW i \in 1..n PROVE NewId(i) \in Nat
    OBVIOUS
  <2>1. c[i].id \in Nat
    BY <1>1 DEF HasIds
  <2>2. IdAt(r, i) \in Nat
    <3>1. CASE i \in DOMAIN r
      <4>1. r[i] \in T
        BY <3>1
      <4> QED BY <3>1, <4>1 DEF IdAt, HasIds
    <3>2. CASE i \notin DOMAIN r
      BY <3>2 DEF IdAt, NoId
    <3> QED BY <3>1, <3>2
  <2> QED BY <2>1, <2>2
<1>3. q = [i \in 1..n |-> WithId(c[i], NewId(i))]
  BY <1>1 DEF PlanRules, WithId
<1> HIDE DEF NewId, n
<1>4. \A i \in 1..n : q[i] = WithId(c[i], NewId(i))
  BY <1>3
<1>5. \A i \in 1..n : q[i] \in T /\ q[i].id = NewId(i)
  <2> SUFFICES ASSUME NEW i \in 1..n PROVE q[i] \in T /\ q[i].id = NewId(i)
    OBVIOUS
  <2>1. \A id \in Nat : WithId(c[i], id) \in T /\ WithId(c[i], id).id = id
    BY <1>1 DEF HasIds
  <2>2. NewId(i) \in Nat /\ q[i] = WithId(c[i], NewId(i))
    BY <1>2, <1>4
  <2> QED BY <2>1, <2>2
<1>6. q \in Seq(T) /\ Len(q) = n
  BY <1>1, <1>3, <1>5, SeqDef
<1> QED BY <1>4, <1>5, <1>6 DEF NewId, n

(* If the record's rules are the configured ones with ids, planning them   *)
(* changes nothing.                                                        *)
LEMMA PlanOfSame ==
  ASSUME NEW T, HasIds(T), NEW c \in Seq(T), NEW r \in Seq(T), Len(r) = Len(c),
         \A i \in 1..Len(c) : r[i] = WithId(c[i], r[i].id),
         \A i \in 1..Len(c) : c[i].id # NoId => r[i].id = c[i].id
  PROVE  PlanRules(c, r) = r
<1> DEFINE q == PlanRules(c, r)
<1>1. /\ q \in Seq(T) /\ Len(q) = Len(c)
      /\ \A i \in 1..Len(c) :
           q[i] = WithId(c[i], IF c[i].id # NoId THEN c[i].id ELSE IdAt(r, i))
  BY PlanRulesFacts
<1>2. \A i \in 1..Len(c) : IdAt(r, i) = r[i].id
  BY DEF IdAt
<1> HIDE DEF q
<1>3. \A i \in 1..Len(c) : q[i] = r[i]
  BY <1>1, <1>2
<1>4. q = r
  BY <1>1, <1>3, SeqEqual
<1> QED BY <1>4 DEF q

-----------------------------------------------------------------------------
(* Blocks and buckets                                                      *)

LEMMA BlockFacts ==
  ASSUME NEW attrs, NEW block \in Blocks(attrs)
  PROVE  /\ attrs \cap UNION block = UNION block
         /\ UNION block \in SUBSET attrs
         /\ block # {{}} => Wrapped(UNION block) = block
<1>1. CASE block = {}
  <2>1. UNION block = {}
    BY <1>1
  <2> QED BY <1>1, <2>1 DEF Wrapped
<1>2. ASSUME NEW s \in SUBSET attrs, block = {s}
      PROVE  /\ attrs \cap UNION block = UNION block
             /\ UNION block \in SUBSET attrs
             /\ block # {{}} => Wrapped(UNION block) = block
  <2>1. UNION block = s
    BY <1>2
  <2>2. attrs \cap s = s
    OBVIOUS
  <2>3. block # {{}} => s # {}
    BY <1>2
  <2>4. s # {} => Wrapped(s) = block
    BY <1>2 DEF Wrapped
  <2> QED BY <2>1, <2>2, <2>3, <2>4
<1>3. block = {} \/ block = {{}} \/ \E s \in SUBSET attrs : block = {s}
  BY DEF Blocks
<1>4. {} \in SUBSET attrs
  OBVIOUS
<1> QED BY <1>1, <1>2, <1>3, <1>4

LEMMA CleanBlock ==
  ASSUME NEW attrs, NEW block \in Blocks(attrs), block # {{}}
  PROVE  Wrapped(attrs \cap UNION block) = block
BY BlockFacts

LEMMA WrappedFacts ==
  ASSUME NEW attrs, NEW s \in SUBSET attrs
  PROVE  /\ Wrapped(s) \in Blocks(attrs)
         /\ Wrapped(s) # {{}}
         /\ UNION Wrapped(s) = s
<1>1. CASE s = {}
  <2>1. Wrapped(s) = {}
    BY <1>1 DEF Wrapped
  <2>2. {} \in Blocks(attrs)
    BY DEF Blocks
  <2>3. UNION {} = {}
    OBVIOUS
  <2> QED BY <1>1, <2>1, <2>2, <2>3
<1>2. CASE s # {}
  <2>1. Wrapped(s) = {s}
    BY <1>2 DEF Wrapped
  <2>2. {s} \in Blocks(attrs)
    BY DEF Blocks
  <2>3. UNION {s} = s
    OBVIOUS
  <2>4. {s} # {{}}
    BY <1>2
  <2> QED BY <2>1, <2>2, <2>3, <2>4
<1> QED BY <1>1, <1>2

(* The answer says of every type whether the document has values of it.    *)
LEMMA CanonicalFacts ==
  ASSUME NEW types, NEW stored
  PROVE  HasValues(Canonical(types, stored)) = (types \cup {Newer}) \cap stored
<1>1. ASSUME NEW t \in types \cup {Newer}
      PROVE  Canonical(types, stored)[t] <=> t \in stored
  BY <1>1 DEF Canonical
<1>2. DOMAIN Canonical(types, stored) = types \cup {Newer}
  BY DEF Canonical
<1>3. HasValues(Canonical(types, stored)) =
        {t \in types \cup {Newer} : Canonical(types, stored)[t]}
  BY <1>2 DEF HasValues
<1> QED BY <1>1, <1>3
-----------------------------------------------------------------------------
(* A list of rules is sent and read rule by rule.  T are the rules of a    *)
(* document, S those of the server, B makes a body of a rule of T and V a  *)
(* rule of T of one of S.  Clean are the rules that are read back as they  *)
(* were sent.                                                              *)

Carries(T, S, B, V) ==
  /\ \A a \in T : B[a].id = a.id /\ "id" \in DOMAIN B[a]
  /\ \A a \in T : \A id \in Nat \ {NoId} : WithId(B[a], id) \in S
  /\ \A a \in S : a.id \in Nat \ {NoId} /\ "id" \in DOMAIN a
  /\ \A a \in S : WithId(a, a.id) = a
  /\ \A a \in S : V[a] \in T /\ V[a].id = a.id

GivesBack(T, B, V, Clean) ==
  /\ Clean \subseteq T
  /\ \A a \in Clean : \A id \in Nat : WithId(a, id) \in Clean
  /\ \A a \in Clean : \A id \in Nat \ {NoId} :
       V[WithId(B[a], id)] = WithId(a, id)

OneByOne(rules, F) == [i \in 1..Len(rules) |-> F[rules[i]]]

LEMMA ListOf ==
  ASSUME NEW n \in Nat, NEW T, NEW q, q = [i \in 1..n |-> q[i]],
         \A i \in 1..n : q[i] \in T
  PROVE  q \in Seq(T) /\ Len(q) = n /\ DOMAIN q = 1..n
<1>1. q \in [1..n -> T]
  BY SMT
<1>2. q \in Seq(T)
  BY <1>1, SeqDef
<1>3. DOMAIN q = 1..n
  BY <1>1
<1>4. Len(q) = n
  BY <1>2, <1>3
<1> QED BY <1>2, <1>3, <1>4

(* No rule of a plan has the id of another, unless a configured id is also *)
(* the one of another rule of the plan.                                    *)
LEMMA PlansApart ==
  ASSUME NEW T, HasIds(T), NEW c \in Seq(T), NEW r \in Seq(T), Unshared(r),
         NEW p, p = PlanRules(c, r),
         \A i, j \in DOMAIN c :
           ~(i # j /\ c[i].id # NoId /\ p[j].id = c[i].id)
  PROVE  Apart(p, Len(p))
<1>1. /\ p \in Seq(T) /\ Len(p) = Len(c)
      /\ \A i \in 1..Len(c) :
           p[i].id = IF c[i].id # NoId THEN c[i].id ELSE IdAt(r, i)
  BY PlanRulesFacts
<1>2. \A i \in 1..Len(p) : i \in DOMAIN c
  BY <1>1
<1>3. \A i \in 1..Len(p) : p[i].id \in Nat /\ "id" \in DOMAIN p[i]
  <2>1. \A i \in 1..Len(p) : p[i] \in T
    BY <1>1
  <2> QED BY <2>1 DEF HasIds
<1>4. ASSUME NEW i \in 1..Len(p), NEW j \in 1..Len(p), p[i].id = p[j].id, p[i].id # NoId
      PROVE  i = j
  <2> SUFFICES ASSUME i # j
               PROVE  FALSE
    OBVIOUS
  <2>1. c[i].id = NoId
    <3>1. c[i].id # NoId => p[i].id = c[i].id
      BY <1>1
    <3> QED BY <1>2, <1>4, <3>1
  <2>2. c[j].id = NoId
    <3>1. c[j].id # NoId => p[j].id = c[j].id
      BY <1>1
    <3> QED BY <1>2, <1>4, <3>1
  <2>3. p[i].id = IdAt(r, i) /\ p[j].id = IdAt(r, j)
    BY <1>1, <2>1, <2>2
  <2>4. i \in DOMAIN r /\ j \in DOMAIN r
    BY <1>4, <2>3 DEF IdAt
  <2>5. r[i].id = r[j].id
    BY <1>4, <2>3, <2>4 DEF IdAt
  <2> QED BY <2>4, <2>5 DEF Unshared
<1>5. DOMAIN p = 1..Len(p)
  BY <1>1
<1> QED BY <1>3, <1>4, <1>5 DEF Apart

LEMMA BodiesApart ==
  ASSUME NEW T, NEW S, NEW B, NEW V, Carries(T, S, B, V),
         NEW p \in Seq(T), Apart(p, Len(p)), NEW b, b = OneByOne(p, B)
  PROVE  Apart(b, Len(p))
<1>1. DOMAIN b = 1..Len(p) /\ \A i \in 1..Len(p) : b[i] = B[p[i]]
  BY DEF OneByOne
<1>2. \A i \in 1..Len(p) : p[i] \in T
  OBVIOUS
<1>3. \A i \in 1..Len(p) : b[i].id = p[i].id /\ "id" \in DOMAIN b[i]
  BY <1>1, <1>2 DEF Carries
<1> QED BY <1>1, <1>3 DEF Apart

(* What the server makes of the bodies of planned rules.                   *)
LEMMA RulesWritten ==
  ASSUME NEW T, NEW S, NEW B, NEW V, Carries(T, S, B, V), NEW p \in Seq(T),
         NEW b, b = OneByOne(p, B), Apart(b, Len(p)),
         NEW used, IsFiniteSet(used),
         IsFiniteSet(Ids) => Cardinality(used) + Len(p) <= Cardinality(Ids),
         NEW q, q = Numbered(b, used)
  PROVE  /\ q \in Seq(S) /\ Len(q) = Len(p) /\ Unshared(q)
         /\ \A i \in 1..Len(p) : q[i] = WithId(B[p[i]], q[i].id)
         /\ \A i \in 1..Len(p) : q[i].id \in Nat \ {NoId}
         /\ \A i \in 1..Len(p) : p[i].id # NoId => q[i].id = p[i].id
<1> DEFINE n == Len(p)
<1>1. n \in Nat /\ \A i \in 1..n : p[i] \in T
  OBVIOUS
<1>2. \A i \in 1..n : b[i] = B[p[i]]
  BY DEF OneByOne
<1>3. \A i \in 1..n : b[i].id = p[i].id
  BY <1>1, <1>2 DEF Carries
<1>4. /\ DOMAIN q = 1..n
      /\ \A i \in 1..n : q[i] = WithId(b[i], q[i].id)
      /\ \A i \in 1..n : q[i].id \in Nat \ {NoId}
      /\ \A i \in 1..n : b[i].id # NoId => q[i].id = b[i].id
      /\ \A i, j \in 1..n : q[i].id = q[j].id => i = j
  BY NumberedFacts
<1>5. \A i \in 1..n : q[i] = WithId(B[p[i]], q[i].id)
  BY <1>2, <1>4
<1>6. \A i \in 1..n : q[i] \in S
  <2> SUFFICES ASSUME NEW i \in 1..n PROVE q[i] \in S
    OBVIOUS
  <2>1. p[i] \in T /\ q[i].id \in Nat \ {NoId}
    BY <1>1, <1>4
  <2>2. WithId(B[p[i]], q[i].id) \in S
    BY <2>1 DEF Carries
  <2> QED BY <1>5, <2>2
<1>7. q = [i \in 1..n |-> q[i]]
  <2>1. DOMAIN b = 1..n
    BY DEF OneByOne
  <2> QED BY <1>4, <2>1 DEF Numbered
<1>8. q \in Seq(S) /\ Len(q) = n
  BY <1>1, <1>6, <1>7, ListOf
<1>9. Unshared(q)
  BY <1>4 DEF Unshared
<1> QED BY <1>3, <1>4, <1>5, <1>8, <1>9

(* What a read makes of the server's rules.                                *)
LEMMA RulesRead ==
  ASSUME NEW T, NEW S, NEW B, NEW V, Carries(T, S, B, V), NEW s \in Seq(S),
         NEW v, v = OneByOne(s, V)
  PROVE  /\ v \in Seq(T) /\ Len(v) = Len(s)
         /\ \A i \in 1..Len(s) : v[i] = V[s[i]]
         /\ \A i \in 1..Len(s) : v[i].id = s[i].id
         /\ \A i \in DOMAIN v : v[i].id # NoId
         /\ Unshared(s) => Unshared(v)
<1> DEFINE n == Len(s)
<1>1. n \in Nat /\ DOMAIN s = 1..n /\ \A i \in 1..n : s[i] \in S
  OBVIOUS
<1>2. \A i \in 1..n : v[i] = V[s[i]]
  BY DEF OneByOne
<1>3. \A i \in 1..n : v[i] \in T
  BY <1>1, <1>2 DEF Carries
<1>4. \A i \in 1..n : v[i].id = s[i].id
  BY <1>1, <1>2 DEF Carries
<1>5. \A i \in 1..n : v[i].id # NoId
  BY <1>1, <1>4 DEF Carries
<1>6. v = [i \in 1..n |-> v[i]]
  BY DEF OneByOne
<1>7. v \in Seq(T) /\ Len(v) = n /\ DOMAIN v = 1..n
  BY <1>1, <1>3, <1>6, ListOf
<1>8. Unshared(s) => Unshared(v)
  BY <1>1, <1>4, <1>7 DEF Unshared
<1> QED BY <1>2, <1>4, <1>5, <1>7, <1>8

(* The plan after a write and a read is what was read.                     *)
LEMMA RulesSettle ==
  ASSUME NEW T, NEW S, NEW B, NEW V, Carries(T, S, B, V), HasIds(T),
         NEW Clean, GivesBack(T, B, V, Clean),
         NEW c \in Seq(T), \A i \in DOMAIN c : c[i] \in Clean,
         NEW r \in Seq(T), NEW p, p = PlanRules(c, r),
         NEW q \in Seq(S), Len(q) = Len(p),
         \A i \in 1..Len(p) : q[i] = WithId(B[p[i]], q[i].id),
         \A i \in 1..Len(p) : p[i].id # NoId => q[i].id = p[i].id,
         NEW v, v = OneByOne(q, V)
  PROVE  PlanRules(c, v) = v
<1> DEFINE n == Len(c)
<1>1. n \in Nat /\ DOMAIN c = 1..n /\ \A i \in 1..n : c[i] \in Clean
  OBVIOUS
<1>2. /\ p \in Seq(T) /\ Len(p) = n
      /\ \A i \in 1..n :
           p[i] = WithId(c[i], IF c[i].id # NoId THEN c[i].id ELSE IdAt(r, i))
      /\ \A i \in 1..n :
           p[i].id = IF c[i].id # NoId THEN c[i].id ELSE IdAt(r, i)
  BY PlanRulesFacts
<1>3. /\ v \in Seq(T) /\ Len(v) = n
      /\ \A i \in 1..n : v[i] = V[q[i]]
      /\ \A i \in 1..n : v[i].id = q[i].id
  BY <1>2, RulesRead
<1>4. \A i \in 1..n : p[i].id \in Nat
  <2>1. \A i \in 1..n : p[i] \in T
    BY <1>2
  <2> QED BY <2>1 DEF HasIds
<1>5. \A i \in 1..n : q[i].id \in Nat \ {NoId}
  <2>1. \A i \in 1..n : q[i] \in S
    BY <1>2
  <2> QED BY <2>1 DEF Carries
<1>6. \A i \in 1..n : v[i] = WithId(c[i], v[i].id)
  <2> SUFFICES ASSUME NEW i \in 1..n PROVE v[i] = WithId(c[i], v[i].id)
    OBVIOUS
  <2>1. p[i] = WithId(c[i], p[i].id) /\ p[i].id \in Nat
    BY <1>2, <1>4
  <2>2. p[i] \in Clean
    BY <1>1, <2>1 DEF GivesBack
  <2>3. V[WithId(B[p[i]], q[i].id)] = WithId(p[i], q[i].id)
    BY <1>5, <2>2 DEF GivesBack
  <2>4. v[i] = WithId(p[i], q[i].id)
    BY <1>2, <1>3, <2>3
  <2>5. c[i] \in T
    OBVIOUS
  <2>6. "id" \in DOMAIN c[i]
    BY <2>5 DEF HasIds
  <2>7. WithId(WithId(c[i], p[i].id), q[i].id) = WithId(c[i], q[i].id)
    BY <2>6, WithIdTwice
  <2> QED BY <1>3, <2>1, <2>4, <2>7
<1>7. \A i \in 1..n : c[i].id # NoId => v[i].id = c[i].id
  BY <1>2, <1>3
<1> QED BY <1>3, <1>6, <1>7, PlanOfSame

(* What was read and is sent as it is changes nothing on the server.       *)
LEMMA RulesKept ==
  ASSUME NEW T, NEW S, NEW B, NEW V, Carries(T, S, B, V), NEW s \in Seq(S),
         \A i \in DOMAIN s : B[V[s[i]]] = s[i], NEW used
  PROVE  Numbered(OneByOne(OneByOne(s, V), B), used) = s
<1> DEFINE n == Len(s)
           v == OneByOne(s, V)
           b == OneByOne(v, B)
<1>1. n \in Nat /\ DOMAIN s = 1..n /\ \A i \in 1..n : s[i] \in S
  OBVIOUS
<1>2. Len(v) = n /\ \A i \in 1..n : v[i] = V[s[i]]
  BY RulesRead
<1> HIDE DEF v
<1>3. DOMAIN b = 1..n /\ \A i \in 1..n : b[i] = B[v[i]]
  BY <1>2 DEF OneByOne
<1>4. b = [i \in 1..n |-> b[i]]
  BY <1>2 DEF OneByOne
<1> HIDE DEF b
<1>5. \A i \in 1..n : b[i] = s[i]
  BY <1>1, <1>2, <1>3
<1>6. \A i \in 1..n : b[i] \in S
  BY <1>1, <1>5
<1>7. b \in Seq(S) /\ Len(b) = n
  BY <1>1, <1>4, <1>6, ListOf
<1>8. b = s
  BY <1>5, <1>7, SeqEqual
<1>9. \A i \in 1..n : s[i].id # NoId /\ WithId(s[i], s[i].id) = s[i]
  BY <1>1 DEF Carries
<1> DEFINE q == Numbered(s, used)
<1>10. /\ DOMAIN q = 1..n /\ q = [i \in 1..n |-> q[i]]
       /\ \A i \in 1..n : q[i] = [s[i] EXCEPT !.id = s[i].id]
  BY <1>1, <1>9 DEF Numbered
<1> HIDE DEF q
<1>11. \A i \in 1..n : q[i] = s[i]
  BY <1>9, <1>10 DEF WithId
<1>12. \A i \in 1..n : q[i] \in S
  BY <1>1, <1>11
<1>13. q \in Seq(S) /\ Len(q) = n
  BY <1>1, <1>10, <1>12, ListOf
<1>14. q = s
  BY <1>11, <1>13, SeqEqual
<1> QED BY <1>8, <1>14 DEF q, b, v
-----------------------------------------------------------------------------
(* The rules of the web access policy                                      *)

AccessBody ==
  [a \in AccessRule |->
     [id |-> a.id, sources |-> UNION a.sources,
      destinations |-> UNION a.destinations,
      conditions |-> IF a.timed THEN {"datetime"} ELSE {}]]

AccessShown ==
  [e \in StoredAccessRule |->
     [id |-> e.id,
      sources |-> Wrapped(accessPolicySourceBuckets \cap e.sources),
      destinations |-> Wrapped(accessPolicyDestinationBuckets \cap e.destinations),
      timed |-> "datetime" \in e.conditions]]

AccessClean ==
  {a \in AccessRule : a.sources # {{}} /\ a.destinations # {{}}}

LEMMA AccessSent ==
  ASSUME NEW rules \in Seq(AccessRule)
  PROVE  expandAccessPolicyRules(rules) = OneByOne(rules, AccessBody)
<1> DEFINE E(a) == [id |-> a.id,
                    sources |-> expandAccessPolicySources(a.sources),
                    destinations |-> expandAccessPolicyDestinations(a.destinations),
                    conditions |-> expandAccessPolicyConditions(a.timed)]
<1>1. ASSUME NEW a \in AccessRule PROVE E(a) = AccessBody[a]
  <2>1. /\ a.sources \in Blocks(accessPolicySourceBuckets)
        /\ a.destinations \in Blocks(accessPolicyDestinationBuckets)
    BY DEF AccessRule
  <2>2. /\ expandAccessPolicySources(a.sources) = UNION a.sources
        /\ expandAccessPolicyDestinations(a.destinations) = UNION a.destinations
    BY <2>1, BlockFacts
       DEF expandAccessPolicySources, expandAccessPolicyDestinations, policySingleBlock
  <2> QED BY <2>2 DEF AccessBody, expandAccessPolicyConditions
<1>2. expandAccessPolicyRules(rules) = [i \in 1..Len(rules) |-> E(rules[i])]
  BY DEF expandAccessPolicyRules
<1>3. \A i \in 1..Len(rules) : rules[i] \in AccessRule
  OBVIOUS
<1> HIDE DEF E
<1>4. \A i \in 1..Len(rules) : E(rules[i]) = AccessBody[rules[i]]
  BY <1>1, <1>3
<1> QED BY <1>2, <1>4 DEF OneByOne

LEMMA AccessRead ==
  ASSUME NEW s \in Seq(StoredAccessRule)
  PROVE  flattenAccessPolicyRules(AccessPolicyAnswer(s)) = OneByOne(s, AccessShown)
<1> DEFINE A(e) == [id |-> e.id,
                    sources |-> Canonical(accessPolicySourceBuckets, e.sources),
                    destinations |->
                      Canonical(accessPolicyDestinationBuckets, e.destinations),
                    conditions |-> Canonical({"datetime"}, e.conditions)]
           R(x) == [id |-> x.id,
                    sources |-> flattenAccessPolicySources(x.sources),
                    destinations |-> flattenAccessPolicyDestinations(x.destinations),
                    timed |-> flattenAccessPolicyConditions(x.conditions)]
<1>1. ASSUME NEW e \in StoredAccessRule PROVE R(A(e)) = AccessShown[e]
  <2>1. flattenAccessPolicySources(Canonical(accessPolicySourceBuckets, e.sources))
          = Wrapped(accessPolicySourceBuckets \cap e.sources)
    <3>1. accessPolicySourceBuckets
             \cap ((accessPolicySourceBuckets \cup {Newer}) \cap e.sources)
            = accessPolicySourceBuckets \cap e.sources
      OBVIOUS
    <3> QED BY <3>1, CanonicalFacts DEF flattenAccessPolicySources
  <2>2. flattenAccessPolicyDestinations(
          Canonical(accessPolicyDestinationBuckets, e.destinations))
          = Wrapped(accessPolicyDestinationBuckets \cap e.destinations)
    <3>1. accessPolicyDestinationBuckets
             \cap ((accessPolicyDestinationBuckets \cup {Newer}) \cap e.destinations)
            = accessPolicyDestinationBuckets \cap e.destinations
      OBVIOUS
    <3> QED BY <3>1, CanonicalFacts DEF flattenAccessPolicyDestinations
  <2>3. flattenAccessPolicyConditions(Canonical({"datetime"}, e.conditions))
          = ("datetime" \in e.conditions)
    <3>1. HasValues(Canonical({"datetime"}, e.conditions))
            = ({"datetime"} \cup {Newer}) \cap e.conditions
      BY CanonicalFacts
    <3> QED BY <3>1 DEF flattenAccessPolicyConditions
  <2>4. R(A(e)) = [id |-> e.id,
                   sources |-> flattenAccessPolicySources(
                     Canonical(accessPolicySourceBuckets, e.sources)),
                   destinations |-> flattenAccessPolicyDestinations(
                     Canonical(accessPolicyDestinationBuckets, e.destinations)),
                   timed |-> flattenAccessPolicyConditions(
                     Canonical({"datetime"}, e.conditions))]
    OBVIOUS
  <2> QED BY <2>1, <2>2, <2>3, <2>4 DEF AccessShown
<1> DEFINE a == AccessPolicyAnswer(s)
<1>2. a = [i \in 1..Len(s) |-> A(s[i])]
  <2>1. DOMAIN s = 1..Len(s)
    OBVIOUS
  <2> QED BY <2>1 DEF AccessPolicyAnswer
<1>3. flattenAccessPolicyRules(a) = [i \in DOMAIN a |-> R(a[i])]
  BY DEF flattenAccessPolicyRules
<1>4. \A i \in 1..Len(s) : s[i] \in StoredAccessRule
  OBVIOUS
<1> HIDE DEF a, R, A
<1>5. \A i \in 1..Len(s) : R(a[i]) = AccessShown[s[i]]
  BY <1>1, <1>2, <1>4
<1>6. flattenAccessPolicyRules(a) = [i \in 1..Len(s) |-> R(a[i])]
  BY <1>2, <1>3
<1> QED BY <1>5, <1>6 DEF OneByOne, a

LEMMA AccessCarries ==
  Carries(AccessRule, StoredAccessRule, AccessBody, AccessShown)
<1>1. ASSUME NEW a \in AccessRule, NEW id \in Nat \ {NoId}
      PROVE  /\ AccessBody[a].id = a.id /\ "id" \in DOMAIN AccessBody[a]
             /\ WithId(AccessBody[a], id) \in StoredAccessRule
  <2>1. /\ UNION a.sources \in SUBSET accessPolicySourceBuckets
        /\ UNION a.destinations \in SUBSET accessPolicyDestinationBuckets
    <3>1. /\ a.sources \in Blocks(accessPolicySourceBuckets)
          /\ a.destinations \in Blocks(accessPolicyDestinationBuckets)
      BY DEF AccessRule
    <3> QED BY <3>1, BlockFacts
  <2> DEFINE c == IF a.timed THEN {"datetime"} ELSE {}
  <2>2. AccessBody[a] =
          [id |-> a.id, sources |-> UNION a.sources,
           destinations |-> UNION a.destinations, conditions |-> c]
    BY DEF AccessBody
  <2>3. c \in SUBSET {"datetime", Newer}
    OBVIOUS
  <2> HIDE DEF c
  <2>4. WithId(AccessBody[a], id) \in StoredAccessRule
    BY <2>1, <2>2, <2>3 DEF StoredAccessRule, WithId
  <2> QED BY <2>4 DEF AccessBody
<1>2. ASSUME NEW e \in StoredAccessRule
      PROVE  /\ e.id \in Nat \ {NoId} /\ "id" \in DOMAIN e
             /\ WithId(e, e.id) = e
             /\ AccessShown[e] \in AccessRule /\ AccessShown[e].id = e.id
  <2>1. e.id \in Nat \ {NoId} /\ "id" \in DOMAIN e /\ WithId(e, e.id) = e
    BY DEF StoredAccessRule, WithId
  <2>2. /\ Wrapped(accessPolicySourceBuckets \cap e.sources)
             \in Blocks(accessPolicySourceBuckets)
        /\ Wrapped(accessPolicyDestinationBuckets \cap e.destinations)
             \in Blocks(accessPolicyDestinationBuckets)
    BY WrappedFacts
  <2>3. ("datetime" \in e.conditions) \in BOOLEAN
    OBVIOUS
  <2>4. AccessShown[e] \in AccessRule /\ AccessShown[e].id = e.id
    BY <2>1, <2>2, <2>3 DEF AccessShown, AccessRule
  <2> QED BY <2>1, <2>4
<1>3. 1 \in Nat \ {NoId}
  BY DEF NoId
<1> QED BY <1>1, <1>2, <1>3 DEF Carries

LEMMA AccessGivesBack ==
  GivesBack(AccessRule, AccessBody, AccessShown, AccessClean)
<1>1. ASSUME NEW a \in AccessClean, NEW id \in Nat
      PROVE  WithId(a, id) \in AccessClean
  BY AccessFields DEF AccessClean
<1>2. ASSUME NEW a \in AccessClean, NEW id \in Nat \ {NoId}
      PROVE  AccessShown[WithId(AccessBody[a], id)] = WithId(a, id)
  <2> DEFINE e == WithId(AccessBody[a], id)
  <2>1. a \in AccessRule /\ a.sources # {{}} /\ a.destinations # {{}}
    BY DEF AccessClean
  <2>2. /\ a.sources \in Blocks(accessPolicySourceBuckets)
        /\ a.destinations \in Blocks(accessPolicyDestinationBuckets)
        /\ a.timed \in BOOLEAN
    BY <2>1 DEF AccessRule
  <2>3. e \in StoredAccessRule
    BY <2>1, AccessCarries DEF Carries
  <2>4. /\ e.id = id /\ e.sources = UNION a.sources
        /\ e.destinations = UNION a.destinations
        /\ e.conditions = IF a.timed THEN {"datetime"} ELSE {}
    BY <2>1 DEF WithId, AccessBody
  <2> HIDE DEF e
  <2>5. /\ Wrapped(accessPolicySourceBuckets \cap e.sources) = a.sources
        /\ Wrapped(accessPolicyDestinationBuckets \cap e.destinations) = a.destinations
    <3>1. Wrapped(accessPolicySourceBuckets \cap UNION a.sources) = a.sources
      BY <2>1, <2>2, CleanBlock
    <3>2. Wrapped(accessPolicyDestinationBuckets \cap UNION a.destinations)
            = a.destinations
      BY <2>1, <2>2, CleanBlock
    <3> QED BY <2>4, <3>1, <3>2
  <2>6. ("datetime" \in e.conditions) = a.timed
    BY <2>2, <2>4
  <2>7. AccessShown[e] \in AccessRule
    BY <2>3, AccessCarries DEF Carries
  <2>8. /\ AccessShown[e].id = id
        /\ AccessShown[e].sources = a.sources
        /\ AccessShown[e].destinations = a.destinations
        /\ AccessShown[e].timed = a.timed
    BY <2>3, <2>4, <2>5, <2>6 DEF AccessShown
  <2>9. AccessShown[e] = WithId(a, id)
    BY <2>1, <2>7, <2>8, AccessFields, SameAccessRule
  <2> QED BY <2>9 DEF e
<1>3. AccessClean \subseteq AccessRule
  BY DEF AccessClean
<1> QED BY <1>1, <1>2, <1>3 DEF GivesBack

(* A rule without a value of a type the provider does not know is sent as  *)
(* it was read.                                                            *)
LEMMA AccessKept ==
  ASSUME NEW e \in StoredAccessRule, Newer \notin e.sources,
         Newer \notin e.destinations, e.conditions \ {"datetime"} = {}
  PROVE  AccessBody[AccessShown[e]] = e
<1>1. /\ accessPolicySourceBuckets \cap e.sources = e.sources
      /\ accessPolicyDestinationBuckets \cap e.destinations = e.destinations
  <2>1. /\ e.sources \subseteq accessPolicySourceBuckets \cup {Newer}
        /\ e.destinations \subseteq accessPolicyDestinationBuckets \cup {Newer}
    BY DEF StoredAccessRule
  <2> QED BY <2>1
<1>2. e.conditions = IF "datetime" \in e.conditions THEN {"datetime"} ELSE {}
  OBVIOUS
<1> DEFINE a == AccessShown[e]
<1>3. a \in AccessRule
  BY AccessCarries DEF Carries
<1>4. a = [id |-> e.id, sources |-> Wrapped(e.sources),
           destinations |-> Wrapped(e.destinations),
           timed |-> "datetime" \in e.conditions]
  BY <1>1 DEF AccessShown
<1>5. AccessBody[a] =
        [id |-> a.id, sources |-> UNION a.sources,
         destinations |-> UNION a.destinations,
         conditions |-> IF a.timed THEN {"datetime"} ELSE {}]
  BY <1>3 DEF AccessBody
<1> HIDE DEF a
<1>6. UNION Wrapped(e.sources) = e.sources /\ UNION Wrapped(e.destinations) = e.destinations
  BY WrappedFacts
<1>7. AccessBody[a] = [id |-> e.id, sources |-> e.sources,
                       destinations |-> e.destinations, conditions |-> e.conditions]
  BY <1>2, <1>4, <1>5, <1>6
<1>8. e = [id |-> e.id, sources |-> e.sources,
           destinations |-> e.destinations, conditions |-> e.conditions]
  BY DEF StoredAccessRule
<1> QED BY <1>7, <1>8 DEF a
-----------------------------------------------------------------------------
(* The rules of the HTTPS inspection policy                                *)

HttpsBody ==
  [a \in HttpsRule |->
     [id |-> a.id, sources |-> UNION a.sources,
      destinations |-> UNION a.destinations, action |-> a.action,
      applied_on |-> a.applied_on]]

HttpsShown ==
  [e \in StoredHttpsRule |->
     [id |-> e.id,
      sources |-> Wrapped(httpsInspectionSourceBuckets \cap e.sources),
      destinations |->
        Wrapped(httpsInspectionDestinationBuckets \cap e.destinations),
      action |-> e.action, applied_on |-> e.applied_on]]

HttpsClean ==
  {a \in HttpsRule : a.sources # {{}} /\ a.destinations # {{}}}

LEMMA HttpsSent ==
  ASSUME NEW rules \in Seq(HttpsRule)
  PROVE  expandHttpsInspectionRules(rules) = OneByOne(rules, HttpsBody)
<1> DEFINE E(a) == [id |-> a.id,
                    sources |-> expandHttpsInspectionSources(a.sources),
                    destinations |-> expandHttpsInspectionDestinations(a.destinations),
                    action |-> a.action, applied_on |-> a.applied_on]
<1>1. ASSUME NEW a \in HttpsRule PROVE E(a) = HttpsBody[a]
  <2>1. /\ a.sources \in Blocks(httpsInspectionSourceBuckets)
        /\ a.destinations \in Blocks(httpsInspectionDestinationBuckets)
    BY DEF HttpsRule
  <2>2. /\ expandHttpsInspectionSources(a.sources) = UNION a.sources
        /\ expandHttpsInspectionDestinations(a.destinations) = UNION a.destinations
    BY <2>1, BlockFacts DEF expandHttpsInspectionSources,
       expandHttpsInspectionDestinations, policySingleBlock
  <2> QED BY <2>2 DEF HttpsBody
<1>2. expandHttpsInspectionRules(rules) = [i \in 1..Len(rules) |-> E(rules[i])]
  BY DEF expandHttpsInspectionRules
<1>3. \A i \in 1..Len(rules) : rules[i] \in HttpsRule
  OBVIOUS
<1> HIDE DEF E
<1>4. \A i \in 1..Len(rules) : E(rules[i]) = HttpsBody[rules[i]]
  BY <1>1, <1>3
<1> QED BY <1>2, <1>4 DEF OneByOne

LEMMA HttpsRead ==
  ASSUME NEW s \in Seq(StoredHttpsRule)
  PROVE  flattenHttpsInspectionRules(HttpsInspectionAnswer(s)) = OneByOne(s, HttpsShown)
<1> DEFINE A(e) == [id |-> e.id,
                    sources |-> Canonical(httpsInspectionSourceBuckets, e.sources),
                    destinations |->
                      Canonical(httpsInspectionDestinationBuckets, e.destinations),
                    action |-> e.action, applied_on |-> e.applied_on]
           R(x) == [id |-> x.id,
                    sources |-> flattenHttpsInspectionSources(x.sources),
                    destinations |-> flattenHttpsInspectionDestinations(x.destinations),
                    action |-> x.action, applied_on |-> x.applied_on]
<1>1. ASSUME NEW e \in StoredHttpsRule PROVE R(A(e)) = HttpsShown[e]
  <2>1. flattenHttpsInspectionSources(Canonical(httpsInspectionSourceBuckets, e.sources))
          = Wrapped(httpsInspectionSourceBuckets \cap e.sources)
    <3>1. httpsInspectionSourceBuckets
             \cap ((httpsInspectionSourceBuckets \cup {Newer}) \cap e.sources)
            = httpsInspectionSourceBuckets \cap e.sources
      OBVIOUS
    <3> QED BY <3>1, CanonicalFacts DEF flattenHttpsInspectionSources
  <2>2. flattenHttpsInspectionDestinations(
          Canonical(httpsInspectionDestinationBuckets, e.destinations))
          = Wrapped(httpsInspectionDestinationBuckets \cap e.destinations)
    <3>1. httpsInspectionDestinationBuckets
             \cap ((httpsInspectionDestinationBuckets \cup {Newer}) \cap e.destinations)
            = httpsInspectionDestinationBuckets \cap e.destinations
      OBVIOUS
    <3> QED BY <3>1, CanonicalFacts DEF flattenHttpsInspectionDestinations
  <2>3. R(A(e)) = [id |-> e.id,
                   sources |-> flattenHttpsInspectionSources(
                     Canonical(httpsInspectionSourceBuckets, e.sources)),
                   destinations |-> flattenHttpsInspectionDestinations(
                     Canonical(httpsInspectionDestinationBuckets, e.destinations)),
                   action |-> e.action, applied_on |-> e.applied_on]
    OBVIOUS
  <2> QED BY <2>1, <2>2, <2>3 DEF HttpsShown
<1> DEFINE a == HttpsInspectionAnswer(s)
<1>2. a = [i \in 1..Len(s) |-> A(s[i])]
  <2>1. DOMAIN s = 1..Len(s)
    OBVIOUS
  <2> QED BY <2>1 DEF HttpsInspectionAnswer
<1>3. flattenHttpsInspectionRules(a) = [i \in DOMAIN a |-> R(a[i])]
  BY DEF flattenHttpsInspectionRules
<1>4. \A i \in 1..Len(s) : s[i] \in StoredHttpsRule
  OBVIOUS
<1> HIDE DEF a, R, A
<1>5. \A i \in 1..Len(s) : R(a[i]) = HttpsShown[s[i]]
  BY <1>1, <1>2, <1>4
<1>6. flattenHttpsInspectionRules(a) = [i \in 1..Len(s) |-> R(a[i])]
  BY <1>2, <1>3
<1> QED BY <1>5, <1>6 DEF OneByOne, a

LEMMA HttpsCarries ==
  Carries(HttpsRule, StoredHttpsRule, HttpsBody, HttpsShown)
<1>1. ASSUME NEW a \in HttpsRule, NEW id \in Nat \ {NoId}
      PROVE  /\ HttpsBody[a].id = a.id /\ "id" \in DOMAIN HttpsBody[a]
             /\ WithId(HttpsBody[a], id) \in StoredHttpsRule
  <2>1. /\ UNION a.sources \in SUBSET httpsInspectionSourceBuckets
        /\ UNION a.destinations \in SUBSET httpsInspectionDestinationBuckets
    <3>1. /\ a.sources \in Blocks(httpsInspectionSourceBuckets)
          /\ a.destinations \in Blocks(httpsInspectionDestinationBuckets)
      BY DEF HttpsRule
    <3> QED BY <3>1, BlockFacts
  <2>2. HttpsBody[a] =
          [id |-> a.id, sources |-> UNION a.sources,
           destinations |-> UNION a.destinations, action |-> a.action,
           applied_on |-> a.applied_on]
    BY DEF HttpsBody
  <2>3. a.action \in httpsInspectionActions /\ a.applied_on \in {"sites", "agents", "both"}
    BY DEF HttpsRule
  <2>4. WithId(HttpsBody[a], id) \in StoredHttpsRule
    BY <2>1, <2>2, <2>3 DEF StoredHttpsRule, WithId
  <2> QED BY <2>2, <2>4
<1>2. ASSUME NEW e \in StoredHttpsRule
      PROVE  /\ e.id \in Nat \ {NoId} /\ "id" \in DOMAIN e
             /\ WithId(e, e.id) = e
             /\ HttpsShown[e] \in HttpsRule /\ HttpsShown[e].id = e.id
  <2>1. e.id \in Nat \ {NoId} /\ "id" \in DOMAIN e /\ WithId(e, e.id) = e
    BY DEF StoredHttpsRule, WithId
  <2>2. /\ Wrapped(httpsInspectionSourceBuckets \cap e.sources)
             \in Blocks(httpsInspectionSourceBuckets)
        /\ Wrapped(httpsInspectionDestinationBuckets \cap e.destinations)
             \in Blocks(httpsInspectionDestinationBuckets)
    BY WrappedFacts
  <2>3. e.action \in httpsInspectionActions /\ e.applied_on \in {"sites", "agents", "both"}
    BY DEF StoredHttpsRule
  <2>4. HttpsShown[e] \in HttpsRule /\ HttpsShown[e].id = e.id
    BY <2>1, <2>2, <2>3 DEF HttpsShown, HttpsRule
  <2> QED BY <2>1, <2>4
<1>3. 1 \in Nat \ {NoId}
  BY DEF NoId
<1> QED BY <1>1, <1>2, <1>3 DEF Carries

LEMMA HttpsGivesBack ==
  GivesBack(HttpsRule, HttpsBody, HttpsShown, HttpsClean)
<1>1. ASSUME NEW a \in HttpsClean, NEW id \in Nat
      PROVE  WithId(a, id) \in HttpsClean
  BY HttpsFields DEF HttpsClean
<1>2. ASSUME NEW a \in HttpsClean, NEW id \in Nat \ {NoId}
      PROVE  HttpsShown[WithId(HttpsBody[a], id)] = WithId(a, id)
  <2> DEFINE e == WithId(HttpsBody[a], id)
  <2>1. a \in HttpsRule /\ a.sources # {{}} /\ a.destinations # {{}}
    BY DEF HttpsClean
  <2>2. /\ a.sources \in Blocks(httpsInspectionSourceBuckets)
        /\ a.destinations \in Blocks(httpsInspectionDestinationBuckets)
    BY <2>1 DEF HttpsRule
  <2>3. e \in StoredHttpsRule
    BY <2>1, HttpsCarries DEF Carries
  <2>4. /\ e.id = id /\ e.sources = UNION a.sources
        /\ e.destinations = UNION a.destinations
        /\ e.action = a.action /\ e.applied_on = a.applied_on
    BY <2>1 DEF WithId, HttpsBody
  <2> HIDE DEF e
  <2>5. /\ Wrapped(httpsInspectionSourceBuckets \cap e.sources) = a.sources
        /\ Wrapped(httpsInspectionDestinationBuckets \cap e.destinations)
             = a.destinations
    <3>1. Wrapped(httpsInspectionSourceBuckets \cap UNION a.sources) = a.sources
      BY <2>1, <2>2, CleanBlock
    <3>2. Wrapped(httpsInspectionDestinationBuckets \cap UNION a.destinations)
            = a.destinations
      BY <2>1, <2>2, CleanBlock
    <3> QED BY <2>4, <3>1, <3>2
  <2>6. HttpsShown[e] \in HttpsRule
    BY <2>3, HttpsCarries DEF Carries
  <2>7. /\ HttpsShown[e].id = id
        /\ HttpsShown[e].sources = a.sources
        /\ HttpsShown[e].destinations = a.destinations
        /\ HttpsShown[e].action = a.action
        /\ HttpsShown[e].applied_on = a.applied_on
    BY <2>3, <2>4, <2>5 DEF HttpsShown
  <2>8. HttpsShown[e] = WithId(a, id)
    BY <2>1, <2>6, <2>7, HttpsFields, SameHttpsRule
  <2> QED BY <2>8 DEF e
<1>3. HttpsClean \subseteq HttpsRule
  BY DEF HttpsClean
<1> QED BY <1>1, <1>2, <1>3 DEF GivesBack

LEMMA HttpsKept ==
  ASSUME NEW e \in StoredHttpsRule, Newer \notin e.sources,
         Newer \notin e.destinations
  PROVE  HttpsBody[HttpsShown[e]] = e
<1>1. /\ httpsInspectionSourceBuckets \cap e.sources = e.sources
      /\ httpsInspectionDestinationBuckets \cap e.destinations = e.destinations
  <2>1. /\ e.sources \subseteq httpsInspectionSourceBuckets \cup {Newer}
        /\ e.destinations \subseteq httpsInspectionDestinationBuckets \cup {Newer}
    BY DEF StoredHttpsRule
  <2> QED BY <2>1
<1> DEFINE a == HttpsShown[e]
<1>2. a \in HttpsRule
  BY HttpsCarries DEF Carries
<1>3. a = [id |-> e.id, sources |-> Wrapped(e.sources),
           destinations |-> Wrapped(e.destinations), action |-> e.action,
           applied_on |-> e.applied_on]
  BY <1>1 DEF HttpsShown
<1>4. HttpsBody[a] =
        [id |-> a.id, sources |-> UNION a.sources,
         destinations |-> UNION a.destinations, action |-> a.action,
         applied_on |-> a.applied_on]
  BY <1>2 DEF HttpsBody
<1> HIDE DEF a
<1>5. UNION Wrapped(e.sources) = e.sources /\ UNION Wrapped(e.destinations) = e.destinations
  BY WrappedFacts
<1>6. HttpsBody[a] = [id |-> e.id, sources |-> e.sources,
                      destinations |-> e.destinations, action |-> e.action,
                      applied_on |-> e.applied_on]
  BY <1>3, <1>4, <1>5
<1>7. e = [id |-> e.id, sources |-> e.sources,
           destinations |-> e.destinations, action |-> e.action,
           applied_on |-> e.applied_on]
  BY DEF StoredHttpsRule
<1> QED BY <1>6, <1>7 DEF a

-----------------------------------------------------------------------------
(* The rules of the firewall policy                                        *)

FirewallBody ==
  [a \in FirewallRule |->
     [id |-> a.id, sources |-> toSDK(UNION a.sources),
      destinations |-> toSDK(UNION a.destinations),
      services |-> IF a.services THEN {"services"} ELSE {}]]

FirewallShown ==
  [e \in StoredFirewallRule |->
     [id |-> e.id, sources |-> Wrapped(e.sources),
      destinations |-> Wrapped(e.destinations), services |-> e.services # {}]]

(* The lists of a block that is not refused.                               *)
Allowed(lists) == "addresses" \in lists => lists \cap {"users", "groups"} = {}

FirewallClean ==
  {a \in FirewallRule : /\ a.sources # {{}} /\ Allowed(UNION a.sources)
                        /\ a.destinations # {{}} /\ Allowed(UNION a.destinations)}

LEMMA ListsFacts ==
  /\ \A lists \in SUBSET firewallEndpointLists : toSDK(lists) \in StoredEndpoints
  /\ \A lists \in SUBSET firewallEndpointLists : Allowed(lists) => toSDK(lists) = lists
  /\ \A lists \in StoredEndpoints : lists \in SUBSET firewallEndpointLists
  /\ \A lists \in StoredEndpoints : toSDK(lists) = lists
BY DEF toSDK, StoredEndpoints, firewallEndpointLists, Allowed

LEMMA FirewallSent ==
  ASSUME NEW rules \in Seq(FirewallRule)
  PROVE  [i \in DOMAIN rules |-> buildGranularFirewallPolicyRule(rules[i])]
           = OneByOne(rules, FirewallBody)
<1>1. ASSUME NEW a \in FirewallRule
      PROVE  buildGranularFirewallPolicyRule(a) = FirewallBody[a]
  <2>1. /\ a.sources \in Blocks(firewallEndpointLists)
        /\ a.destinations \in Blocks(firewallEndpointLists)
    BY DEF FirewallRule
  <2>2. /\ expandFirewallPolicyRuleEndpoint(a.sources) = toSDK(UNION a.sources)
        /\ expandFirewallPolicyRuleEndpoint(a.destinations) = toSDK(UNION a.destinations)
    BY <2>1, BlockFacts DEF expandFirewallPolicyRuleEndpoint, toSDK,
       firewallPolicyRuleEndpointLists, policySingleBlock
  <2> QED BY <2>2 DEF FirewallBody, buildGranularFirewallPolicyRule
<1>2. \A i \in 1..Len(rules) : rules[i] \in FirewallRule
  OBVIOUS
<1>3. DOMAIN rules = 1..Len(rules)
  OBVIOUS
<1> QED BY <1>1, <1>2, <1>3 DEF OneByOne

LEMMA FirewallRead ==
  ASSUME NEW d \in [enabled : BOOLEAN, rules : Seq(StoredFirewallRule)]
  PROVE  flattenFirewallPolicyRules(decodeGranularFirewallPolicy(d).rules)
           = OneByOne(d.rules, FirewallShown)
<1> DEFINE s == d.rules
           A(e) == [e EXCEPT !.sources = toSDK(@), !.destinations = toSDK(@)]
           R(x) == [id |-> x.id,
                    sources |-> flattenFirewallPolicyRuleEndpoint(x.sources),
                    destinations |-> flattenFirewallPolicyRuleEndpoint(x.destinations),
                    services |-> x.services # {}]
<1>1. s \in Seq(StoredFirewallRule)
  OBVIOUS
<1>2. ASSUME NEW e \in StoredFirewallRule PROVE R(A(e)) = FirewallShown[e]
  <2>1. toSDK(e.sources) = e.sources /\ toSDK(e.destinations) = e.destinations
    <3>1. e.sources \in StoredEndpoints /\ e.destinations \in StoredEndpoints
      BY DEF StoredFirewallRule
    <3> QED BY <3>1, ListsFacts
  <2>2. A(e) = e
    <3>1. e = [id |-> e.id, sources |-> e.sources, destinations |-> e.destinations,
               services |-> e.services]
      BY DEF StoredFirewallRule
    <3> QED BY <2>1, <3>1
  <2>3. R(e) = FirewallShown[e]
    BY DEF FirewallShown, flattenFirewallPolicyRuleEndpoint
  <2> QED BY <2>2, <2>3
<1> DEFINE a == decodeGranularFirewallPolicy(d).rules
<1>3. a = [i \in 1..Len(s) |-> A(s[i])]
  <2>1. DOMAIN s = 1..Len(s)
    BY <1>1
  <2> QED BY <2>1 DEF decodeGranularFirewallPolicy
<1>4. flattenFirewallPolicyRules(a) = [i \in DOMAIN a |-> R(a[i])]
  BY DEF flattenFirewallPolicyRules
<1>5. \A i \in 1..Len(s) : s[i] \in StoredFirewallRule
  BY <1>1
<1> HIDE DEF a, R, A, s
<1>6. \A i \in 1..Len(s) : R(a[i]) = FirewallShown[s[i]]
  BY <1>2, <1>3, <1>5
<1>7. flattenFirewallPolicyRules(a) = [i \in 1..Len(s) |-> R(a[i])]
  BY <1>3, <1>4
<1> QED BY <1>6, <1>7 DEF OneByOne, a, s

LEMMA FirewallCarries ==
  Carries(FirewallRule, StoredFirewallRule, FirewallBody, FirewallShown)
<1>1. ASSUME NEW a \in FirewallRule, NEW id \in Nat \ {NoId}
      PROVE  /\ FirewallBody[a].id = a.id /\ "id" \in DOMAIN FirewallBody[a]
             /\ WithId(FirewallBody[a], id) \in StoredFirewallRule
  <2> DEFINE S == toSDK(UNION a.sources)
             D == toSDK(UNION a.destinations)
             c == IF a.services THEN {"services"} ELSE {}
  <2>1. S \in StoredEndpoints /\ D \in StoredEndpoints
    <3>1. /\ a.sources \in Blocks(firewallEndpointLists)
          /\ a.destinations \in Blocks(firewallEndpointLists)
      BY DEF FirewallRule
    <3>2. /\ UNION a.sources \in SUBSET firewallEndpointLists
          /\ UNION a.destinations \in SUBSET firewallEndpointLists
      BY <3>1, BlockFacts
    <3> QED BY <3>2, ListsFacts
  <2>2. FirewallBody[a] =
          [id |-> a.id, sources |-> S, destinations |-> D, services |-> c]
    BY DEF FirewallBody
  <2>3. c \in SUBSET {"services"}
    OBVIOUS
  <2> HIDE DEF S, D, c
  <2>4. WithId(FirewallBody[a], id) \in StoredFirewallRule
    BY <2>1, <2>2, <2>3 DEF StoredFirewallRule, WithId
  <2> QED BY <2>2, <2>4
<1>2. ASSUME NEW e \in StoredFirewallRule
      PROVE  /\ e.id \in Nat \ {NoId} /\ "id" \in DOMAIN e
             /\ WithId(e, e.id) = e
             /\ FirewallShown[e] \in FirewallRule /\ FirewallShown[e].id = e.id
  <2>1. e.id \in Nat \ {NoId} /\ "id" \in DOMAIN e /\ WithId(e, e.id) = e
    BY DEF StoredFirewallRule, WithId
  <2>2. /\ Wrapped(e.sources) \in Blocks(firewallEndpointLists)
        /\ Wrapped(e.destinations) \in Blocks(firewallEndpointLists)
    <3>1. e.sources \in StoredEndpoints /\ e.destinations \in StoredEndpoints
      BY DEF StoredFirewallRule
    <3>2. /\ e.sources \in SUBSET firewallEndpointLists
          /\ e.destinations \in SUBSET firewallEndpointLists
      BY <3>1, ListsFacts
    <3> QED BY <3>2, WrappedFacts
  <2>3. (e.services # {}) \in BOOLEAN
    OBVIOUS
  <2>4. FirewallShown[e] \in FirewallRule /\ FirewallShown[e].id = e.id
    BY <2>1, <2>2, <2>3 DEF FirewallShown, FirewallRule
  <2> QED BY <2>1, <2>4
<1>3. 1 \in Nat \ {NoId}
  BY DEF NoId
<1> QED BY <1>1, <1>2, <1>3 DEF Carries

LEMMA FirewallGivesBack ==
  GivesBack(FirewallRule, FirewallBody, FirewallShown, FirewallClean)
<1>1. ASSUME NEW a \in FirewallClean, NEW id \in Nat
      PROVE  WithId(a, id) \in FirewallClean
  BY FirewallFields DEF FirewallClean
<1>2. ASSUME NEW a \in FirewallClean, NEW id \in Nat \ {NoId}
      PROVE  FirewallShown[WithId(FirewallBody[a], id)] = WithId(a, id)
  <2> DEFINE e == WithId(FirewallBody[a], id)
  <2>1. /\ a \in FirewallRule /\ a.sources # {{}} /\ a.destinations # {{}}
        /\ Allowed(UNION a.sources) /\ Allowed(UNION a.destinations)
    BY DEF FirewallClean
  <2>2. /\ a.sources \in Blocks(firewallEndpointLists)
        /\ a.destinations \in Blocks(firewallEndpointLists)
        /\ a.services \in BOOLEAN
    BY <2>1 DEF FirewallRule
  <2>3. e \in StoredFirewallRule
    BY <2>1, FirewallCarries DEF Carries
  <2>4. /\ e.id = id /\ e.sources = toSDK(UNION a.sources)
        /\ e.destinations = toSDK(UNION a.destinations)
        /\ e.services = IF a.services THEN {"services"} ELSE {}
    BY <2>1 DEF WithId, FirewallBody
  <2> HIDE DEF e
  <2>5. Wrapped(e.sources) = a.sources /\ Wrapped(e.destinations) = a.destinations
    <3>1. /\ UNION a.sources \in SUBSET firewallEndpointLists
          /\ UNION a.destinations \in SUBSET firewallEndpointLists
      BY <2>2, BlockFacts
    <3>2. e.sources = UNION a.sources /\ e.destinations = UNION a.destinations
      BY <2>1, <2>4, <3>1, ListsFacts
    <3>3. Wrapped(UNION a.sources) = a.sources
      BY <2>1, <2>2, BlockFacts
    <3>4. Wrapped(UNION a.destinations) = a.destinations
      BY <2>1, <2>2, BlockFacts
    <3> QED BY <3>2, <3>3, <3>4
  <2>6. (e.services # {}) = a.services
    BY <2>2, <2>4
  <2>7. FirewallShown[e] \in FirewallRule
    BY <2>3, FirewallCarries DEF Carries
  <2>8. /\ FirewallShown[e].id = id
        /\ FirewallShown[e].sources = a.sources
        /\ FirewallShown[e].destinations = a.destinations
        /\ FirewallShown[e].services = a.services
    BY <2>3, <2>4, <2>5, <2>6 DEF FirewallShown
  <2>9. FirewallShown[e] = WithId(a, id)
    BY <2>1, <2>7, <2>8, FirewallFields, SameFirewallRule
  <2> QED BY <2>9 DEF e
<1>3. FirewallClean \subseteq FirewallRule
  BY DEF FirewallClean
<1> QED BY <1>1, <1>2, <1>3 DEF GivesBack

LEMMA FirewallKept ==
  ASSUME NEW e \in StoredFirewallRule
  PROVE  FirewallBody[FirewallShown[e]] = e
<1> DEFINE a == FirewallShown[e]
<1>1. a \in FirewallRule
  BY FirewallCarries DEF Carries
<1>2. a = [id |-> e.id, sources |-> Wrapped(e.sources),
           destinations |-> Wrapped(e.destinations), services |-> e.services # {}]
  BY DEF FirewallShown
<1>3. FirewallBody[a] =
        [id |-> a.id, sources |-> toSDK(UNION a.sources),
         destinations |-> toSDK(UNION a.destinations),
         services |-> IF a.services THEN {"services"} ELSE {}]
  BY <1>1 DEF FirewallBody
<1> HIDE DEF a
<1>4. UNION Wrapped(e.sources) = e.sources /\ UNION Wrapped(e.destinations) = e.destinations
  BY WrappedFacts
<1>5. toSDK(e.sources) = e.sources /\ toSDK(e.destinations) = e.destinations
  <2>1. e.sources \in StoredEndpoints /\ e.destinations \in StoredEndpoints
    BY DEF StoredFirewallRule
  <2> QED BY <2>1, ListsFacts
<1>6. e.services = IF e.services # {} THEN {"services"} ELSE {}
  <2>1. e.services \in SUBSET {"services"}
    BY DEF StoredFirewallRule
  <2> QED BY <2>1
<1>7. FirewallBody[a] = [id |-> e.id, sources |-> e.sources,
                         destinations |-> e.destinations, services |-> e.services]
  BY <1>2, <1>3, <1>4, <1>5, <1>6
<1>8. e = [id |-> e.id, sources |-> e.sources,
           destinations |-> e.destinations, services |-> e.services]
  BY DEF StoredFirewallRule
<1> QED BY <1>7, <1>8 DEF a
-----------------------------------------------------------------------------
(* What the operators of DocumentCycle are for each kind of document.      *)

LEMMA OfAccess ==
  ASSUME NEW k, k = "access_policy"
  PROVE  /\ \A d : Recordable(k, d) <=> d \in Seq(AccessRule)
         /\ \A d : Storable(k, d) <=> d \in Seq(StoredAccessRule) /\ Unshared(d)
         /\ \A d : Rules(k, d) = Len(d)
         /\ \A d : RulesOf(k, d) = d
         /\ \A c, prior : PlanFor(k, c, prior) =
                PlanRules(c, Prior(prior, <<>>))
         /\ \A c, p : RefusedAtPlan(k, c, p) <=>
                resourceAccessPolicyCustomizeDiff(p)
         /\ \A prior, p : ~RefusedAtApply(k, prior, p)
         /\ \A prior, p : Body(k, prior, p) = expandAccessPolicyRules(p)
         /\ \A s, prior, keys : Readings(k, s, prior, keys) =
                {flattenAccessPolicyRules(AccessPolicyAnswer(s))}
         /\ \A s : WarnedOf(k, s) =
                unknownAccessPolicyBucketTypes(AccessPolicyAnswer(s))
         /\ \A b : ~Refuses(k, b)
         /\ \A s, b : Written(k, s, b) = Numbered(b, IdsOf(s))
         /\ \A s : Cleared(k, s) = <<>>
<1>1. \A d : Recordable(k, d) <=> d \in Seq(AccessRule)
  BY DEF Recordable
<1>2. \A d : Storable(k, d) <=> d \in Seq(StoredAccessRule) /\ Unshared(d)
  BY DEF Storable
<1>3. \A d : Rules(k, d) = Len(d)
  BY DEF Rules
<1>4. \A d : RulesOf(k, d) = d
  BY DEF RulesOf
<1>5. \A c, prior : PlanFor(k, c, prior) = PlanRules(c, Prior(prior, <<>>))
  BY DEF PlanFor, Policies
<1>6. \A c, p : RefusedAtPlan(k, c, p) <=> resourceAccessPolicyCustomizeDiff(p)
  BY DEF RefusedAtPlan
<1>7. \A prior, p : ~RefusedAtApply(k, prior, p)
  BY DEF RefusedAtApply
<1>8. \A prior, p : Body(k, prior, p) = expandAccessPolicyRules(p)
  BY DEF Body
<1>9. \A s, prior, keys : Readings(k, s, prior, keys) =
          {flattenAccessPolicyRules(AccessPolicyAnswer(s))}
  BY DEF Readings, Tunnels
<1>10. \A s : WarnedOf(k, s) =
          unknownAccessPolicyBucketTypes(AccessPolicyAnswer(s))
  BY DEF WarnedOf
<1>11. \A b : ~Refuses(k, b)
  BY DEF Refuses
<1>12. \A s, b : Written(k, s, b) = Numbered(b, IdsOf(s))
  BY DEF Written, Policies
<1>13. \A s : Cleared(k, s) = <<>>
  BY DEF Cleared, Policies, Tunnels
<1> QED BY <1>1, <1>2, <1>3, <1>4, <1>5, <1>6, <1>7, <1>8, <1>9, <1>10, <1>11,
       <1>12, <1>13

LEMMA OfHttps ==
  ASSUME NEW k, k = "https_inspection_policy"
  PROVE  /\ \A d : Recordable(k, d) <=> d \in Seq(HttpsRule)
         /\ \A d : Storable(k, d) <=> d \in Seq(StoredHttpsRule) /\ Unshared(d)
         /\ \A d : Rules(k, d) = Len(d)
         /\ \A d : RulesOf(k, d) = d
         /\ \A c, prior : PlanFor(k, c, prior) =
                PlanRules(c, Prior(prior, <<>>))
         /\ \A c, p : RefusedAtPlan(k, c, p) <=>
                resourceHttpsInspectionPolicyCustomizeDiff(p)
         /\ \A prior, p : ~RefusedAtApply(k, prior, p)
         /\ \A prior, p : Body(k, prior, p) = expandHttpsInspectionRules(p)
         /\ \A s, prior, keys : Readings(k, s, prior, keys) =
                {flattenHttpsInspectionRules(HttpsInspectionAnswer(s))}
         /\ \A s : WarnedOf(k, s) =
                unknownHttpsInspectionBucketTypes(HttpsInspectionAnswer(s))
         /\ \A b : Refuses(k, b) <=> \E i \in DOMAIN b : NeverInspectable(b[i])
         /\ \A s, b : Written(k, s, b) = Numbered(b, IdsOf(s))
         /\ \A s : Cleared(k, s) = <<>>
<1>1. \A d : Recordable(k, d) <=> d \in Seq(HttpsRule)
  BY DEF Recordable
<1>2. \A d : Storable(k, d) <=> d \in Seq(StoredHttpsRule) /\ Unshared(d)
  BY DEF Storable
<1>3. \A d : Rules(k, d) = Len(d)
  BY DEF Rules
<1>4. \A d : RulesOf(k, d) = d
  BY DEF RulesOf
<1>5. \A c, prior : PlanFor(k, c, prior) = PlanRules(c, Prior(prior, <<>>))
  BY DEF PlanFor, Policies
<1>6. \A c, p : RefusedAtPlan(k, c, p) <=>
          resourceHttpsInspectionPolicyCustomizeDiff(p)
  BY DEF RefusedAtPlan
<1>7. \A prior, p : ~RefusedAtApply(k, prior, p)
  BY DEF RefusedAtApply
<1>8. \A prior, p : Body(k, prior, p) = expandHttpsInspectionRules(p)
  BY DEF Body
<1>9. \A s, prior, keys : Readings(k, s, prior, keys) =
          {flattenHttpsInspectionRules(HttpsInspectionAnswer(s))}
  BY DEF Readings, Tunnels
<1>10. \A s : WarnedOf(k, s) =
          unknownHttpsInspectionBucketTypes(HttpsInspectionAnswer(s))
  BY DEF WarnedOf
<1>11. \A b : Refuses(k, b) <=> \E i \in DOMAIN b : NeverInspectable(b[i])
  BY DEF Refuses
<1>12. \A s, b : Written(k, s, b) = Numbered(b, IdsOf(s))
  BY DEF Written, Policies
<1>13. \A s : Cleared(k, s) = <<>>
  BY DEF Cleared, Policies, Tunnels
<1> QED BY <1>1, <1>2, <1>3, <1>4, <1>5, <1>6, <1>7, <1>8, <1>9, <1>10, <1>11,
       <1>12, <1>13

LEMMA OfFirewall ==
  ASSUME NEW k, k = "firewall_policy"
  PROVE  /\ \A d : Recordable(k, d) <=>
                d \in [enabled : BOOLEAN, rules : Seq(FirewallRule)]
         /\ \A d : Storable(k, d) <=>
                d \in [enabled : BOOLEAN, rules : Seq(StoredFirewallRule)] /\
                Unshared(d.rules)
         /\ \A d : Rules(k, d) = Len(d.rules)
         /\ \A d : RulesOf(k, d) = d.rules
         /\ \A c, prior : PlanFor(k, c, prior) =
                [c EXCEPT !.rules = PlanRules(c.rules, Prior(prior,
                NoPolicy).rules)]
         /\ \A c, p : RefusedAtPlan(k, c, p) <=>
                validateFirewallPolicyRules(p.rules)
         /\ \A prior, p : RefusedAtApply(k, prior, p) <=>
                validateFirewallPolicyRules(p.rules)
         /\ \A prior, p : Body(k, prior, p) =
                [p EXCEPT !.rules = [i \in DOMAIN p.rules |->
                buildGranularFirewallPolicyRule(p.rules[i])]]
         /\ \A s, prior, keys : Readings(k, s, prior, keys) =
                {[enabled |-> s.enabled, rules |->
                flattenFirewallPolicyRules(decodeGranularFirewallPolicy(s).rules)]}
         /\ \A s : WarnedOf(k, s) = {}
         /\ \A b : Refuses(k, b) <=> FirewallRefuses(b)
         /\ \A s, b : Written(k, s, b) =
                [b EXCEPT !.rules = Numbered(b.rules, IdsOf(s.rules))]
         /\ \A s : Cleared(k, s) =
                IF s.rules = <<>> THEN s ELSE [enabled |-> s.enabled, rules |->
                <<>>]
<1>1. \A d : Recordable(k, d) <=>
          d \in [enabled : BOOLEAN, rules : Seq(FirewallRule)]
  BY DEF Recordable
<1>2. \A d : Storable(k, d) <=>
          d \in [enabled : BOOLEAN, rules : Seq(StoredFirewallRule)] /\
          Unshared(d.rules)
  BY DEF Storable
<1>3. \A d : Rules(k, d) = Len(d.rules)
  BY DEF Rules
<1>4. \A d : RulesOf(k, d) = d.rules
  BY DEF RulesOf
<1>5. \A c, prior : PlanFor(k, c, prior) =
          [c EXCEPT !.rules = PlanRules(c.rules, Prior(prior, NoPolicy).rules)]
  BY DEF PlanFor, Policies
<1>6. \A c, p : RefusedAtPlan(k, c, p) <=> validateFirewallPolicyRules(p.rules)
  BY DEF RefusedAtPlan, resourceFirewallPolicyCustomizeDiff
<1>7. \A prior, p : RefusedAtApply(k, prior, p) <=>
          validateFirewallPolicyRules(p.rules)
  BY DEF RefusedAtApply
<1>8. \A prior, p : Body(k, prior, p) =
          [p EXCEPT !.rules = [i \in DOMAIN p.rules |->
          buildGranularFirewallPolicyRule(p.rules[i])]]
  BY DEF Body
<1>9. \A s, prior, keys : Readings(k, s, prior, keys) =
          {[enabled |-> s.enabled, rules |->
          flattenFirewallPolicyRules(decodeGranularFirewallPolicy(s).rules)]}
  BY DEF Readings, Tunnels
<1>10. \A s : WarnedOf(k, s) = {}
  BY DEF WarnedOf
<1>11. \A b : Refuses(k, b) <=> FirewallRefuses(b)
  BY DEF Refuses
<1>12. \A s, b : Written(k, s, b) =
          [b EXCEPT !.rules = Numbered(b.rules, IdsOf(s.rules))]
  BY DEF Written, Policies
<1>13. \A s : Cleared(k, s) =
          IF s.rules = <<>> THEN s ELSE [enabled |-> s.enabled, rules |-> <<>>]
  BY DEF Cleared, Policies, Tunnels, buildGranularFirewallPolicyClear
<1> QED BY <1>1, <1>2, <1>3, <1>4, <1>5, <1>6, <1>7, <1>8, <1>9, <1>10, <1>11,
       <1>12, <1>13

LEMMA OfDns ==
  ASSUME NEW k, k = "private_dns"
  PROVE  /\ \A d : Recordable(k, d) <=> d \in DnsDocument(Seq(Nat))
         /\ \A d : Storable(k, d) <=> d \in StoredDns(Seq(Nat))
         /\ \A c, prior : PlanFor(k, c, prior) =
                IF c.attributes # {} THEN c ELSE [c EXCEPT !.attributes =
                Prior(prior, c).attributes]
         /\ \A c, p : RefusedAtPlan(k, c, p) <=> validatePrivateDNSDiff(p)
         /\ \A prior, p : ~RefusedAtApply(k, prior, p)
         /\ \A prior, p : Body(k, prior, p) = expandCustomDnsUpdate(p)
         /\ \A s, prior, keys : Readings(k, s, prior, keys) =
                {[enabled |-> s.enabled, attributes |->
                flattenCustomDnsAttributes(s.attributes)]}
         /\ \A s : WarnedOf(k, s) = {}
         /\ \A b : Refuses(k, b) <=> DnsRefuses(b)
         /\ \A s, b : Written(k, s, b) = DnsStored(b)
         /\ \A s : Cleared(k, s) = DnsStored(defaultCustomDnsUpdate)
<1>1. \A d : Recordable(k, d) <=> d \in DnsDocument(Seq(Nat))
  BY DEF Recordable
<1>2. \A d : Storable(k, d) <=> d \in StoredDns(Seq(Nat))
  BY DEF Storable
<1>3. \A c, prior : PlanFor(k, c, prior) =
          IF c.attributes # {} THEN c ELSE [c EXCEPT !.attributes = Prior(prior,
          c).attributes]
  BY DEF PlanFor, Policies
<1>4. \A c, p : RefusedAtPlan(k, c, p) <=> validatePrivateDNSDiff(p)
  BY DEF RefusedAtPlan
<1>5. \A prior, p : ~RefusedAtApply(k, prior, p)
  BY DEF RefusedAtApply
<1>6. \A prior, p : Body(k, prior, p) = expandCustomDnsUpdate(p)
  BY DEF Body
<1>7. \A s, prior, keys : Readings(k, s, prior, keys) =
          {[enabled |-> s.enabled, attributes |->
          flattenCustomDnsAttributes(s.attributes)]}
  BY DEF Readings, Tunnels
<1>8. \A s : WarnedOf(k, s) = {}
  BY DEF WarnedOf
<1>9. \A b : Refuses(k, b) <=> DnsRefuses(b)
  BY DEF Refuses
<1>10. \A s, b : Written(k, s, b) = DnsStored(b)
  BY DEF Written, Policies
<1>11. \A s : Cleared(k, s) = DnsStored(defaultCustomDnsUpdate)
  BY DEF Cleared, Policies, Tunnels
<1> QED BY <1>1, <1>2, <1>3, <1>4, <1>5, <1>6, <1>7, <1>8, <1>9, <1>10, <1>11

LEMMA OfSplit ==
  ASSUME NEW k, k = "split_tunneling"
  PROVE  /\ \A d : Recordable(k, d) <=>
                d \in SplitDocument(Seq(Nat), SUBSET Exceptions)
         /\ \A d : Storable(k, d) <=>
                d \in SplitDocument(Seq(Nat), SUBSET Exceptions)
         /\ \A c, prior : PlanFor(k, c, prior) =
                [c EXCEPT !.exceptions = Prior(prior, c).exceptions]
         /\ \A c, p : RefusedAtPlan(k, c, p) <=> validateSplitTunnelingDiff(p)
         /\ \A prior, p : ~RefusedAtApply(k, prior, p)
         /\ \A prior, p : Body(k, prior, p) = expandSplitTunneling(p)
         /\ \A s, prior, keys : Readings(k, s, prior, keys) =
                {flattenSplitTunnelingData(SplitAnswer(s))}
         /\ \A s : WarnedOf(k, s) = {}
         /\ \A b : Refuses(k, b) <=> SplitRefuses(b)
         /\ \A s, b : Written(k, s, b) = SplitStored(s, b)
         /\ \A s : Cleared(k, s) = s
<1>1. \A d : Recordable(k, d) <=>
          d \in SplitDocument(Seq(Nat), SUBSET Exceptions)
  BY DEF Recordable
<1>2. \A d : Storable(k, d) <=> d \in SplitDocument(Seq(Nat), SUBSET Exceptions)
  BY DEF Storable, Recordable
<1>3. \A c, prior : PlanFor(k, c, prior) =
          [c EXCEPT !.exceptions = Prior(prior, c).exceptions]
  BY DEF PlanFor, Policies
<1>4. \A c, p : RefusedAtPlan(k, c, p) <=> validateSplitTunnelingDiff(p)
  BY DEF RefusedAtPlan
<1>5. \A prior, p : ~RefusedAtApply(k, prior, p)
  BY DEF RefusedAtApply
<1>6. \A prior, p : Body(k, prior, p) = expandSplitTunneling(p)
  BY DEF Body
<1>7. \A s, prior, keys : Readings(k, s, prior, keys) =
          {flattenSplitTunnelingData(SplitAnswer(s))}
  BY DEF Readings, Tunnels
<1>8. \A s : WarnedOf(k, s) = {}
  BY DEF WarnedOf
<1>9. \A b : Refuses(k, b) <=> SplitRefuses(b)
  BY DEF Refuses
<1>10. \A s, b : Written(k, s, b) = SplitStored(s, b)
  BY DEF Written, Policies
<1>11. \A s : Cleared(k, s) = s
  BY DEF Cleared, Policies, Tunnels
<1> QED BY <1>1, <1>2, <1>3, <1>4, <1>5, <1>6, <1>7, <1>8, <1>9, <1>10, <1>11

LEMMA OfSupport ==
  ASSUME NEW k, k = "support_options"
  PROVE  /\ \A d : Recordable(k, d) <=> d \in SupportDocument
         /\ \A d : Storable(k, d) <=> d \in StoredSupport
         /\ \A c, prior : PlanFor(k, c, prior) = c
         /\ \A c, p : RefusedAtPlan(k, c, p) <=>
                validateSupportOptionsCustomFields(p)
         /\ \A prior, p : RefusedAtApply(k, prior, p) <=>
                validateSupportOptionsCustomFields(p)
         /\ \A prior, p : Body(k, prior, p) = buildSupportOptionsRequest(p)
         /\ \A s, prior, keys : Readings(k, s, prior, keys) = {SupportRecord(s)}
         /\ \A s : WarnedOf(k, s) = {}
         /\ \A b : Refuses(k, b) <=> SupportRefuses(b)
         /\ \A s, b : Written(k, s, b) = b
         /\ \A s : Cleared(k, s) = s
<1>1. \A d : Recordable(k, d) <=> d \in SupportDocument
  BY DEF Recordable
<1>2. \A d : Storable(k, d) <=> d \in StoredSupport
  BY DEF Storable
<1>3. \A c, prior : PlanFor(k, c, prior) = c
  BY DEF PlanFor, Policies
<1>4. \A c, p : RefusedAtPlan(k, c, p) <=> validateSupportOptionsCustomFields(p)
  BY DEF RefusedAtPlan
<1>5. \A prior, p : RefusedAtApply(k, prior, p) <=>
          validateSupportOptionsCustomFields(p)
  BY DEF RefusedAtApply
<1>6. \A prior, p : Body(k, prior, p) = buildSupportOptionsRequest(p)
  BY DEF Body
<1>7. \A s, prior, keys : Readings(k, s, prior, keys) = {SupportRecord(s)}
  BY DEF Readings, Tunnels
<1>8. \A s : WarnedOf(k, s) = {}
  BY DEF WarnedOf
<1>9. \A b : Refuses(k, b) <=> SupportRefuses(b)
  BY DEF Refuses
<1>10. \A s, b : Written(k, s, b) = b
  BY DEF Written, Policies
<1>11. \A s : Cleared(k, s) = s
  BY DEF Cleared, Policies, Tunnels
<1> QED BY <1>1, <1>2, <1>3, <1>4, <1>5, <1>6, <1>7, <1>8, <1>9, <1>10, <1>11

LEMMA OfInternet ==
  ASSUME NEW k, k = "internet_access_status"
  PROVE  /\ \A d : Recordable(k, d) <=> d \in internetAccessStatusValues
         /\ \A d : Storable(k, d) <=> d \in internetAccessStatusValues
         /\ \A c, prior : PlanFor(k, c, prior) = c
         /\ \A c, p : ~RefusedAtPlan(k, c, p)
         /\ \A prior, p : ~RefusedAtApply(k, prior, p)
         /\ \A prior, p : Body(k, prior, p) = p
         /\ \A s, prior, keys : Readings(k, s, prior, keys) =
                UNION {readInternetAccessStatusResponse(a) : a \in
                InternetAnswers(s)}
         /\ \A s : WarnedOf(k, s) = {}
         /\ \A b : ~Refuses(k, b)
         /\ \A s, b : Written(k, s, b) = b
         /\ \A s : Cleared(k, s) = s
<1>1. \A d : Recordable(k, d) <=> d \in internetAccessStatusValues
  BY DEF Recordable
<1>2. \A d : Storable(k, d) <=> d \in internetAccessStatusValues
  BY DEF Storable, Recordable
<1>3. \A c, prior : PlanFor(k, c, prior) = c
  BY DEF PlanFor, Policies
<1>4. \A c, p : ~RefusedAtPlan(k, c, p)
  BY DEF RefusedAtPlan
<1>5. \A prior, p : ~RefusedAtApply(k, prior, p)
  BY DEF RefusedAtApply
<1>6. \A prior, p : Body(k, prior, p) = p
  BY DEF Body
<1>7. \A s, prior, keys : Readings(k, s, prior, keys) =
          UNION {readInternetAccessStatusResponse(a) : a \in InternetAnswers(s)}
  BY DEF Readings, Tunnels
<1>8. \A s : WarnedOf(k, s) = {}
  BY DEF WarnedOf
<1>9. \A b : ~Refuses(k, b)
  BY DEF Refuses
<1>10. \A s, b : Written(k, s, b) = b
  BY DEF Written, Policies
<1>11. \A s : Cleared(k, s) = s
  BY DEF Cleared, Policies, Tunnels
<1> QED BY <1>1, <1>2, <1>3, <1>4, <1>5, <1>6, <1>7, <1>8, <1>9, <1>10, <1>11

LEMMA OfAddresses ==
  ASSUME NEW k, k = "object_addresses"
  PROVE  /\ \A d : Recordable(k, d) <=>
                d \in AddressDocument(Seq({"host", "block"}))
         /\ \A d : Storable(k, d) <=>
                d \in AddressDocument(Seq({"host", "block"}))
         /\ \A c, prior : PlanFor(k, c, prior) = c
         /\ \A c, p : RefusedAtPlan(k, c, p) <=>
                resourceObjectAddressesCustomizeDiff(p)
         /\ \A prior, p : ~RefusedAtApply(k, prior, p)
         /\ \A prior, p : Body(k, prior, p) = p
         /\ \A s, prior, keys : Readings(k, s, prior, keys) = {s}
         /\ \A s : WarnedOf(k, s) = {}
         /\ \A b : Refuses(k, b) <=> AddressRefuses(b)
         /\ \A s, b : Written(k, s, b) = b
         /\ \A s : Cleared(k, s) = s
<1>1. \A d : Recordable(k, d) <=> d \in AddressDocument(Seq({"host", "block"}))
  BY DEF Recordable
<1>2. \A d : Storable(k, d) <=> d \in AddressDocument(Seq({"host", "block"}))
  BY DEF Storable, Recordable
<1>3. \A c, prior : PlanFor(k, c, prior) = c
  BY DEF PlanFor, Policies
<1>4. \A c, p : RefusedAtPlan(k, c, p) <=>
          resourceObjectAddressesCustomizeDiff(p)
  BY DEF RefusedAtPlan
<1>5. \A prior, p : ~RefusedAtApply(k, prior, p)
  BY DEF RefusedAtApply
<1>6. \A prior, p : Body(k, prior, p) = p
  BY DEF Body
<1>7. \A s, prior, keys : Readings(k, s, prior, keys) = {s}
  BY DEF Readings, Tunnels
<1>8. \A s : WarnedOf(k, s) = {}
  BY DEF WarnedOf
<1>9. \A b : Refuses(k, b) <=> AddressRefuses(b)
  BY DEF Refuses
<1>10. \A s, b : Written(k, s, b) = b
  BY DEF Written, Policies
<1>11. \A s : Cleared(k, s) = s
  BY DEF Cleared, Policies, Tunnels
<1> QED BY <1>1, <1>2, <1>3, <1>4, <1>5, <1>6, <1>7, <1>8, <1>9, <1>10, <1>11

LEMMA OfServices ==
  ASSUME NEW k, k = "object_services"
  PROVE  /\ \A d : Recordable(k, d) <=> d \in Seq(ServiceEntry)
         /\ \A d : Storable(k, d) <=> d \in Seq(StoredService)
         /\ \A c, prior : PlanFor(k, c, prior) =
                [i \in DOMAIN c |-> [c[i] EXCEPT !.protocol_options =
                OrZero(c[i].protocol_options)]]
         /\ \A c, p : RefusedAtPlan(k, c, p) <=>
                validateObjectServicesProtocols(c)
         /\ \A prior, p : ~RefusedAtApply(k, prior, p)
         /\ \A prior, p : Body(k, prior, p) = flattenProtocolsData(p)
         /\ \A s, prior, keys : Readings(k, s, prior, keys) =
                {flattenObjectServicesProtocols(s)}
         /\ \A s : WarnedOf(k, s) = {}
         /\ \A b : Refuses(k, b) <=> ServicesRefuse(b)
         /\ \A s, b : Written(k, s, b) = b
         /\ \A s : Cleared(k, s) = s
<1>1. \A d : Recordable(k, d) <=> d \in Seq(ServiceEntry)
  BY DEF Recordable
<1>2. \A d : Storable(k, d) <=> d \in Seq(StoredService)
  BY DEF Storable
<1>3. \A c, prior : PlanFor(k, c, prior) =
          [i \in DOMAIN c |-> [c[i] EXCEPT !.protocol_options =
          OrZero(c[i].protocol_options)]]
  BY DEF PlanFor, Policies
<1>4. \A c, p : RefusedAtPlan(k, c, p) <=> validateObjectServicesProtocols(c)
  BY DEF RefusedAtPlan
<1>5. \A prior, p : ~RefusedAtApply(k, prior, p)
  BY DEF RefusedAtApply
<1>6. \A prior, p : Body(k, prior, p) = flattenProtocolsData(p)
  BY DEF Body
<1>7. \A s, prior, keys : Readings(k, s, prior, keys) =
          {flattenObjectServicesProtocols(s)}
  BY DEF Readings, Tunnels
<1>8. \A s : WarnedOf(k, s) = {}
  BY DEF WarnedOf
<1>9. \A b : Refuses(k, b) <=> ServicesRefuse(b)
  BY DEF Refuses
<1>10. \A s, b : Written(k, s, b) = b
  BY DEF Written, Policies
<1>11. \A s : Cleared(k, s) = s
  BY DEF Cleared, Policies, Tunnels
<1> QED BY <1>1, <1>2, <1>3, <1>4, <1>5, <1>6, <1>7, <1>8, <1>9, <1>10, <1>11

LEMMA OfPair ==
  ASSUME NEW k, k = "ipsec_redundant"
  PROVE  /\ \A d : Recordable(k, d) <=> d \in [1..2 -> Slot(Texts)]
         /\ \A d : Storable(k, d) <=> d = Absent \/ d \in StoredPair(Texts)
         /\ \A c, prior : PlanFor(k, c, prior) =
                PlanSlots(c, Prior(prior, Absent))
         /\ \A c, p : ~RefusedAtPlan(k, c, p)
         /\ \A prior, p : RefusedAtApply(k, prior, p) <=>
                prior # {} /\ UpdateNeedsIds(p)
         /\ \A prior, p : Body(k, prior, p) = p
         /\ \A s, prior, keys : Readings(k, s, prior, keys) =
                IF s = Absent THEN {} ELSE {resourceIpsecRedundantRead(a,
                Prior(prior, Absent)) : a \in PairAnswers(s, keys)}
         /\ \A s : WarnedOf(k, s) = {}
         /\ \A b : ~Refuses(k, b)
         /\ \A s, b : Written(k, s, b) =
                IF s = Absent THEN PairCreated(b) ELSE PairUpdated(s, b)
         /\ \A s : Cleared(k, s) = Absent
<1>1. \A d : Recordable(k, d) <=> d \in [1..2 -> Slot(Texts)]
  BY DEF Recordable
<1>2. \A d : Storable(k, d) <=> d = Absent \/ d \in StoredPair(Texts)
  BY DEF Storable
<1>3. \A c, prior : PlanFor(k, c, prior) = PlanSlots(c, Prior(prior, Absent))
  BY DEF PlanFor, Policies
<1>4. \A c, p : ~RefusedAtPlan(k, c, p)
  BY DEF RefusedAtPlan
<1>5. \A prior, p : RefusedAtApply(k, prior, p) <=>
          prior # {} /\ UpdateNeedsIds(p)
  BY DEF RefusedAtApply
<1>6. \A prior, p : Body(k, prior, p) = p
  BY DEF Body
<1>7. \A s, prior, keys : Readings(k, s, prior, keys) =
          IF s = Absent THEN {} ELSE {resourceIpsecRedundantRead(a, Prior(prior,
          Absent)) : a \in PairAnswers(s, keys)}
  BY DEF Readings, Tunnels
<1>8. \A s : WarnedOf(k, s) = {}
  BY DEF WarnedOf
<1>9. \A b : ~Refuses(k, b)
  BY DEF Refuses
<1>10. \A s, b : Written(k, s, b) =
          IF s = Absent THEN PairCreated(b) ELSE PairUpdated(s, b)
  BY DEF Written, Policies
<1>11. \A s : Cleared(k, s) = Absent
  BY DEF Cleared, Policies, Tunnels
<1> QED BY <1>1, <1>2, <1>3, <1>4, <1>5, <1>6, <1>7, <1>8, <1>9, <1>10, <1>11

LEMMA OfGroup ==
  ASSUME NEW k, k = "enhanced_dynamic_tunnel"
  PROVE  /\ \A d : Recordable(k, d) <=> d \in Group(Texts)
         /\ \A d : Storable(k, d) <=> d = Absent \/ d \in Group(Texts)
         /\ \A c, prior : PlanFor(k, c, prior) = c
         /\ \A c, p : ~RefusedAtPlan(k, c, p)
         /\ \A prior, p : RefusedAtApply(k, prior, p) <=>
                prior # {} /\ EndpointsGoneOrUnknown(Prior(prior,
                NoGroup).tunnel, p.tunnel)
         /\ \A prior, p : Body(k, prior, p) =
                IF prior = {} THEN p ELSE
                buildDynamicTunnelUpdatePayload(Prior(prior, NoGroup), p)
         /\ \A s, prior, keys : Readings(k, s, prior, keys) =
                IF s = Absent THEN {} ELSE {resourceEnhancedDynamicTunnelRead(s,
                Prior(prior, NoGroup))}
         /\ \A s : WarnedOf(k, s) = {}
         /\ \A b : ~Refuses(k, b)
         /\ \A s, b : Written(k, s, b) =
                IF s = Absent THEN GroupCreated(b) ELSE GroupUpdated(s, b)
         /\ \A s : Cleared(k, s) = Absent
<1>1. \A d : Recordable(k, d) <=> d \in Group(Texts)
  BY DEF Recordable
<1>2. \A d : Storable(k, d) <=> d = Absent \/ d \in Group(Texts)
  BY DEF Storable
<1>3. \A c, prior : PlanFor(k, c, prior) = c
  BY DEF PlanFor, Policies
<1>4. \A c, p : ~RefusedAtPlan(k, c, p)
  BY DEF RefusedAtPlan
<1>5. \A prior, p : RefusedAtApply(k, prior, p) <=>
          prior # {} /\ EndpointsGoneOrUnknown(Prior(prior, NoGroup).tunnel,
          p.tunnel)
  BY DEF RefusedAtApply
<1>6. \A prior, p : Body(k, prior, p) =
          IF prior = {} THEN p ELSE buildDynamicTunnelUpdatePayload(Prior(prior,
          NoGroup), p)
  BY DEF Body
<1>7. \A s, prior, keys : Readings(k, s, prior, keys) =
          IF s = Absent THEN {} ELSE {resourceEnhancedDynamicTunnelRead(s,
          Prior(prior, NoGroup))}
  BY DEF Readings, Tunnels
<1>8. \A s : WarnedOf(k, s) = {}
  BY DEF WarnedOf
<1>9. \A b : ~Refuses(k, b)
  BY DEF Refuses
<1>10. \A s, b : Written(k, s, b) =
          IF s = Absent THEN GroupCreated(b) ELSE GroupUpdated(s, b)
  BY DEF Written, Policies
<1>11. \A s : Cleared(k, s) = Absent
  BY DEF Cleared, Policies, Tunnels
<1> QED BY <1>1, <1>2, <1>3, <1>4, <1>5, <1>6, <1>7, <1>8, <1>9, <1>10, <1>11
-----------------------------------------------------------------------------
(* What the proof needs to know of every kind of document but the tunnels. *)

(* A record, if there is one.                                              *)
Before(k, prior) ==
  /\ prior = {} \/ \E r : prior = {r} /\ Recordable(k, r)
  /\ k \in Numbering => \A r \in prior : Unshared(RulesOf(k, r))

Fits(k, c, s) ==
  k \in Numbering /\ IsFiniteSet(Ids) =>
    Rules(k, s) + Rules(k, c) <= Cardinality(Ids)

Accepted(k, prior, p) ==
  ~RefusedAtApply(k, prior, p) /\ ~Refuses(k, Body(k, prior, p))

Outcome(k, c, prior, s) == Written(k, s, Body(k, prior, PlanFor(k, c, prior)))

Shows(k, s, v) == \A prior, keys : Readings(k, s, prior, keys) = {v}

Spelled(k, c) ==
  \/ k = "firewall_policy"
       /\ \E i \in DOMAIN c.rules :
            {{}} \in {c.rules[i].sources, c.rules[i].destinations}
  \/ k = "private_dns" /\ \E a \in c.attributes : a.dns_policy = {{}}

Effective(k, c, stored) ==
  CASE k = "private_dns" /\ c.attributes = {} -> stored.enabled
    [] k = "split_tunneling" -> [stored EXCEPT !.exceptions = {}]
    [] OTHER -> stored

Plans(k) ==
  \A c, prior : Configurable(k, c) /\ Before(k, prior) =>
    Recordable(k, PlanFor(k, c, prior))

Writes(k) ==
  \A c, prior, s :
    /\ Configurable(k, c) /\ Before(k, prior) /\ Storable(k, s) /\ Fits(k, c, s)
    /\ Accepted(k, prior, PlanFor(k, c, prior))
    => /\ Storable(k, Outcome(k, c, prior, s))
       /\ WarnedOf(k, Outcome(k, c, prior, s)) = {}
       /\ k \in Numbering => Rules(k, Outcome(k, c, prior, s)) = Rules(k, c)

Reads(k) ==
  \A s : Storable(k, s) =>
    \E v : /\ Shows(k, s, v) /\ Recordable(k, v)
           /\ k \in Numbering => Unshared(RulesOf(k, v))

Settles(k) ==
  \A c, prior, s, v :
    /\ Configurable(k, c) /\ Before(k, prior) /\ Storable(k, s) /\ Fits(k, c, s)
    /\ Accepted(k, prior, PlanFor(k, c, prior))
    /\ Shows(k, Outcome(k, c, prior, s), v)
    => \/ PlanFor(k, c, {v}) = v
       \/ RefusedAtPlan(k, c, PlanFor(k, c, {v}))
       \/ Spelled(k, c)

Keeps(k) ==
  \A c, s, v :
    /\ Configurable(k, c) /\ Storable(k, s) /\ Shows(k, s, v)
    /\ PlanFor(k, c, {v}) = v /\ WarnedOf(k, s) = {}
    => \/ Effective(k, c, Written(k, s, Body(k, {v}, v))) = Effective(k, c, s)
       \/ k = "access_policy"
            /\ \E i \in DOMAIN s : s[i].conditions \ {"datetime"} # {}

Accepts(k) ==
  \A c, prior :
    /\ Configurable(k, c) /\ Before(k, prior)
    /\ Refuses(k, Body(k, prior, PlanFor(k, c, prior)))
    => \/ RefusedAtPlan(k, c, PlanFor(k, c, prior))
       \/ RefusedAtApply(k, prior, PlanFor(k, c, prior))
       \/ IdsClash(k, c, PlanFor(k, c, prior))

Clears(k) ==
  \A s : Storable(k, s) =>
    /\ Storable(k, Cleared(k, s)) /\ WarnedOf(k, Cleared(k, s)) = {}
    /\ k \in Numbering => Rules(k, Cleared(k, s)) \in {0, Rules(k, s)}

LEMMA PriorOf ==
  /\ \A none : Prior({}, none) = none
  /\ \A r, none : Prior({r}, none) = r
BY DEF Prior

(* Support options: whether there are numbers and a URL goes both ways.    *)
Support(t, n, l, u) ==
  [phone_support_type |-> t, support_phone_numbers |-> n, live_chat_type |-> l,
   live_chat_custom_url |-> u]

SupportWith(f, n, u) ==
  [f EXCEPT !.support_phone_numbers = n, !.live_chat_custom_url = u]

LEMMA SupportParts ==
  /\ \A t, n, l, u, x, y : SupportWith(Support(t, n, l, u), x, y) = Support(t, x, l, y)
  /\ \A f \in SupportDocument \cup StoredSupport :
       f = Support(f.phone_support_type, f.support_phone_numbers,
                   f.live_chat_type, f.live_chat_custom_url)
  /\ \A f : buildSupportOptionsRequest(f) =
       SupportWith(f, IF f.support_phone_numbers THEN "values" ELSE "absent",
                   IF f.live_chat_custom_url THEN "values" ELSE "absent")
  /\ \A s : SupportRecord(s) =
       SupportWith(s, s.support_phone_numbers = "values",
                   s.live_chat_custom_url = "values")
<1>1. \A t, n, l, u, x, y : SupportWith(Support(t, n, l, u), x, y) = Support(t, x, l, y)
  <2> SUFFICES ASSUME NEW t, NEW n, NEW l, NEW u, NEW x, NEW y
               PROVE  SupportWith(Support(t, n, l, u), x, y) = Support(t, x, l, y)
    OBVIOUS
  <2>1. [Support(t, n, l, u) EXCEPT !.support_phone_numbers = x] = Support(t, x, l, u)
    BY DEF Support
  <2>2. [Support(t, x, l, u) EXCEPT !.live_chat_custom_url = y] = Support(t, x, l, y)
    BY DEF Support
  <2>3. SupportWith(Support(t, n, l, u), x, y) =
          [[Support(t, n, l, u) EXCEPT !.support_phone_numbers = x]
             EXCEPT !.live_chat_custom_url = y]
    BY DEF SupportWith
  <2> QED BY <2>1, <2>2, <2>3
<1>2. \A f \in SupportDocument : f = Support(f.phone_support_type, f.support_phone_numbers,
                   f.live_chat_type, f.live_chat_custom_url)
  BY DEF SupportDocument, Support
<1>3. \A f \in StoredSupport : f = Support(f.phone_support_type, f.support_phone_numbers,
                   f.live_chat_type, f.live_chat_custom_url)
  BY DEF StoredSupport, Support
<1>4. \A f : buildSupportOptionsRequest(f) =
        SupportWith(f, IF f.support_phone_numbers THEN "values" ELSE "absent",
                    IF f.live_chat_custom_url THEN "values" ELSE "absent")
  BY Zenon DEF buildSupportOptionsRequest, SupportWith, expandSupportPhoneNumbers
<1>5. \A s : SupportRecord(s) =
        SupportWith(s, s.support_phone_numbers = "values",
                    s.live_chat_custom_url = "values")
  BY Zenon DEF SupportRecord, SupportWith, flattenSupportPhoneNumbers
<1> QED BY <1>1, <1>2, <1>3, <1>4, <1>5

LEMMA SupportFacts ==
  /\ \A f \in SupportDocument : buildSupportOptionsRequest(f) \in StoredSupport
  /\ \A s \in StoredSupport : SupportRecord(s) \in SupportDocument
  /\ \A f \in SupportDocument : SupportRecord(buildSupportOptionsRequest(f)) = f
  /\ \A s \in StoredSupport : buildSupportOptionsRequest(SupportRecord(s)) = s
  /\ \A f \in SupportDocument :
       SupportRefuses(buildSupportOptionsRequest(f)) =>
         validateSupportOptionsCustomFields(f)
<1>1. ASSUME NEW f \in SupportDocument
      PROVE  /\ buildSupportOptionsRequest(f) \in StoredSupport
             /\ SupportRecord(buildSupportOptionsRequest(f)) = f
             /\ SupportRefuses(buildSupportOptionsRequest(f)) =>
                  validateSupportOptionsCustomFields(f)
  <2> DEFINE t == f.phone_support_type
             l == f.live_chat_type
             x == f.support_phone_numbers
             y == f.live_chat_custom_url
             n == IF x THEN "values" ELSE "absent"
             u == IF y THEN "values" ELSE "absent"
             b == Support(t, n, l, u)
  <2>1. f = Support(t, x, l, y)
    BY SupportParts
  <2>2. buildSupportOptionsRequest(f) = SupportWith(f, n, u)
    BY SupportParts
  <2>3. x \in BOOLEAN /\ y \in BOOLEAN
    BY DEF SupportDocument
  <2>4. t \in supportOptionsTypeValues /\ l \in supportOptionsTypeValues
    BY DEF SupportDocument
  <2>5. n \in {"values", "absent"} /\ u \in {"values", "absent"}
    OBVIOUS
  <2>6. (n = "values") = x /\ (u = "values") = y
    BY <2>3
  <2>7. (x <=> n # "absent") /\ (y <=> u # "absent")
    BY <2>3
  <2> HIDE DEF n, u
  <2>8. buildSupportOptionsRequest(f) = b
    <3> HIDE DEF t, x, l, y
    <3> QED BY <2>1, <2>2, SupportParts
  <2>9. b \in StoredSupport
    <3> HIDE DEF t, x, l, y
    <3> QED BY <2>4, <2>5 DEF StoredSupport, Support
  <2>10. /\ b.support_phone_numbers = n /\ b.live_chat_custom_url = u
         /\ b.phone_support_type = t /\ b.live_chat_type = l
    <3> HIDE DEF t, x, l, y
    <3> QED BY DEF Support
  <2>11. SupportRecord(b) = f
    <3>1. SupportRecord(b) = SupportWith(b, b.support_phone_numbers = "values",
                                         b.live_chat_custom_url = "values")
      BY SupportParts
    <3> HIDE DEF b
    <3>2. SupportRecord(b) = SupportWith(b, x, y)
      BY <2>6, <2>10, <3>1
    <3> HIDE DEF t, x, l, y
    <3> QED BY <2>1, <3>2, SupportParts DEF b
  <2> HIDE DEF b
  <2>12. SupportRefuses(b) => validateSupportOptionsCustomFields(f)
    <3>1. /\ SupportRefuses(b) =>
               \/ t = "custom" /\ n = "absent"
               \/ l = "custom" /\ u = "absent"
      BY <2>5, <2>10 DEF SupportRefuses
    <3> QED BY <2>3, <2>7, <3>1 DEF validateSupportOptionsCustomFields
  <2> QED BY <2>8, <2>9, <2>11, <2>12
<1>2. ASSUME NEW s \in StoredSupport
      PROVE  /\ SupportRecord(s) \in SupportDocument
             /\ buildSupportOptionsRequest(SupportRecord(s)) = s
  <2> DEFINE t == s.phone_support_type
             l == s.live_chat_type
             x == s.support_phone_numbers
             y == s.live_chat_custom_url
             n == x = "values"
             u == y = "values"
             r == Support(t, n, l, u)
  <2>1. s = Support(t, x, l, y)
    BY SupportParts
  <2>2. SupportRecord(s) = SupportWith(s, n, u)
    BY SupportParts
  <2>3. /\ x = IF n THEN "values" ELSE "absent"
        /\ y = IF u THEN "values" ELSE "absent"
    BY DEF StoredSupport
  <2>4. t \in supportOptionsTypeValues /\ l \in supportOptionsTypeValues
    BY DEF StoredSupport
  <2>5. n \in BOOLEAN /\ u \in BOOLEAN
    OBVIOUS
  <2> HIDE DEF n, u
  <2>6. SupportRecord(s) = r
    <3> HIDE DEF t, x, l, y
    <3> QED BY <2>1, <2>2, SupportParts
  <2>7. r \in SupportDocument
    <3> HIDE DEF t, x, l, y
    <3> QED BY <2>4, <2>5 DEF SupportDocument, Support
  <2>8. r.support_phone_numbers = n /\ r.live_chat_custom_url = u
    <3> HIDE DEF t, x, l, y
    <3> QED BY DEF Support
  <2>9. buildSupportOptionsRequest(r) = s
    <3>1. buildSupportOptionsRequest(r) =
            SupportWith(r, IF r.support_phone_numbers THEN "values" ELSE "absent",
                        IF r.live_chat_custom_url THEN "values" ELSE "absent")
      BY SupportParts
    <3> HIDE DEF r
    <3>2. buildSupportOptionsRequest(r) = SupportWith(r, x, y)
      BY <2>3, <2>8, <3>1
    <3> HIDE DEF t, x, l, y
    <3> QED BY <2>1, <3>2, SupportParts DEF r
  <2> QED BY <2>6, <2>7, <2>9
<1> QED BY <1>1, <1>2

(* Service objects: to the SDK no options are {0}, and each protocol has   *)
(* its half of an entry.                                                   *)
Entry(p, t, v, o) ==
  [protocol |-> p, value_type |-> t, value |-> v, protocol_options |-> o]

(* The values an attribute is given, named because the provers do better   *)
(* without them.                                                           *)
Icmp == "icmp"
Tcp == "tcp"
NoType == ""
Nought == 0
NoOptions == {}

WithType(e, x) == [e EXCEPT !.value_type = x]
WithValue(e, x) == [e EXCEPT !.value = x]
WithOptions(e, x) == [e EXCEPT !.protocol_options = x]

ZeroOf(e) == WithOptions(e, OrZero(e.protocol_options))

HalfOf(e) ==
  IF e.protocol = Icmp THEN WithValue(WithType(e, NoType), Nought)
  ELSE WithOptions(e, NoOptions)

Wrong(e) ==
  \/ /\ e.protocol = "icmp"
     /\ e.value_type # "" \/ e.value # 0 \/ e.protocol_options = {}
  \/ /\ e.protocol = "tcp"
     /\ \/ e.value_type = "" \/ e.value = 0 \/ e.protocol_options # {}
        \/ validateObjectServicesProtocolValueArity(e)

LEMMA EntryIs ==
  ASSUME NEW e \in ServiceEntry
  PROVE  /\ e = Entry(e.protocol, e.value_type, e.value, e.protocol_options)
         /\ e.protocol \in {"tcp", "icmp"}
         /\ e.value_type \in {"", "single", "range"}
         /\ e.value \in 0..2
         /\ e.protocol_options \in {{}, {0}, {8}}
<1>1. e = Entry(e.protocol, e.value_type, e.value, e.protocol_options)
  BY DEF ServiceEntry, Entry
<1>2. /\ e.protocol \in {"tcp", "icmp"}
      /\ e.value_type \in {"", "single", "range"}
      /\ e.value \in 0..2
      /\ e.protocol_options \in {{}, {0}, {8}}
  BY DEF ServiceEntry, IcmpCodes
<1> QED BY <1>1, <1>2

LEMMA EntryTyped ==
  ASSUME NEW p \in {"tcp", "icmp"}, NEW t \in {"", "single", "range"}, NEW v \in 0..2,
         NEW o \in {{}, {0}, {8}}
  PROVE  Entry(p, t, v, o) \in ServiceEntry
<1>1. o \in {{}} \cup {{c} : c \in IcmpCodes}
  BY DEF IcmpCodes
<1> QED BY <1>1 DEF ServiceEntry, Entry

LEMMA EntryFields ==
  ASSUME NEW p, NEW t, NEW v, NEW o
  PROVE  /\ Entry(p, t, v, o).protocol = p
         /\ Entry(p, t, v, o).value_type = t
         /\ Entry(p, t, v, o).value = v
         /\ Entry(p, t, v, o).protocol_options = o
BY DEF Entry

LEMMA EntryWith ==
  ASSUME NEW p, NEW t, NEW v, NEW o, NEW x
  PROVE  /\ WithType(Entry(p, t, v, o), x) = Entry(p, x, v, o)
         /\ WithValue(Entry(p, t, v, o), x) = Entry(p, t, x, o)
         /\ WithOptions(Entry(p, t, v, o), x) = Entry(p, t, v, x)
<1>1. WithType(Entry(p, t, v, o), x) = Entry(p, x, v, o)
  BY DEF Entry, WithType
<1>2. WithValue(Entry(p, t, v, o), x) = Entry(p, t, x, o)
  BY DEF Entry, WithValue
<1>3. WithOptions(Entry(p, t, v, o), x) = Entry(p, t, v, x)
  BY DEF Entry, WithOptions
<1> QED BY <1>1, <1>2, <1>3

LEMMA EntryParts ==
  ASSUME NEW p, NEW t, NEW v, NEW o
  PROVE  /\ ZeroOf(Entry(p, t, v, o)) = Entry(p, t, v, OrZero(o))
         /\ p = Icmp => HalfOf(Entry(p, t, v, o)) = Entry(p, NoType, Nought, o)
         /\ p # Icmp => HalfOf(Entry(p, t, v, o)) = Entry(p, t, v, NoOptions)
<1> DEFINE e == Entry(p, t, v, o)
<1>1. e.protocol = p /\ e.protocol_options = o
  BY EntryFields
<1>2. ZeroOf(e) = Entry(p, t, v, OrZero(o))
  BY <1>1, EntryWith DEF ZeroOf
<1>3. p = Icmp => HalfOf(e) = Entry(p, NoType, Nought, o)
  BY <1>1, EntryWith DEF HalfOf
<1>4. p # Icmp => HalfOf(e) = Entry(p, t, v, NoOptions)
  BY <1>1, EntryWith DEF HalfOf
<1> QED BY <1>2, <1>3, <1>4

LEMMA EntryFacts ==
  /\ \A e \in ServiceEntry : ZeroOf(e) \in ServiceEntry
  /\ \A e \in ServiceEntry : HalfOf(ZeroOf(e)) \in StoredService
  /\ \A e \in ServiceEntry : ~Wrong(e) => ZeroOf(HalfOf(ZeroOf(e))) = ZeroOf(e)
  /\ \A e \in StoredService : e \in ServiceEntry /\ HalfOf(ZeroOf(e)) = e
  /\ \A e \in ServiceEntry :
       LET b == HalfOf(ZeroOf(e))
       IN /\ b.protocol = "tcp"
          /\ \/ b.value_type = "" \/ b.value = 0
             \/ validateObjectServicesProtocolValueArity(b)
          => Wrong(e)
<1>1. ASSUME NEW e \in ServiceEntry
      PROVE  /\ ZeroOf(e) \in ServiceEntry
             /\ HalfOf(ZeroOf(e)) \in StoredService
             /\ ~Wrong(e) => ZeroOf(HalfOf(ZeroOf(e))) = ZeroOf(e)
             /\ e \in StoredService => HalfOf(ZeroOf(e)) = e
             /\ HalfOf(ZeroOf(e)).protocol = Tcp =>
                  /\ e.protocol = Tcp
                  /\ HalfOf(ZeroOf(e)).value_type = e.value_type
                  /\ HalfOf(ZeroOf(e)).value = e.value
  <2> DEFINE p == e.protocol
             t == e.value_type
             v == e.value
             o == e.protocol_options
  <2>1. e = Entry(p, t, v, o)
    BY EntryIs
  <2>2. /\ p \in {"tcp", "icmp"} /\ t \in {"", "single", "range"} /\ v \in 0..2
        /\ o \in {{}, {0}, {8}}
    BY EntryIs
  <2>3. /\ Wrong(e) <=> \/ p = "icmp" /\ (t # "" \/ v # 0 \/ o = {})
                        \/ p = "tcp" /\ (\/ t = "" \/ v = 0 \/ o # {}
                                         \/ validateObjectServicesProtocolValueArity(e))
    BY DEF Wrong
  <2>4. e \in StoredService => /\ p = "icmp" => t = "" /\ v = 0 /\ o # {}
                               /\ p = "tcp" => o = {}
    BY DEF StoredService
  <2> HIDE DEF p, t, v, o
  <2>5. /\ OrZero(o) \in {{0}, {8}} /\ (o # {} => OrZero(o) = o)
        /\ (o = {} => OrZero(o) = {0}) /\ OrZero(OrZero(o)) = OrZero(o)
    BY <2>2 DEF OrZero
  <2>6. ZeroOf(e) = Entry(p, t, v, OrZero(o))
    BY <2>1, EntryParts
  <2>7. ZeroOf(e) \in ServiceEntry
    BY <2>2, <2>5, <2>6, EntryTyped
  <2>8. CASE p = Icmp
    <3>1. HalfOf(ZeroOf(e)) = Entry(Icmp, NoType, Nought, OrZero(o))
      BY <2>6, <2>8, EntryParts
    <3>2. Entry(Icmp, NoType, Nought, OrZero(o)) \in ServiceEntry
      <4>1. /\ Icmp \in {"tcp", "icmp"} /\ NoType \in {"", "single", "range"}
            /\ Nought \in 0..2 /\ OrZero(o) \in {{}, {0}, {8}}
        BY <2>5 DEF Icmp, NoType, Nought
      <4> QED BY <4>1, EntryTyped
    <3>3. HalfOf(ZeroOf(e)) \in StoredService
      <4> DEFINE b == HalfOf(ZeroOf(e))
      <4>1. /\ b \in ServiceEntry /\ b.protocol = Icmp /\ b.value_type = NoType
            /\ b.value = Nought /\ b.protocol_options = OrZero(o)
        BY <3>1, <3>2, EntryFields
      <4> HIDE DEF b
      <4>2. b.protocol_options # {}
        BY <2>5, <4>1
      <4>3. b \in StoredService
        BY <4>1, <4>2 DEF StoredService, Icmp, NoType, Nought
      <4> QED BY <4>3 DEF b
    <3>4. ZeroOf(HalfOf(ZeroOf(e))) = Entry(Icmp, NoType, Nought, OrZero(o))
      BY <2>5, <3>1, EntryParts
    <3>5. ~Wrong(e) => ZeroOf(HalfOf(ZeroOf(e))) = ZeroOf(e)
      BY <2>3, <2>6, <2>8, <3>4 DEF Icmp, NoType, Nought
    <3>6. e \in StoredService => HalfOf(ZeroOf(e)) = e
      BY <2>1, <2>4, <2>5, <2>8, <3>1 DEF Icmp, NoType, Nought
    <3>7. HalfOf(ZeroOf(e)).protocol # Tcp
      BY <3>1, EntryFields DEF Icmp, Tcp
    <3> QED BY <2>7, <3>3, <3>5, <3>6, <3>7
  <2>9. CASE p = Tcp
    <3>1. HalfOf(ZeroOf(e)) = Entry(Tcp, t, v, NoOptions)
      <4>1. Tcp # Icmp
        BY DEF Tcp, Icmp
      <4> QED BY <2>6, <2>9, <4>1, EntryParts
    <3>2. Entry(Tcp, t, v, NoOptions) \in ServiceEntry
      <4>1. Tcp \in {"tcp", "icmp"} /\ NoOptions \in {{}, {0}, {8}}
        BY DEF Tcp, NoOptions
      <4> QED BY <2>2, <4>1, EntryTyped
    <3>3. HalfOf(ZeroOf(e)) \in StoredService
      <4> DEFINE b == HalfOf(ZeroOf(e))
      <4>1. b \in ServiceEntry /\ b.protocol = Tcp /\ b.protocol_options = NoOptions
        BY <3>1, <3>2, EntryFields
      <4> HIDE DEF b
      <4>3. b \in StoredService
        BY <4>1 DEF StoredService, Tcp, NoOptions
      <4> QED BY <4>3 DEF b
    <3>4. ZeroOf(HalfOf(ZeroOf(e))) = Entry(Tcp, t, v, OrZero(NoOptions))
      BY <3>1, EntryParts
    <3>5. ~Wrong(e) => ZeroOf(HalfOf(ZeroOf(e))) = ZeroOf(e)
      BY <2>3, <2>6, <2>9, <3>4 DEF Tcp, NoOptions
    <3>6. e \in StoredService => HalfOf(ZeroOf(e)) = e
      BY <2>1, <2>4, <2>9, <3>1 DEF Tcp, NoOptions
    <3>7. /\ e.protocol = Tcp
          /\ HalfOf(ZeroOf(e)).value_type = e.value_type
          /\ HalfOf(ZeroOf(e)).value = e.value
      BY <2>9, <3>1, EntryFields DEF p, t, v
    <3> QED BY <2>7, <3>3, <3>5, <3>6, <3>7
  <2> QED BY <2>2, <2>8, <2>9 DEF Icmp, Tcp
<1>2. \A e \in StoredService : e \in ServiceEntry
  BY DEF StoredService
<1>3. ASSUME NEW e \in ServiceEntry, NEW b, b = HalfOf(ZeroOf(e)), b.protocol = "tcp",
             \/ b.value_type = "" \/ b.value = 0
             \/ validateObjectServicesProtocolValueArity(b)
      PROVE  Wrong(e)
  <2>1. e.protocol = "tcp" /\ b.value_type = e.value_type /\ b.value = e.value
    BY <1>1, <1>3 DEF Tcp
  <2> QED BY <1>3, <2>1 DEF Wrong, validateObjectServicesProtocolValueArity
<1> QED BY <1>1, <1>2, <1>3

(* Split tunneling: only the exceptions change on the way.                 *)
SplitWith(d, x) == [d EXCEPT !.exceptions = x]

LEMMA SplitFields ==
  ASSUME NEW lists, NEW E, NEW d \in SplitDocument(lists, E), NEW x
  PROVE  /\ SplitWith(d, x).mode = d.mode
         /\ SplitWith(d, x).cidr = d.cidr
         /\ SplitWith(d, x).objects = d.objects
         /\ SplitWith(d, x).exceptions = x
         /\ x \in E => SplitWith(d, x) \in SplitDocument(lists, E)
         /\ d.exceptions \in E
BY DEF SplitWith, SplitDocument

LEMMA SplitTwice ==
  ASSUME NEW lists, NEW E, NEW d \in SplitDocument(lists, E), NEW x, NEW y
  PROVE  /\ SplitWith(SplitWith(d, x), y) = SplitWith(d, y)
         /\ SplitWith(d, d.exceptions) = d
<1>1. SplitWith(SplitWith(d, x), y) = SplitWith(d, y)
  BY DEF SplitWith, SplitDocument
<1>2. SplitWith(d, d.exceptions) = d
  BY DEF SplitWith, SplitDocument
<1> QED BY <1>1, <1>2

LEMMA SplitParts ==
  LET D == SplitDocument(Seq(Nat), SUBSET Exceptions) IN
  /\ \A p : expandSplitTunneling(p) = SplitWith(p, {})
  /\ \A s, b : SplitStored(s, b) = SplitWith(b, s.exceptions \cup b.exceptions)
  /\ \A s \in D : flattenSplitTunnelingData(SplitAnswer(s)) =
       IF s.mode = "via_tunnel" THEN SplitWith(s, {}) ELSE s
<1> DEFINE D == SplitDocument(Seq(Nat), SUBSET Exceptions)
<1>1. \A p : expandSplitTunneling(p) = SplitWith(p, {})
  BY Zenon DEF expandSplitTunneling, SplitWith
<1>2. \A s, b : SplitStored(s, b) = SplitWith(b, s.exceptions \cup b.exceptions)
  BY Zenon DEF SplitStored, SplitWith
<1>3. ASSUME NEW s \in D
      PROVE  flattenSplitTunnelingData(SplitAnswer(s)) =
               IF s.mode = "via_tunnel" THEN SplitWith(s, {}) ELSE s
  <2>1. \A a : flattenSplitTunnelingData(a) = SplitWith(a, a.exceptions)
    BY Zenon DEF flattenSplitTunnelingData, SplitWith, flattenSplitTunnelingExceptions
  <2>2. s.mode = "via_tunnel" => SplitAnswer(s) = SplitWith(s, {})
    BY Zenon DEF SplitAnswer, SplitWith
  <2>3. s.mode # "via_tunnel" => SplitAnswer(s) = s
    BY DEF SplitAnswer
  <2>4. SplitWith(s, {}) \in D
    BY SplitFields
  <2>5. SplitWith(s, s.exceptions) = s
    BY SplitTwice
  <2>6. SplitWith(SplitWith(s, {}), SplitWith(s, {}).exceptions) = SplitWith(s, {})
    BY <2>4, SplitTwice
  <2> HIDE DEF D
  <2> QED BY <2>1, <2>2, <2>3, <2>5, <2>6
<1> QED BY <1>1, <1>2, <1>3

(* Private DNS: a read gives what is stored, a write keeps all but a       *)
(* policy that names neither half.                                         *)
Dns(e, s) == [enabled |-> e, attributes |-> s]

DnsAttribute(s, d, p) == [servers |-> s, search_domains |-> d, dns_policy |-> p]

LEMMA DnsParts ==
  ASSUME NEW d \in DnsDocument(Seq(Nat))
  PROVE  /\ d = Dns(d.enabled, d.attributes) /\ d.enabled \in BOOLEAN
         /\ d.attributes \in SUBSET DnsAttributes(Seq(Nat))
         /\ \A a, b \in d.attributes : a = b
         /\ \A s \in SUBSET DnsAttributes(Seq(Nat)) :
              (\A a, b \in s : a = b) => Dns(d.enabled, s) \in DnsDocument(Seq(Nat))
BY DEF DnsDocument, Dns

LEMMA AttributeParts ==
  ASSUME NEW a \in DnsAttributes(Seq(Nat))
  PROVE  /\ a = DnsAttribute(a.servers, a.search_domains, a.dns_policy)
         /\ a.servers \in Seq(Nat) /\ a.search_domains \in Seq(Nat)
         /\ a.dns_policy \in Blocks(DnsSubBlocks)
BY DEF DnsAttributes, DnsAttribute

LEMMA AttributeTyped ==
  ASSUME NEW s \in Seq(Nat), NEW d \in Seq(Nat), NEW p \in Blocks(DnsSubBlocks)
  PROVE  /\ DnsAttribute(s, d, p) \in DnsAttributes(Seq(Nat))
         /\ DnsAttribute(s, d, p).dns_policy = p
BY DEF DnsAttributes, DnsAttribute

LEMMA DnsRead ==
  ASSUME NEW s \in StoredDns(Seq(Nat))
  PROVE  /\ s \in DnsDocument(Seq(Nat))
         /\ [enabled |-> s.enabled,
             attributes |-> flattenCustomDnsAttributes(s.attributes)] = s
<1>1. s \in DnsDocument(Seq(Nat)) /\ \A a \in s.attributes : a.dns_policy # {{}}
  BY DEF StoredDns
<1>2. \A a \in s.attributes : [a EXCEPT !.dns_policy = flattenDnsPolicy(a.dns_policy)] = a
  <2> SUFFICES ASSUME NEW a \in s.attributes
               PROVE  [a EXCEPT !.dns_policy = flattenDnsPolicy(a.dns_policy)] = a
    OBVIOUS
  <2>1. a \in DnsAttributes(Seq(Nat)) /\ a.dns_policy # {{}}
    BY <1>1, DnsParts
  <2>2. flattenDnsPolicy(a.dns_policy) = a.dns_policy
    BY <2>1, AttributeParts, BlockFacts DEF flattenDnsPolicy
  <2>3. [a EXCEPT !.dns_policy = a.dns_policy] = a
    BY <2>1 DEF DnsAttributes
  <2> QED BY <2>2, <2>3
<1>3. flattenCustomDnsAttributes(s.attributes) = s.attributes
  BY <1>2 DEF flattenCustomDnsAttributes
<1> QED BY <1>1, <1>3, DnsParts DEF Dns

(* What a write of a document of attributes a leaves.                      *)
DnsLeft(d, a) ==
  Dns(d.enabled, {DnsAttribute(a.servers, a.search_domains, Wrapped(UNION a.dns_policy))})

LEMMA DnsWritten ==
  ASSUME NEW d \in DnsDocument(Seq(Nat)), NEW a, a = singleBlock(d.attributes)
  PROVE  /\ a \in DnsAttributes(Seq(Nat))
         /\ d.attributes # {} => d.attributes = {a}
         /\ DnsStored(expandCustomDnsUpdate(d)) = DnsLeft(d, a)
         /\ DnsLeft(d, a) \in StoredDns(Seq(Nat))
         /\ DnsRefuses(expandCustomDnsUpdate(d)) => validatePrivateDNSDiff(d)
<1>1. NoDnsAttributes \in DnsAttributes(Seq(Nat))
  <2>1. {} \in Blocks(DnsSubBlocks) /\ <<>> \in Seq(Nat)
    BY DEF Blocks
  <2>2. NoDnsAttributes = DnsAttribute(<<>>, <<>>, {})
    BY DEF NoDnsAttributes, DnsAttribute
  <2> QED BY <2>1, <2>2, AttributeTyped
<1>2. a \in DnsAttributes(Seq(Nat)) /\ (d.attributes # {} => d.attributes = {a})
  <2>1. CASE d.attributes = {}
    BY <1>1, <2>1 DEF singleBlock
  <2>2. CASE d.attributes # {}
    <3>1. a \in d.attributes
      BY <2>2 DEF singleBlock
    <3> QED BY <3>1, DnsParts
  <2> QED BY <2>1, <2>2
<1>3. DnsStored(expandCustomDnsUpdate(d)) = DnsLeft(d, a)
  BY DEF DnsStored, expandCustomDnsUpdate, DnsLeft, Dns, DnsAttribute, expandDnsPolicy
<1>4. DnsLeft(d, a) \in StoredDns(Seq(Nat))
  <2> DEFINE p == Wrapped(UNION a.dns_policy)
             x == DnsAttribute(a.servers, a.search_domains, p)
  <2>1. UNION a.dns_policy \in SUBSET DnsSubBlocks
    BY <1>2, AttributeParts, BlockFacts
  <2>2. p \in Blocks(DnsSubBlocks) /\ p # {{}}
    BY <2>1, WrappedFacts
  <2> HIDE DEF p
  <2>3. x \in DnsAttributes(Seq(Nat)) /\ x.dns_policy # {{}}
    BY <1>2, <2>2, AttributeParts, AttributeTyped
  <2> HIDE DEF x
  <2>4. Dns(d.enabled, {x}) \in DnsDocument(Seq(Nat))
    BY <2>3, DnsParts
  <2>5. Dns(d.enabled, {x}).attributes = {x}
    BY DEF Dns
  <2>6. Dns(d.enabled, {x}) \in StoredDns(Seq(Nat))
    BY <2>3, <2>4, <2>5 DEF StoredDns
  <2> QED BY <2>6 DEF DnsLeft, x, p
<1>5. DnsRefuses(expandCustomDnsUpdate(d)) => validatePrivateDNSDiff(d)
  <2> DEFINE b == expandCustomDnsUpdate(d)
  <2>1. /\ b.enabled = d.enabled /\ b.servers = a.servers
        /\ b.search_domains = a.search_domains
    BY DEF expandCustomDnsUpdate
  <2> HIDE DEF b
  <2>2. DnsRefuses(b) => validatePrivateDNSDiff(d)
    BY <2>1 DEF DnsRefuses, validatePrivateDNSDiff, privateDNSDuplicateString,
       privateDNSDuplicateServerAddress
  <2> QED BY <2>2 DEF b
<1> QED BY <1>2, <1>3, <1>4, <1>5

-----------------------------------------------------------------------------
(* The settings and the objects                                            *)

Sound(k) ==
  /\ Plans(k) /\ Writes(k) /\ Reads(k) /\ Settles(k) /\ Keeps(k) /\ Accepts(k)
  /\ Clears(k)

LEMMA ShownIs ==
  ASSUME NEW k, NEW s, NEW v, Shows(k, s, v), NEW x, Readings(k, s, {}, TRUE) = {x}
  PROVE  v = x
<1>1. {x} = {v}
  BY DEF Shows
<1> QED BY <1>1

LEMMA EffectiveOf ==
  /\ \A k, c, s : k \notin {"private_dns", "split_tunneling"} => Effective(k, c, s) = s
  /\ \A c, s : c.attributes = {} => Effective("private_dns", c, s) = s.enabled
  /\ \A c, s : c.attributes # {} => Effective("private_dns", c, s) = s
  /\ \A c, s : Effective("split_tunneling", c, s) = SplitWith(s, {})
<1>1. \A k, c, s : k \notin {"private_dns", "split_tunneling"} => Effective(k, c, s) = s
  BY DEF Effective
<1>2. \A c, s : c.attributes = {} => Effective("private_dns", c, s) = s.enabled
  BY DEF Effective
<1>3. \A c, s : c.attributes # {} => Effective("private_dns", c, s) = s
  BY DEF Effective
<1>4. \A c, s : Effective("split_tunneling", c, s) = SplitWith(s, {})
  BY DEF Effective, SplitWith
<1> QED BY <1>1, <1>2, <1>3, <1>4

LEMMA SupportSound ==
  ASSUME NEW k, k = "support_options"
  PROVE  Sound(k)
<1>1. k \notin Numbering
  BY DEF Numbering, Policies
<1>2. \A c : Configurable(k, c) => c \in SupportDocument
  BY OfSupport DEF Configurable
<1>3. ASSUME NEW s, NEW v, Shows(k, s, v) PROVE v = SupportRecord(s)
  <2>1. Readings(k, s, {}, TRUE) = {SupportRecord(s)}
    BY OfSupport
  <2> QED BY <1>3, <2>1, ShownIs
<1>4. Plans(k)
  BY <1>2, OfSupport DEF Plans
<1>5. Writes(k)
  BY <1>1, <1>2, SupportFacts, OfSupport DEF Writes, Outcome
<1>6. Reads(k)
  <2> SUFFICES ASSUME NEW s, Storable(k, s)
               PROVE  \E v : Shows(k, s, v) /\ Recordable(k, v)
    BY <1>1 DEF Reads
  <2>1. Shows(k, s, SupportRecord(s))
    BY OfSupport DEF Shows
  <2>2. Recordable(k, SupportRecord(s))
    BY SupportFacts, OfSupport
  <2> QED BY <2>1, <2>2
<1>7. Settles(k)
  <2> SUFFICES ASSUME NEW c, NEW prior, NEW s, NEW v, Configurable(k, c),
                      Shows(k, Outcome(k, c, prior, s), v)
               PROVE  PlanFor(k, c, {v}) = v
    BY DEF Settles
  <2>1. Outcome(k, c, prior, s) = buildSupportOptionsRequest(c)
    BY OfSupport DEF Outcome
  <2>2. v = c
    BY <1>2, <1>3, <2>1, SupportFacts
  <2> QED BY <2>2, OfSupport
<1>8. Keeps(k)
  <2> SUFFICES ASSUME NEW c, NEW s, NEW v, Storable(k, s), Shows(k, s, v)
               PROVE  Effective(k, c, Written(k, s, Body(k, {v}, v))) = Effective(k, c, s)
    BY DEF Keeps
  <2>1. Written(k, s, Body(k, {v}, v)) = s
    BY <1>3, SupportFacts, OfSupport
  <2> QED BY <2>1
<1>9. Accepts(k)
  BY <1>2, SupportFacts, OfSupport DEF Accepts
<1>10. Clears(k)
  BY <1>1, OfSupport DEF Clears
<1> QED BY <1>4, <1>5, <1>6, <1>7, <1>8, <1>9, <1>10 DEF Sound

LEMMA InternetSound ==
  ASSUME NEW k, k = "internet_access_status"
  PROVE  Sound(k)
<1>1. k \notin Numbering
  BY DEF Numbering, Policies
<1>2. \A c : Configurable(k, c) => c \in internetAccessStatusValues
  BY OfInternet DEF Configurable
<1>3. \A s, prior, keys : Readings(k, s, prior, keys) = {s}
  <2> SUFFICES ASSUME NEW s
               PROVE  UNION {readInternetAccessStatusResponse(a) :
                               a \in InternetAnswers(s)} = {s}
    BY OfInternet
  <2> DEFINE A == [flat |-> {s}, enveloped |-> {}]
             B == [flat |-> {}, enveloped |-> {s}]
             C == [flat |-> {}, enveloped |-> {}]
             R(a) == readInternetAccessStatusResponse(a)
  <2>1. R(A) = {s} /\ R(B) = {s} /\ R(C) = {}
    BY DEF readInternetAccessStatusResponse, internetAccessStatusFromEnvelope
  <2>2. InternetAnswers(s) = {A, B, C}
    BY DEF InternetAnswers
  <2> HIDE DEF A, B, C, R
  <2>3. UNION {R(a) : a \in {A, B, C}} = {s}
    BY <2>1
  <2> QED BY <2>2, <2>3 DEF R
<1>4. ASSUME NEW s, NEW v, Shows(k, s, v) PROVE v = s
  <2>1. Readings(k, s, {}, TRUE) = {s}
    BY <1>3
  <2> QED BY <1>4, <2>1, ShownIs
<1>5. Plans(k)
  BY <1>2, OfInternet DEF Plans
<1>6. Writes(k)
  BY <1>1, <1>2, OfInternet DEF Writes, Outcome
<1>7. Reads(k)
  BY <1>1, <1>3, OfInternet DEF Reads, Shows
<1>8. Settles(k)
  <2> SUFFICES ASSUME NEW c, NEW prior, NEW s, NEW v, Configurable(k, c),
                      Shows(k, Outcome(k, c, prior, s), v)
               PROVE  PlanFor(k, c, {v}) = v
    BY DEF Settles
  <2>1. Outcome(k, c, prior, s) = c
    BY OfInternet DEF Outcome
  <2> QED BY <1>4, <2>1, OfInternet
<1>9. Keeps(k)
  <2> SUFFICES ASSUME NEW c, NEW s, NEW v, Storable(k, s), Shows(k, s, v)
               PROVE  Effective(k, c, Written(k, s, Body(k, {v}, v))) = Effective(k, c, s)
    BY DEF Keeps
  <2>1. Written(k, s, Body(k, {v}, v)) = s
    BY <1>4, OfInternet
  <2> QED BY <2>1
<1>10. Accepts(k)
  BY OfInternet DEF Accepts
<1>11. Clears(k)
  BY <1>1, OfInternet DEF Clears
<1> QED BY <1>5, <1>6, <1>7, <1>8, <1>9, <1>10, <1>11 DEF Sound

LEMMA AddressesSound ==
  ASSUME NEW k, k = "object_addresses"
  PROVE  Sound(k)
<1>1. k \notin Numbering
  BY DEF Numbering, Policies
<1>2. \A c : Configurable(k, c) => Recordable(k, c)
  BY DEF Configurable
<1>3. ASSUME NEW s, NEW v, Shows(k, s, v) PROVE v = s
  <2>1. \A t, prior, keys : Readings(k, t, prior, keys) = {t}
    BY OfAddresses
  <2>2. Readings(k, s, {}, TRUE) = {s}
    BY <2>1
  <2> QED BY <1>3, <2>2, ShownIs
<1>4. Plans(k)
  BY <1>2, OfAddresses DEF Plans
<1>5. Writes(k)
  BY <1>1, <1>2, OfAddresses DEF Writes, Outcome
<1>6. Reads(k)
  BY <1>1, OfAddresses DEF Reads, Shows
<1>7. Settles(k)
  <2> SUFFICES ASSUME NEW c, NEW prior, NEW s, NEW v, Configurable(k, c),
                      Shows(k, Outcome(k, c, prior, s), v)
               PROVE  PlanFor(k, c, {v}) = v
    BY DEF Settles
  <2>1. Outcome(k, c, prior, s) = c
    BY OfAddresses DEF Outcome
  <2> QED BY <1>3, <2>1, OfAddresses
<1>8. Keeps(k)
  <2> SUFFICES ASSUME NEW c, NEW s, NEW v, Storable(k, s), Shows(k, s, v)
               PROVE  Effective(k, c, Written(k, s, Body(k, {v}, v))) = Effective(k, c, s)
    BY DEF Keeps
  <2>1. Written(k, s, Body(k, {v}, v)) = s
    BY <1>3, OfAddresses
  <2> QED BY <2>1
<1>9. Accepts(k)
  <2> SUFFICES ASSUME NEW c, Configurable(k, c), AddressRefuses(c)
               PROVE  resourceObjectAddressesCustomizeDiff(c)
    BY OfAddresses DEF Accepts
  <2>1. c \in AddressDocument(Seq({"host", "block"}))
    BY <1>2, OfAddresses
  <2> DEFINE w == c.value
             n == Len(w)
  <2>2. /\ w \in Seq({"host", "block"}) /\ n \in Nat /\ DOMAIN w = 1..n
        /\ w = <<>> <=> n = 0
        /\ \A i \in 1..n : w[i] \in {"host", "block"}
    BY <2>1 DEF AddressDocument
  <2>3. \/ n = 0 \/ (n > 1 /\ c.value_type # "list")
        \/ c.value_type = "cidr" /\ \E i \in 1..n : w[i] = "host"
    BY DEF AddressRefuses
  <2>4. ASSUME c.value_type = "cidr", NEW i \in 1..n, w[i] = "host"
        PROVE  \E j \in DOMAIN w : w[j] # "block"
    BY <2>2, <2>4
  <2> DEFINE t == c.value_type
  <2>5. \/ t # "list" /\ n # 1
        \/ t = "list" /\ w = <<>>
        \/ t = "cidr" /\ \E i \in DOMAIN w : w[i] # "block"
    <3> HIDE DEF w, t
    <3> QED BY <2>2, <2>3, <2>4 DEF t
  <2> QED BY <2>5 DEF resourceObjectAddressesCustomizeDiff
<1>10. Clears(k)
  BY <1>1, OfAddresses DEF Clears
<1> QED BY <1>4, <1>5, <1>6, <1>7, <1>8, <1>9, <1>10 DEF Sound

LEMMA ServicesSound ==
  ASSUME NEW k, k = "object_services"
  PROVE  Sound(k)
<1> DEFINE Z == [e \in ServiceEntry |-> ZeroOf(e)]
           H == [e \in ServiceEntry |-> HalfOf(e)]
<1>1. k \notin Numbering
  BY DEF Numbering, Policies
<1>2. \A c : Configurable(k, c) => c \in Seq(ServiceEntry)
  BY OfServices DEF Configurable
<1>3. \A e \in ServiceEntry : Z[e] \in ServiceEntry /\ Z[e] = ZeroOf(e) /\ H[e] = HalfOf(e)
  BY EntryFacts
<1>4. ASSUME NEW c \in Seq(ServiceEntry), NEW prior
      PROVE  PlanFor(k, c, prior) = OneByOne(c, Z)
  <2>1. DOMAIN c = 1..Len(c) /\ \A i \in 1..Len(c) : c[i] \in ServiceEntry
    OBVIOUS
  <2>2. PlanFor(k, c, prior) = [i \in DOMAIN c |-> ZeroOf(c[i])]
    BY OfServices DEF ZeroOf, WithOptions
  <2> QED BY <1>3, <2>1, <2>2 DEF OneByOne
<1>5. ASSUME NEW p \in Seq(ServiceEntry), NEW prior
      PROVE  Body(k, prior, p) = OneByOne(p, H)
  <2>1. DOMAIN p = 1..Len(p) /\ \A i \in 1..Len(p) : p[i] \in ServiceEntry
    OBVIOUS
  <2>2. flattenProtocolsData(p) = [i \in DOMAIN p |-> HalfOf(p[i])]
    BY DEF flattenProtocolsData, HalfOf, WithOptions, WithType, WithValue, Icmp,
       NoType, Nought, NoOptions
  <2>3. \A i \in 1..Len(p) : HalfOf(p[i]) = H[p[i]]
    BY <1>3, <2>1
  <2> QED BY <2>1, <2>2, <2>3, OfServices DEF OneByOne
<1>6. ASSUME NEW s \in Seq(StoredService), NEW prior, NEW keys
      PROVE  Readings(k, s, prior, keys) = {OneByOne(s, Z)}
  <2>1. DOMAIN s = 1..Len(s) /\ \A i \in 1..Len(s) : s[i] \in StoredService
    OBVIOUS
  <2>2. flattenObjectServicesProtocols(s) = [i \in DOMAIN s |-> ZeroOf(s[i])]
    BY DEF flattenObjectServicesProtocols, ZeroOf, WithOptions
  <2>3. \A i \in 1..Len(s) : ZeroOf(s[i]) = Z[s[i]]
    BY <1>3, <2>1, EntryFacts
  <2> QED BY <2>1, <2>2, <2>3, OfServices DEF OneByOne
<1> HIDE DEF Z, H
<1>7. ASSUME NEW c \in Seq(ServiceEntry)
      PROVE  /\ OneByOne(c, Z) \in Seq(ServiceEntry) /\ Len(OneByOne(c, Z)) = Len(c)
             /\ \A i \in 1..Len(c) : OneByOne(c, Z)[i] = ZeroOf(c[i])
             /\ OneByOne(OneByOne(c, Z), H) \in Seq(StoredService)
             /\ Len(OneByOne(OneByOne(c, Z), H)) = Len(c)
             /\ \A i \in 1..Len(c) : OneByOne(OneByOne(c, Z), H)[i] = HalfOf(ZeroOf(c[i]))
  <2> DEFINE n == Len(c)
             z == OneByOne(c, Z)
             h == OneByOne(z, H)
  <2>1. n \in Nat /\ \A i \in 1..n : c[i] \in ServiceEntry
    OBVIOUS
  <2>2. z = [i \in 1..n |-> z[i]] /\ \A i \in 1..n : z[i] = ZeroOf(c[i])
    BY <1>3, <2>1 DEF OneByOne
  <2> HIDE DEF z
  <2>3. \A i \in 1..n : z[i] \in ServiceEntry
    BY <2>1, <2>2, EntryFacts
  <2>4. z \in Seq(ServiceEntry) /\ Len(z) = n
    BY <2>1, <2>2, <2>3, ListOf
  <2>5. h = [i \in 1..n |-> h[i]] /\ \A i \in 1..n : h[i] = HalfOf(ZeroOf(c[i]))
    BY <1>3, <2>1, <2>2, <2>3, <2>4 DEF OneByOne
  <2> HIDE DEF h
  <2>6. \A i \in 1..n : h[i] \in StoredService
    BY <2>1, <2>5, EntryFacts
  <2>7. h \in Seq(StoredService) /\ Len(h) = n
    BY <2>1, <2>5, <2>6, ListOf
  <2> QED BY <2>2, <2>4, <2>5, <2>7 DEF z, h
<1>8. \A s \in Seq(StoredService) : s \in Seq(ServiceEntry)
  <2>1. StoredService \subseteq ServiceEntry
    BY EntryFacts
  <2> QED BY <2>1
<1>9. \A c \in Seq(ServiceEntry) : \A prior, s :
        Outcome(k, c, prior, s) = OneByOne(OneByOne(c, Z), H)
  BY <1>4, <1>5, <1>7, OfServices DEF Outcome
<1>10. \A s \in Seq(StoredService) : \A v : Shows(k, s, v) => v = OneByOne(s, Z)
  BY <1>6, ShownIs
<1>11. ASSUME NEW c \in Seq(ServiceEntry)
       PROVE  validateObjectServicesProtocols(c) <=> \E i \in 1..Len(c) : Wrong(c[i])
  <2>1. DOMAIN c = 1..Len(c)
    OBVIOUS
  <2>2. validateObjectServicesProtocols(c) <=> \E i \in DOMAIN c : Wrong(c[i])
    BY Zenon DEF validateObjectServicesProtocols, Wrong
  <2> QED BY <2>1, <2>2
<1>12. Plans(k)
  BY <1>2, <1>4, <1>7, OfServices DEF Plans
<1>13. Writes(k)
  BY <1>1, <1>2, <1>7, <1>9, OfServices DEF Writes
<1>14. Reads(k)
  <2> SUFFICES ASSUME NEW s, Storable(k, s)
               PROVE  \E v : Shows(k, s, v) /\ Recordable(k, v)
    BY <1>1 DEF Reads
  <2>1. Shows(k, s, OneByOne(s, Z))
    BY <1>6, OfServices DEF Shows
  <2>2. Recordable(k, OneByOne(s, Z))
    BY <1>7, <1>8, OfServices
  <2> QED BY <2>1, <2>2
<1>15. Settles(k)
  <2> SUFFICES ASSUME NEW c, NEW prior, NEW s, NEW v, Configurable(k, c),
                      Shows(k, Outcome(k, c, prior, s), v), ~RefusedAtPlan(k, c, PlanFor(k, c, {v}))
               PROVE  PlanFor(k, c, {v}) = v
    BY DEF Settles
  <2>1. c \in Seq(ServiceEntry)
    BY <1>2
  <2> DEFINE w == OneByOne(OneByOne(c, Z), H)
             z == OneByOne(c, Z)
  <2>2. w \in Seq(StoredService) /\ Len(w) = Len(c)
        /\ \A i \in 1..Len(c) : w[i] = HalfOf(ZeroOf(c[i]))
    BY <1>7, <2>1
  <2>3. z \in Seq(ServiceEntry) /\ Len(z) = Len(c)
        /\ \A i \in 1..Len(c) : z[i] = ZeroOf(c[i])
    BY <1>7, <2>1
  <2>4. Outcome(k, c, prior, s) = w
    BY <1>9, <2>1
  <2> HIDE DEF w
  <2>5. v = OneByOne(w, Z)
    BY <1>10, <2>2, <2>4
  <2>6. /\ v \in Seq(ServiceEntry) /\ Len(v) = Len(c)
        /\ \A i \in 1..Len(c) : v[i] = ZeroOf(w[i])
    BY <1>7, <1>8, <2>2, <2>5
  <2>7. \A i \in 1..Len(c) : ~Wrong(c[i])
    BY <1>11, <2>1, OfServices
  <2>8. \A i \in 1..Len(c) : v[i] = z[i]
    <3>1. \A i \in 1..Len(c) : c[i] \in ServiceEntry
      BY <2>1
    <3> HIDE DEF z
    <3> QED BY <2>2, <2>3, <2>6, <2>7, <3>1, EntryFacts
  <2>9. v = z
    <3> HIDE DEF z
    <3> QED BY <2>3, <2>6, <2>8, SeqEqual
  <2> QED BY <1>4, <2>1, <2>9
<1>16. Keeps(k)
  <2> SUFFICES ASSUME NEW c, NEW s, NEW v, Storable(k, s), Shows(k, s, v)
               PROVE  Effective(k, c, Written(k, s, Body(k, {v}, v))) = Effective(k, c, s)
    BY DEF Keeps
  <2> DEFINE z == OneByOne(s, Z)
             h == OneByOne(z, H)
  <2>1. s \in Seq(StoredService) /\ s \in Seq(ServiceEntry)
    BY <1>8, OfServices
  <2>2. v = z
    BY <1>10, <2>1
  <2>3. /\ z \in Seq(ServiceEntry) /\ h \in Seq(StoredService) /\ Len(h) = Len(s)
        /\ \A i \in 1..Len(s) : h[i] = HalfOf(ZeroOf(s[i]))
    BY <1>7, <2>1
  <2>4. Body(k, {v}, v) = h
    BY <1>5, <2>2, <2>3
  <2>5. \A i \in 1..Len(s) : h[i] = s[i]
    <3>1. \A i \in 1..Len(s) : s[i] \in StoredService
      BY <2>1
    <3> HIDE DEF h, z
    <3> QED BY <2>3, <3>1, EntryFacts
  <2>6. h = s
    <3> HIDE DEF h, z
    <3> QED BY <2>1, <2>3, <2>5, SeqEqual
  <2> QED BY <2>4, <2>6, OfServices
<1>17. Accepts(k)
  <2> SUFFICES ASSUME NEW c, NEW prior, Configurable(k, c),
                      Refuses(k, Body(k, prior, PlanFor(k, c, prior)))
               PROVE  RefusedAtPlan(k, c, PlanFor(k, c, prior))
    BY DEF Accepts
  <2> DEFINE z == OneByOne(c, Z)
             h == OneByOne(z, H)
  <2>1. c \in Seq(ServiceEntry)
    BY <1>2
  <2>2. /\ z \in Seq(ServiceEntry) /\ h \in Seq(StoredService) /\ Len(h) = Len(c)
        /\ \A i \in 1..Len(c) : h[i] = HalfOf(ZeroOf(c[i]))
    BY <1>7, <2>1
  <2>3. ServicesRefuse(h)
    BY <1>4, <1>5, <2>1, <2>2, OfServices
  <2> HIDE DEF h, z
  <2>7. DOMAIN h = 1..Len(c)
    BY <2>2
  <2>4. PICK i \in DOMAIN h :
          /\ h[i].protocol = "tcp"
          /\ \/ h[i].value_type = "" \/ h[i].value = 0
             \/ validateObjectServicesProtocolValueArity(h[i])
    BY <2>3 DEF ServicesRefuse
  <2>5. c[i] \in ServiceEntry /\ i \in 1..Len(c)
    BY <2>1, <2>7
  <2>6. Wrong(c[i])
    BY <2>2, <2>4, <2>5, EntryFacts
  <2> QED BY <1>11, <2>1, <2>5, <2>6, OfServices
<1>18. Clears(k)
  BY <1>1, OfServices DEF Clears
<1> QED BY <1>12, <1>13, <1>14, <1>15, <1>16, <1>17, <1>18 DEF Sound

LEMMA SplitSound ==
  ASSUME NEW k, k = "split_tunneling"
  PROVE  Sound(k)
<1> DEFINE D == SplitDocument(Seq(Nat), SUBSET Exceptions)
           View(s) == IF s.mode = "via_tunnel" THEN SplitWith(s, {}) ELSE s
<1>1. k \notin Numbering
  BY DEF Numbering, Policies
<1>2. ASSUME NEW c, Configurable(k, c) PROVE c \in D
  BY <1>2, OfSplit DEF Configurable
<1>3. ASSUME NEW s \in D
      PROVE  /\ View(s) \in D
             /\ \A prior, keys : Readings(k, s, prior, keys) = {View(s)}
             /\ \A v : Shows(k, s, v) => v = View(s)
             /\ \A x : SplitWith(View(s), x) = SplitWith(s, x)
  <2>1. View(s) \in D
    BY SplitFields
  <2>2. flattenSplitTunnelingData(SplitAnswer(s)) = View(s)
    BY SplitParts
  <2>3. \A x : SplitWith(View(s), x) = SplitWith(s, x)
    BY SplitTwice
  <2> HIDE DEF View
  <2>4. \A prior, keys : Readings(k, s, prior, keys) = {View(s)}
    BY <2>2, OfSplit
  <2>5. \A v : Shows(k, s, v) => v = View(s)
    BY <2>4, ShownIs
  <2> QED BY <2>1, <2>3, <2>4, <2>5
<1>4. \A s \in D, x \in SUBSET Exceptions : SplitWith(s, x) \in D
  BY SplitFields
<1>5. ASSUME NEW c \in D, NEW prior
      PROVE  PlanFor(k, c, prior) = SplitWith(c, Prior(prior, c).exceptions)
  BY OfSplit DEF SplitWith
<1>6. ASSUME NEW c \in D, NEW prior, Before(k, prior)
      PROVE  Prior(prior, c).exceptions \in SUBSET Exceptions
  <2>1. CASE prior = {}
    BY <2>1, PriorOf, SplitFields
  <2>2. ASSUME NEW r, prior = {r}, Recordable(k, r)
        PROVE  Prior(prior, c).exceptions \in SUBSET Exceptions
    <3>1. r \in D
      BY <2>2, OfSplit
    <3>2. Prior(prior, c) = r
      BY <2>2, PriorOf
    <3>3. r.exceptions \in SUBSET Exceptions
      BY <3>1, SplitFields
    <3> QED BY <3>2, <3>3
  <2> QED BY <1>6, <2>1, <2>2 DEF Before
<1>7. ASSUME NEW p \in D, NEW s \in D, NEW prior
      PROVE  /\ Body(k, prior, p) = SplitWith(p, {})
             /\ Written(k, s, Body(k, prior, p)) = SplitWith(p, s.exceptions)
             /\ Written(k, s, Body(k, prior, p)) \in D
  <2>1. Body(k, prior, p) = SplitWith(p, {})
    BY OfSplit, SplitParts
  <2>2. SplitWith(p, {}).exceptions = {}
    BY SplitFields
  <2>3. Written(k, s, Body(k, prior, p)) = SplitWith(SplitWith(p, {}), s.exceptions \cup {})
    BY <2>1, <2>2, OfSplit, SplitParts
  <2>4. s.exceptions \cup {} = s.exceptions /\ s.exceptions \in SUBSET Exceptions
    BY SplitFields
  <2>5. Written(k, s, Body(k, prior, p)) = SplitWith(p, s.exceptions)
    BY <2>3, <2>4, SplitTwice
  <2> QED BY <1>4, <2>1, <2>4, <2>5
<1>8. ASSUME NEW d, Storable(k, d) \/ Recordable(k, d) PROVE d \in D
  BY <1>8, OfSplit
<1>9. ASSUME NEW d \in D PROVE Storable(k, d) /\ Recordable(k, d)
  BY OfSplit
<1> HIDE DEF D, View
<1>10. Plans(k)
  BY <1>2, <1>4, <1>5, <1>6, <1>9 DEF Plans
<1>11. ASSUME NEW c, NEW prior, NEW s, Configurable(k, c), Before(k, prior), Storable(k, s)
       PROVE  /\ c \in D /\ s \in D
              /\ Outcome(k, c, prior, s) = SplitWith(c, s.exceptions)
              /\ Outcome(k, c, prior, s) \in D
  <2>1. c \in D /\ s \in D
    BY <1>2, <1>8, <1>11
  <2>2. PlanFor(k, c, prior) = SplitWith(c, Prior(prior, c).exceptions)
    BY <1>5, <2>1
  <2>3. PlanFor(k, c, prior) \in D
    BY <1>4, <1>6, <1>11, <2>1, <2>2
  <2>4. Outcome(k, c, prior, s) = SplitWith(PlanFor(k, c, prior), s.exceptions)
    BY <1>7, <2>1, <2>3 DEF Outcome
  <2>5. Outcome(k, c, prior, s) \in D
    BY <1>7, <2>1, <2>3 DEF Outcome
  <2> QED BY <2>1, <2>2, <2>4, <2>5, SplitTwice DEF D
<1>12. Writes(k)
  BY <1>1, <1>9, <1>11, OfSplit DEF Writes
<1>13. Reads(k)
  <2> SUFFICES ASSUME NEW s, Storable(k, s)
               PROVE  \E v : Shows(k, s, v) /\ Recordable(k, v)
    BY <1>1 DEF Reads
  <2>1. s \in D
    BY <1>8
  <2> QED BY <1>3, <1>9, <2>1 DEF Shows
<1>14. Settles(k)
  <2> SUFFICES ASSUME NEW c, NEW prior, NEW s, NEW v, Configurable(k, c),
                      Before(k, prior), Storable(k, s),
                      Shows(k, Outcome(k, c, prior, s), v)
               PROVE  PlanFor(k, c, {v}) = v
    BY DEF Settles
  <2> DEFINE w == Outcome(k, c, prior, s)
  <2>1. c \in D /\ w \in D /\ w = SplitWith(c, s.exceptions)
    BY <1>11
  <2> HIDE DEF w
  <2>2. v = View(w)
    BY <1>3, <2>1 DEF w
  <2>3. PlanFor(k, c, {v}) = SplitWith(c, v.exceptions)
    BY <1>5, <2>1, PriorOf
  <2>4. v \in D
    BY <1>3, <2>1, <2>2
  <2>5. SplitWith(c, v.exceptions) = SplitWith(w, v.exceptions)
    BY <2>1, SplitTwice DEF D
  <2>6. SplitWith(w, v.exceptions) = SplitWith(v, v.exceptions)
    BY <1>3, <2>1, <2>2
  <2>7. SplitWith(v, v.exceptions) = v
    BY <2>4, SplitTwice DEF D
  <2> QED BY <2>3, <2>5, <2>6, <2>7
<1>15. Keeps(k)
  <2> SUFFICES ASSUME NEW c, NEW s, NEW v, Storable(k, s), Shows(k, s, v)
               PROVE  Effective(k, c, Written(k, s, Body(k, {v}, v))) = Effective(k, c, s)
    BY DEF Keeps
  <2>1. s \in D /\ v = View(s) /\ v \in D
    BY <1>3, <1>8
  <2>2. Written(k, s, Body(k, {v}, v)) = SplitWith(v, s.exceptions)
    BY <1>7, <2>1
  <2>3. SplitWith(v, s.exceptions) = SplitWith(s, s.exceptions)
    BY <1>3, <2>1
  <2>4. SplitWith(s, s.exceptions) = s
    BY <2>1, SplitTwice DEF D
  <2> QED BY <2>2, <2>3, <2>4
<1>16. Accepts(k)
  <2> SUFFICES ASSUME NEW c, NEW prior, Configurable(k, c), Before(k, prior),
                      Refuses(k, Body(k, prior, PlanFor(k, c, prior)))
               PROVE  RefusedAtPlan(k, c, PlanFor(k, c, prior))
    BY DEF Accepts
  <2> DEFINE p == PlanFor(k, c, prior)
             b == SplitWith(p, {})
  <2>1. p \in D
    BY <1>2, <1>4, <1>5, <1>6
  <2>2. Body(k, prior, p) = b
    BY <1>7, <2>1
  <2>3. b.cidr = p.cidr /\ b.objects = p.objects /\ b.exceptions = {}
    BY <2>1, SplitFields DEF D
  <2> HIDE DEF b
  <2>4. Repeats(b.cidr) \/ Repeats(b.objects)
    BY <2>2, <2>3, OfSplit DEF SplitRefuses
  <2> HIDE DEF p
  <2>5. validateSplitTunnelingDiff(p)
    BY <2>3, <2>4 DEF validateSplitTunnelingDiff, privateDNSDuplicateString
  <2> QED BY <2>5, OfSplit DEF p
<1>17. Clears(k)
  BY <1>1, OfSplit DEF Clears
<1> QED BY <1>10, <1>12, <1>13, <1>14, <1>15, <1>16, <1>17 DEF Sound

LEMMA DnsSound ==
  ASSUME NEW k, k = "private_dns"
  PROVE  Sound(k)
<1> DEFINE D == DnsDocument(Seq(Nat))
           S == StoredDns(Seq(Nat))
<1>1. k \notin Numbering
  BY DEF Numbering, Policies
<1>2. ASSUME NEW c, Configurable(k, c) PROVE c \in D
  BY <1>2, OfDns DEF Configurable
<1>3. ASSUME NEW s \in S
      PROVE  /\ s \in D
             /\ \A prior, keys : Readings(k, s, prior, keys) = {s}
             /\ \A v : Shows(k, s, v) => v = s
  <2>1. s \in D
    BY DnsRead
  <2>2. [enabled |-> s.enabled, attributes |-> flattenCustomDnsAttributes(s.attributes)] = s
    BY DnsRead
  <2>3. \A prior, keys : Readings(k, s, prior, keys) = {s}
    BY <2>2, OfDns
  <2>4. \A v : Shows(k, s, v) => v = s
    BY <2>3, ShownIs
  <2> QED BY <2>1, <2>3, <2>4
<1>4. ASSUME NEW c \in D, NEW prior
      PROVE  /\ c.attributes # {} => PlanFor(k, c, prior) = c
             /\ c.attributes = {} =>
                  PlanFor(k, c, prior) = Dns(c.enabled, Prior(prior, c).attributes)
  <2>1. \A x : [c EXCEPT !.attributes = x] = Dns(c.enabled, x)
    BY DEF Dns, DnsDocument
  <2> QED BY <2>1, OfDns
<1>5. ASSUME NEW c \in D, NEW prior, Before(k, prior)
      PROVE  PlanFor(k, c, prior) \in D
  <2>1. Prior(prior, c) \in D
    <3>1. CASE prior = {}
      BY <3>1, PriorOf
    <3>2. ASSUME NEW r, prior = {r}, Recordable(k, r) PROVE Prior(prior, c) \in D
      BY <3>2, PriorOf, OfDns
    <3> QED BY <1>5, <3>1, <3>2 DEF Before
  <2> DEFINE a == Prior(prior, c).attributes
  <2>2. a \in SUBSET DnsAttributes(Seq(Nat)) /\ \A x, y \in a : x = y
    BY <2>1, DnsParts
  <2> HIDE DEF a
  <2>3. Dns(c.enabled, a) \in D
    BY <2>2, DnsParts
  <2> QED BY <1>4, <2>3 DEF a
<1>6. ASSUME NEW d, Storable(k, d) PROVE d \in S
  BY <1>6, OfDns
<1>7. ASSUME NEW d \in S PROVE Storable(k, d)
  BY OfDns
<1>8. ASSUME NEW d \in D PROVE Recordable(k, d)
  BY OfDns
<1>9. ASSUME NEW p \in D, NEW s, NEW prior
      PROVE  /\ Written(k, s, Body(k, prior, p)) = DnsLeft(p, singleBlock(p.attributes))
             /\ Written(k, s, Body(k, prior, p)) \in S
             /\ Refuses(k, Body(k, prior, p)) => validatePrivateDNSDiff(p)
  BY DnsWritten, OfDns
<1>10. ASSUME NEW p \in D, NEW a, a = singleBlock(p.attributes)
       PROVE  /\ DnsLeft(p, a).enabled = p.enabled
              /\ p.attributes # {} /\ a.dns_policy # {{}} => DnsLeft(p, a) = p
  <2>1. DnsLeft(p, a).enabled = p.enabled
    BY DEF DnsLeft, Dns
  <2>2. ASSUME p.attributes # {}, a.dns_policy # {{}} PROVE DnsLeft(p, a) = p
    <3>1. a \in DnsAttributes(Seq(Nat)) /\ p.attributes = {a}
      BY <1>10, <2>2, DnsWritten
    <3>2. Wrapped(UNION a.dns_policy) = a.dns_policy
      BY <2>2, <3>1, AttributeParts, BlockFacts
    <3>3. DnsLeft(p, a) = Dns(p.enabled, {DnsAttribute(a.servers, a.search_domains, a.dns_policy)})
      BY <3>2 DEF DnsLeft
    <3>4. DnsLeft(p, a) = Dns(p.enabled, {a})
      BY <3>1, <3>3, AttributeParts
    <3> QED BY <3>1, <3>4, DnsParts
  <2> QED BY <2>1, <2>2
<1> HIDE DEF D, S
<1>11. Plans(k)
  BY <1>2, <1>5, <1>8 DEF Plans
<1>12. Writes(k)
  BY <1>1, <1>2, <1>5, <1>7, <1>9, OfDns DEF Writes, Outcome
<1>13. Reads(k)
  BY <1>1, <1>3, <1>6, <1>8 DEF Reads, Shows
<1>14. Settles(k)
  <2> SUFFICES ASSUME NEW c, NEW prior, NEW s, NEW v, Configurable(k, c),
                      Before(k, prior), Shows(k, Outcome(k, c, prior, s), v),
                      ~Spelled(k, c)
               PROVE  PlanFor(k, c, {v}) = v
    BY DEF Settles
  <2> DEFINE p == PlanFor(k, c, prior)
             w == Outcome(k, c, prior, s)
             a == singleBlock(p.attributes)
  <2>1. c \in D /\ p \in D
    BY <1>2, <1>5
  <2>2. w \in S /\ w = DnsLeft(p, a)
    BY <1>9, <2>1 DEF Outcome
  <2>3. v = w
    <3> HIDE DEF w
    <3> QED BY <1>3, <2>2 DEF w
  <2>4. CASE c.attributes # {}
    <3>1. p = c /\ PlanFor(k, c, {v}) = c
      BY <1>4, <2>1, <2>4
    <3>2. c.attributes = {a}
      BY <2>1, <2>4, <3>1, DnsWritten DEF D
    <3>3. a.dns_policy # {{}}
      BY <3>2 DEF Spelled
    <3> QED BY <1>10, <2>1, <2>2, <2>3, <2>4, <3>1, <3>3
  <2>5. CASE c.attributes = {}
    <3>0. Prior({v}, c) = v
      BY PriorOf
    <3>1. PlanFor(k, c, {v}) = Dns(c.enabled, v.attributes)
      <4>1. PlanFor(k, c, {v}) = Dns(c.enabled, Prior({v}, c).attributes)
        BY <1>4, <2>1, <2>5
      <4> QED BY <3>0, <4>1
    <3>2. p.enabled = c.enabled
      BY <1>4, <2>1, <2>5 DEF Dns
    <3>3. v \in D
      BY <1>3, <2>2, <2>3
    <3>4. v = Dns(v.enabled, v.attributes)
      BY <3>3, DnsParts DEF D
    <3>5. v.enabled = c.enabled
      BY <1>10, <2>1, <2>2, <2>3, <3>2
    <3> QED BY <3>1, <3>4, <3>5
  <2> QED BY <2>4, <2>5
<1>15. Keeps(k)
  <2> SUFFICES ASSUME NEW c, NEW s, NEW v, Configurable(k, c), Storable(k, s),
                      Shows(k, s, v), PlanFor(k, c, {v}) = v
               PROVE  Effective(k, c, Written(k, s, Body(k, {v}, v))) = Effective(k, c, s)
    BY DEF Keeps
  <2> DEFINE w == Written(k, s, Body(k, {v}, v))
             a == singleBlock(s.attributes)
  <2>1. c \in D /\ s \in S /\ s \in D /\ v = s
    BY <1>2, <1>3, <1>6
  <2>2. w = DnsLeft(s, a)
    BY <1>9, <2>1
  <2> HIDE DEF w
  <2>3. CASE c.attributes = {}
    BY <1>10, <2>1, <2>2, <2>3, EffectiveOf DEF w
  <2>4. CASE c.attributes # {}
    <3>1. c = s
      BY <1>4, <2>1, <2>4
    <3>2. s.attributes = {a}
      BY <2>1, <2>4, <3>1, DnsWritten DEF D
    <3>3. a.dns_policy # {{}}
      BY <2>1, <3>2 DEF S, StoredDns
    <3>4. w = s
      BY <1>10, <2>1, <2>2, <2>4, <3>1, <3>3
    <3> QED BY <3>4 DEF w
  <2> QED BY <2>3, <2>4
<1>16. Accepts(k)
  BY <1>2, <1>5, <1>9, OfDns DEF Accepts
<1>17. Clears(k)
  <2> DEFINE c == Dns(FALSE, {})
  <2>1. c \in D
    BY DEF D, Dns, DnsDocument
  <2>2. c.attributes = {} /\ c.enabled = FALSE
    BY DEF Dns
  <2>3. singleBlock(c.attributes) = NoDnsAttributes
    BY <2>2 DEF singleBlock
  <2>4. expandDnsPolicy({}) = {}
    <3>1. UNION {} = {}
      OBVIOUS
    <3> QED BY <3>1 DEF expandDnsPolicy, Wrapped
  <2>5. expandCustomDnsUpdate(c) = defaultCustomDnsUpdate
    <3> DEFINE a == NoDnsAttributes
    <3>1. a.servers = <<>> /\ a.search_domains = <<>> /\ a.dns_policy = {}
      BY DEF NoDnsAttributes
    <3> HIDE DEF a, c
    <3>2. expandCustomDnsUpdate(c) =
            [enabled |-> c.enabled, servers |-> a.servers,
             search_domains |-> a.search_domains,
             dns_policy |-> expandDnsPolicy(a.dns_policy)]
      BY <2>3 DEF expandCustomDnsUpdate, a
    <3>3. expandDnsPolicy(a.dns_policy) = {}
      BY <2>4, <3>1
    <3> QED BY <2>2, <3>1, <3>2, <3>3, Zenon DEF defaultCustomDnsUpdate
  <2> HIDE DEF c
  <2>6. DnsStored(defaultCustomDnsUpdate) \in S
    BY <2>1, <2>5, DnsWritten DEF D, S
  <2> QED BY <1>1, <1>7, <2>6, OfDns DEF Clears
<1> QED BY <1>11, <1>12, <1>13, <1>14, <1>15, <1>16, <1>17 DEF Sound

-----------------------------------------------------------------------------
(* The policies                                                            *)

LEMMA IdsOfFacts ==
  ASSUME NEW S, NEW s \in Seq(S)
  PROVE  /\ IsFiniteSet(IdsOf(s)) /\ Cardinality(IdsOf(s)) \in Nat
         /\ Cardinality(IdsOf(s)) <= Len(s)
<1> DEFINE n == Len(s)
           D == 1..n
<1>1. n \in Nat /\ DOMAIN s = D
  OBVIOUS
<1>2. IdsOf(s) = {s[i].id : i \in D}
  BY <1>1 DEF IdsOf
<1>3. Cardinality(D) = n
  BY <1>1, OneTo
<1>4. D \in SUBSET (1..n) /\ D \subseteq DOMAIN s
  BY <1>1
<1> HIDE DEF D, n
<1>5. /\ IsFiniteSet({s[i].id : i \in D}) /\ Cardinality({s[i].id : i \in D}) \in Nat
      /\ Cardinality({s[i].id : i \in D}) <= Cardinality(D)
  BY <1>1, <1>4, IdsAreFew
<1> QED BY <1>2, <1>3, <1>5 DEF n

(* A policy: Clean are the rules a plan does not refuse, Known the rules   *)
(* of the server that no read warns of.                                    *)
Policy(k, T, S, B, V, Clean, Known) ==
  /\ \A d : Recordable(k, d) <=> d \in Seq(T)
  /\ \A d : Storable(k, d) <=> d \in Seq(S) /\ Unshared(d)
  /\ \A d : Rules(k, d) = Len(d) /\ RulesOf(k, d) = d
  /\ \A c, prior : PlanFor(k, c, prior) = PlanRules(c, Prior(prior, <<>>))
  /\ \A prior : \A p \in Seq(T) : Body(k, prior, p) = OneByOne(p, B)
  /\ \A s \in Seq(S) : \A prior, keys : Readings(k, s, prior, keys) = {OneByOne(s, V)}
  /\ \A s, b : Written(k, s, b) = Numbered(b, IdsOf(s))
  /\ \A s : Cleared(k, s) = <<>>
  /\ \A s \in Seq(S) :
       WarnedOf(k, s) = {} <=> \A i \in 1..Len(s) : s[i] \in Known
  /\ \A a \in T : \A id \in Nat \ {NoId} : WithId(B[a], id) \in Known
  /\ \A a \in T : \A id \in Nat : WithId(a, id) \in Clean => a \in Clean
  /\ \A s \in Seq(S) :
       (\A i \in 1..Len(s) : s[i] \in Known)
       => \/ \A i \in 1..Len(s) : B[V[s[i]]] = s[i]
          \/ k = "access_policy"
               /\ \E i \in DOMAIN s : s[i].conditions \ {"datetime"} # {}
  /\ \A c : \A p \in Seq(T) :
       (\E i \in DOMAIN p : p[i] \notin Clean) => RefusedAtPlan(k, c, p)

LEMMA PolicySound ==
  ASSUME NEW k, k \in Policies, NEW T, NEW S, NEW B, NEW V, NEW Clean, NEW Known,
         Carries(T, S, B, V), HasIds(T), GivesBack(T, B, V, Clean),
         Policy(k, T, S, B, V, Clean, Known)
  PROVE  Plans(k) /\ Writes(k) /\ Reads(k) /\ Settles(k) /\ Keeps(k) /\ Clears(k)
<1>1. k \in Numbering
  BY DEF Numbering
<1>2. ASSUME NEW c, Configurable(k, c)
      PROVE  c \in Seq(T) /\ \A i \in DOMAIN c : c[i].id = NoId
  BY <1>2 DEF Configurable, Policy
<1>3. ASSUME NEW prior, Before(k, prior)
      PROVE  Prior(prior, <<>>) \in Seq(T) /\ Unshared(Prior(prior, <<>>))
  <2>1. CASE prior = {}
    <3>1. <<>> \in Seq(T) /\ Unshared(<<>>)
      BY DEF Unshared
    <3>2. Prior(prior, <<>>) = <<>>
      BY <2>1, PriorOf
    <3> QED BY <3>1, <3>2
  <2>2. ASSUME NEW r, prior = {r}, Recordable(k, r)
        PROVE  Prior(prior, <<>>) \in Seq(T) /\ Unshared(Prior(prior, <<>>))
    <3>1. Prior(prior, <<>>) = r
      BY <2>2, PriorOf
    <3>2. r \in Seq(T)
      BY <2>2 DEF Policy
    <3>3. RulesOf(k, r) = r /\ Unshared(RulesOf(k, r))
      BY <1>1, <1>3, <2>2 DEF Before, Policy
    <3> QED BY <3>1, <3>2, <3>3
  <2> QED BY <1>3, <2>1, <2>2 DEF Before
<1>4. ASSUME NEW c, NEW prior, Configurable(k, c), Before(k, prior),
             NEW p, p = PlanFor(k, c, prior)
      PROVE  p \in Seq(T) /\ Len(p) = Len(c) /\ Apart(p, Len(p))
  <2> DEFINE r == Prior(prior, <<>>)
  <2>1. r \in Seq(T) /\ Unshared(r)
    BY <1>3, <1>4
  <2>2. c \in Seq(T) /\ \A i \in DOMAIN c : c[i].id = NoId
    BY <1>2, <1>4
  <2>3. p = PlanRules(c, r)
    BY <1>4 DEF Policy
  <2> HIDE DEF r
  <2> QED BY <2>1, <2>2, <2>3, PlanRulesFacts, PlansApart
<1>5. Plans(k)
  BY <1>4 DEF Plans, Policy
<1>6. ASSUME NEW c, NEW prior, NEW s, Configurable(k, c), Before(k, prior),
             Storable(k, s), Fits(k, c, s),
             NEW p, p = PlanFor(k, c, prior), NEW q, q = Outcome(k, c, prior, s)
      PROVE  /\ q \in Seq(S) /\ Len(q) = Len(p) /\ Unshared(q)
             /\ \A i \in 1..Len(p) : q[i] = WithId(B[p[i]], q[i].id)
             /\ \A i \in 1..Len(p) : q[i].id \in Nat \ {NoId}
             /\ \A i \in 1..Len(p) : p[i].id # NoId => q[i].id = p[i].id
  <2>1. p \in Seq(T) /\ Len(p) = Len(c) /\ Apart(p, Len(p))
    BY <1>4, <1>6
  <2> DEFINE b == OneByOne(p, B)
             used == IdsOf(s)
  <2>2. s \in Seq(S)
    BY <1>6 DEF Policy
  <2>3. /\ IsFiniteSet(used) /\ Cardinality(used) \in Nat
        /\ Cardinality(used) <= Len(s)
    BY <2>2, IdsOfFacts
  <2>4. IsFiniteSet(Ids) => Cardinality(used) + Len(p) <= Cardinality(Ids)
    <3> SUFFICES ASSUME IsFiniteSet(Ids)
                 PROVE  Cardinality(used) + Len(p) <= Cardinality(Ids)
      OBVIOUS
    <3>1. Rules(k, s) + Rules(k, c) <= Cardinality(Ids)
      BY <1>1, <1>6 DEF Fits
    <3>2. Len(s) + Len(p) <= Cardinality(Ids)
      BY <2>1, <3>1 DEF Policy
    <3>3. Cardinality(Ids) \in Nat
      BY FS_CardinalityType
    <3>4. Len(s) \in Nat /\ Len(p) \in Nat
      BY <2>1, <2>2
    <3> HIDE DEF used
    <3> QED BY <2>3, <3>2, <3>3, <3>4
  <2>5. Apart(b, Len(p))
    BY <2>1, BodiesApart
  <2>6. q = Numbered(b, used)
    BY <1>6, <2>1 DEF Outcome, Policy
  <2> HIDE DEF used, b
  <2> QED BY <2>1, <2>3, <2>4, <2>5, <2>6, RulesWritten DEF b
<1>7. Writes(k)
  <2> SUFFICES ASSUME NEW c, NEW prior, NEW s, Configurable(k, c), Before(k, prior),
                      Storable(k, s), Fits(k, c, s),
                      NEW q, q = Outcome(k, c, prior, s)
               PROVE  Storable(k, q) /\ WarnedOf(k, q) = {} /\ Rules(k, q) = Rules(k, c)
    BY DEF Writes
  <2> DEFINE p == PlanFor(k, c, prior)
  <2>1. p \in Seq(T) /\ Len(p) = Len(c)
    BY <1>4
  <2>2. /\ q \in Seq(S) /\ Len(q) = Len(p) /\ Unshared(q)
        /\ \A i \in 1..Len(p) : q[i] = WithId(B[p[i]], q[i].id)
        /\ \A i \in 1..Len(p) : q[i].id \in Nat \ {NoId}
    BY <1>6
  <2> HIDE DEF p
  <2>3. \A i \in 1..Len(q) : q[i] \in Known
    <3> SUFFICES ASSUME NEW i \in 1..Len(q) PROVE q[i] \in Known
      OBVIOUS
    <3>1. p[i] \in T /\ q[i].id \in Nat \ {NoId}
      BY <2>1, <2>2
    <3>2. WithId(B[p[i]], q[i].id) \in Known
      BY <3>1 DEF Policy
    <3> QED BY <2>2, <3>2
  <2>4. WarnedOf(k, q) = {}
    BY <2>2, <2>3 DEF Policy
  <2> QED BY <2>1, <2>2, <2>4 DEF Policy
<1>8. ASSUME NEW s \in Seq(S), NEW v, v = OneByOne(s, V)
      PROVE  /\ v \in Seq(T) /\ (Unshared(s) => Unshared(v))
             /\ Shows(k, s, v)
             /\ \A x : Shows(k, s, x) => x = v
  <2>1. v \in Seq(T) /\ (Unshared(s) => Unshared(v))
    BY <1>8, RulesRead
  <2>2. \A prior, keys : Readings(k, s, prior, keys) = {v}
    BY <1>8 DEF Policy
  <2> QED BY <2>1, <2>2, ShownIs DEF Shows
<1>9. Reads(k)
  <2> SUFFICES ASSUME NEW s, Storable(k, s)
               PROVE  \E v : /\ Shows(k, s, v) /\ Recordable(k, v)
                             /\ Unshared(RulesOf(k, v))
    BY DEF Reads
  <2>1. s \in Seq(S) /\ Unshared(s)
    BY DEF Policy
  <2> DEFINE v == OneByOne(s, V)
  <2>2. v \in Seq(T) /\ Unshared(v) /\ Shows(k, s, v)
    BY <1>8, <2>1
  <2> HIDE DEF v
  <2>3. Recordable(k, v) /\ Unshared(RulesOf(k, v))
    BY <2>2 DEF Policy
  <2> QED BY <2>2, <2>3
<1>10. Settles(k)
  <2> SUFFICES ASSUME NEW c, NEW prior, NEW s, Configurable(k, c), Before(k, prior),
                      Storable(k, s), Fits(k, c, s),
                      NEW q, q = Outcome(k, c, prior, s), NEW v, Shows(k, q, v)
               PROVE  \/ PlanFor(k, c, {v}) = v
                      \/ RefusedAtPlan(k, c, PlanFor(k, c, {v}))
    BY DEF Settles
  <2> DEFINE r == Prior(prior, <<>>)
             p == PlanFor(k, c, prior)
  <2>1. c \in Seq(T) /\ r \in Seq(T) /\ p = PlanRules(c, r)
    BY <1>2, <1>3 DEF Policy
  <2>2. p \in Seq(T)
    BY <1>4
  <2>3. /\ q \in Seq(S) /\ Len(q) = Len(p)
        /\ \A i \in 1..Len(p) : q[i] = WithId(B[p[i]], q[i].id)
        /\ \A i \in 1..Len(p) : p[i].id # NoId => q[i].id = p[i].id
    BY <1>6
  <2> HIDE DEF r, p
  <2>4. v = OneByOne(q, V) /\ v \in Seq(T)
    BY <1>8, <2>3
  <2>5. PlanFor(k, c, {v}) = PlanRules(c, v)
    <3>1. Prior({v}, <<>>) = v
      BY PriorOf
    <3> QED BY <3>1 DEF Policy
  <2>6. CASE \A i \in DOMAIN c : c[i] \in Clean
    <3>1. PlanRules(c, v) = v
      <4>1. \A i \in 1..Len(p) : q[i] = WithId(B[p[i]], q[i].id)
        BY <2>3
      <4>2. \A i \in 1..Len(p) : p[i].id # NoId => q[i].id = p[i].id
        BY <2>3
      <4>3. q \in Seq(S) /\ Len(q) = Len(p)
        BY <2>3
      <4> QED BY <2>1, <2>4, <2>6, <4>1, <4>2, <4>3, RulesSettle, SMTT(60)
    <3> QED BY <2>5, <3>1
  <2>7. ASSUME NEW i \in DOMAIN c, c[i] \notin Clean
        PROVE  RefusedAtPlan(k, c, PlanFor(k, c, {v}))
    <3> DEFINE x == PlanRules(c, v)
    <3>1. /\ x \in Seq(T) /\ Len(x) = Len(c)
          /\ \A j \in 1..Len(c) :
               x[j] = WithId(c[j], IF c[j].id # NoId THEN c[j].id ELSE IdAt(v, j))
          /\ \A j \in 1..Len(c) :
               x[j].id = IF c[j].id # NoId THEN c[j].id ELSE IdAt(v, j)
      BY <2>1, <2>4, PlanRulesFacts
    <3> HIDE DEF x
    <3>2. i \in 1..Len(c) /\ c[i] \in T /\ i \in DOMAIN x /\ x[i] \in T
      BY <2>1, <3>1
    <3>3. x[i] = WithId(c[i], x[i].id) /\ x[i].id \in Nat
      BY <3>1, <3>2 DEF HasIds
    <3>4. x[i] \notin Clean
      BY <2>7, <3>2, <3>3 DEF Policy
    <3>5. RefusedAtPlan(k, c, x)
      BY <3>1, <3>2, <3>4 DEF Policy
    <3> QED BY <2>5, <3>5 DEF x
  <2> QED BY <2>6, <2>7
<1>11. Keeps(k)
  <2> SUFFICES ASSUME NEW c, NEW s, NEW v, Storable(k, s), Shows(k, s, v),
                      WarnedOf(k, s) = {}
               PROVE  \/ Effective(k, c, Written(k, s, Body(k, {v}, v))) = Effective(k, c, s)
                      \/ k = "access_policy"
                           /\ \E i \in DOMAIN s : s[i].conditions \ {"datetime"} # {}
    BY DEF Keeps
  <2>1. s \in Seq(S)
    BY DEF Policy
  <2>2. v = OneByOne(s, V) /\ v \in Seq(T)
    BY <1>8, <2>1
  <2>3. ASSUME \A i \in 1..Len(s) : B[V[s[i]]] = s[i]
        PROVE  Written(k, s, Body(k, {v}, v)) = s
    <3>1. Body(k, {v}, v) = OneByOne(v, B)
      BY <2>2 DEF Policy
    <3>2. Numbered(OneByOne(OneByOne(s, V), B), IdsOf(s)) = s
      BY <2>1, <2>3, RulesKept
    <3> QED BY <2>2, <3>1, <3>2 DEF Policy
  <2>4. \A i \in 1..Len(s) : s[i] \in Known
    BY <2>1 DEF Policy
  <2> QED BY <2>1, <2>3, <2>4 DEF Policy
<1>12. Clears(k)
  <2>1. <<>> \in Seq(S) /\ Unshared(<<>>) /\ Len(<<>>) = 0
    BY DEF Unshared
  <2>2. \A i \in 1..Len(<<>>) : <<>>[i] \in Known
    BY <2>1
  <2>3. WarnedOf(k, <<>>) = {} /\ Storable(k, <<>>) /\ Rules(k, <<>>) = 0
    BY <2>1, <2>2 DEF Policy
  <2> QED BY <2>3 DEF Clears, Policy
<1> QED BY <1>5, <1>7, <1>9, <1>10, <1>11, <1>12

(* The rules of the server that no read warns of.                          *)
Quiet(S) == {e \in S : Newer \notin e.sources \cup e.destinations}

LEMMA WarnsOfNone ==
  ASSUME NEW S, NEW s \in Seq(S),
         NEW w, w = UNION {(s[i].sources \cup s[i].destinations) \cap {Newer} :
                             i \in DOMAIN s}
  PROVE  /\ w = {} <=> \A i \in 1..Len(s) : s[i] \in Quiet(S)
         /\ w \in SUBSET {Newer}
<1>1. DOMAIN s = 1..Len(s) /\ \A i \in 1..Len(s) : s[i] \in S
  OBVIOUS
<1> QED BY <1>1 DEF Quiet

(* What a read warns of.                                                   *)
LEMMA AccessWarned ==
  ASSUME NEW s \in Seq(StoredAccessRule)
  PROVE  unknownAccessPolicyBucketTypes(AccessPolicyAnswer(s))
           = UNION {(s[i].sources \cup s[i].destinations) \cap {Newer} : i \in DOMAIN s}
<1> DEFINE a == AccessPolicyAnswer(s)
           W(x) == (HasValues(x.sources) \ accessPolicySourceBuckets)
                     \cup (HasValues(x.destinations) \ accessPolicyDestinationBuckets)
           N(e) == (e.sources \cup e.destinations) \cap {Newer}
<1>1. DOMAIN a = DOMAIN s
  BY DEF AccessPolicyAnswer
<1>2. ASSUME NEW i \in DOMAIN s PROVE W(a[i]) = N(s[i])
  <2>1. /\ a[i].sources = Canonical(accessPolicySourceBuckets, s[i].sources)
        /\ a[i].destinations
             = Canonical(accessPolicyDestinationBuckets, s[i].destinations)
    BY DEF AccessPolicyAnswer
  <2>2. /\ HasValues(a[i].sources)
             = (accessPolicySourceBuckets \cup {Newer}) \cap s[i].sources
        /\ HasValues(a[i].destinations)
             = (accessPolicyDestinationBuckets \cup {Newer}) \cap s[i].destinations
    BY <2>1, CanonicalFacts
  <2>3. /\ Newer \notin accessPolicySourceBuckets
        /\ Newer \notin accessPolicyDestinationBuckets
    BY DEF Newer, accessPolicySourceBuckets, accessPolicyDestinationBuckets
  <2> QED BY <2>2, <2>3
<1>3. unknownAccessPolicyBucketTypes(a) = UNION {W(a[i]) : i \in DOMAIN a}
  BY DEF unknownAccessPolicyBucketTypes
<1> HIDE DEF a, W, N
<1>4. UNION {W(a[i]) : i \in DOMAIN a} = UNION {N(s[i]) : i \in DOMAIN s}
  BY <1>1, <1>2
<1> QED BY <1>3, <1>4 DEF a, N

AccessAccepted == AccessClean

LEMMA AccessIsPolicy ==
  ASSUME NEW k, k = "access_policy"
  PROVE  Policy(k, AccessRule, StoredAccessRule, AccessBody, AccessShown, AccessAccepted,
                Quiet(StoredAccessRule))
<1> DEFINE S == StoredAccessRule
           Known == Quiet(S)
<1>1. /\ \A d : Recordable(k, d) <=> d \in Seq(AccessRule)
      /\ \A d : Storable(k, d) <=> d \in Seq(S) /\ Unshared(d)
      /\ \A d : Rules(k, d) = Len(d) /\ RulesOf(k, d) = d
      /\ \A c, prior : PlanFor(k, c, prior) = PlanRules(c, Prior(prior, <<>>))
      /\ \A s, b : Written(k, s, b) = Numbered(b, IdsOf(s))
      /\ \A s : Cleared(k, s) = <<>>
  BY OfAccess
<1>2. \A prior : \A p \in Seq(AccessRule) : Body(k, prior, p) = OneByOne(p, AccessBody)
  BY OfAccess, AccessSent
<1>3. \A s \in Seq(S) : \A prior, keys :
        Readings(k, s, prior, keys) = {OneByOne(s, AccessShown)}
  BY OfAccess, AccessRead
<1>4. ASSUME NEW s \in Seq(S)
      PROVE  WarnedOf(k, s) = {} <=> \A i \in 1..Len(s) : s[i] \in Known
  <2>1. WarnedOf(k, s) =
          UNION {(s[i].sources \cup s[i].destinations) \cap {Newer} : i \in DOMAIN s}
    BY OfAccess, AccessWarned
  <2> QED BY <2>1, WarnsOfNone
<1>5. ASSUME NEW a \in AccessRule, NEW id \in Nat \ {NoId}
      PROVE  WithId(AccessBody[a], id) \in Known
  <2> DEFINE e == WithId(AccessBody[a], id)
  <2>1. e \in S
    BY AccessCarries DEF Carries
  <2>2. e.sources = UNION a.sources /\ e.destinations = UNION a.destinations
    BY DEF WithId, AccessBody
  <2>3. /\ UNION a.sources \in SUBSET accessPolicySourceBuckets
        /\ UNION a.destinations \in SUBSET accessPolicyDestinationBuckets
    <3>1. /\ a.sources \in Blocks(accessPolicySourceBuckets)
          /\ a.destinations \in Blocks(accessPolicyDestinationBuckets)
      BY DEF AccessRule
    <3> QED BY <3>1, BlockFacts
  <2>4. /\ Newer \notin accessPolicySourceBuckets
        /\ Newer \notin accessPolicyDestinationBuckets
    BY DEF Newer, accessPolicySourceBuckets, accessPolicyDestinationBuckets
  <2> HIDE DEF e
  <2>5. e \in Known
    BY <2>1, <2>2, <2>3, <2>4 DEF Quiet
  <2> QED BY <2>5 DEF e
<1>6. \A a \in AccessRule : \A id \in Nat :
        WithId(a, id) \in AccessAccepted => a \in AccessAccepted
  BY AccessFields DEF AccessAccepted, AccessClean
<1>7. ASSUME NEW s \in Seq(S), \A i \in 1..Len(s) : s[i] \in Known
      PROVE  \/ \A i \in 1..Len(s) : AccessBody[AccessShown[s[i]]] = s[i]
             \/ k = "access_policy"
                  /\ \E i \in DOMAIN s : s[i].conditions \ {"datetime"} # {}
  <2>1. \A i \in 1..Len(s) : s[i] \in S
    OBVIOUS
  <2>2. ASSUME NEW i \in 1..Len(s), s[i].conditions \ {"datetime"} = {}
        PROVE  AccessBody[AccessShown[s[i]]] = s[i]
    BY <1>7, <2>1, <2>2, AccessKept DEF Quiet
  <2> QED BY <2>2
<1>8. ASSUME NEW c, NEW p \in Seq(AccessRule), NEW i \in DOMAIN p, p[i] \notin AccessAccepted
      PROVE  RefusedAtPlan(k, c, p)
  <2>1. p[i] \in AccessRule
    OBVIOUS
  <2>2. resourceAccessPolicyCustomizeDiff(p)
    BY <1>8, <2>1 DEF resourceAccessPolicyCustomizeDiff, AccessAccepted, AccessClean
  <2> QED BY <2>2, OfAccess
<1> HIDE DEF S, Known
<1>9. Policy(k, AccessRule, S, AccessBody, AccessShown, AccessAccepted, Known)
  BY <1>1, <1>2, <1>3, <1>4, <1>5, <1>6, <1>7, <1>8 DEF Policy
<1> QED BY <1>9 DEF S, Known

LEMMA AccessSound ==
  ASSUME NEW k, k = "access_policy"
  PROVE  Sound(k)
<1>1. k \in Policies
  BY DEF Policies
<1>2. GivesBack(AccessRule, AccessBody, AccessShown, AccessAccepted)
  BY AccessGivesBack DEF AccessAccepted
<1>3. Plans(k) /\ Writes(k) /\ Reads(k) /\ Settles(k) /\ Keeps(k) /\ Clears(k)
  BY <1>1, <1>2, AccessIsPolicy, AccessCarries, RulesHaveIds, PolicySound
<1>4. Accepts(k)
  BY OfAccess DEF Accepts
<1> QED BY <1>3, <1>4 DEF Sound

(* What a read warns of.                                                   *)
LEMMA HttpsWarned ==
  ASSUME NEW s \in Seq(StoredHttpsRule)
  PROVE  unknownHttpsInspectionBucketTypes(HttpsInspectionAnswer(s))
           = UNION {(s[i].sources \cup s[i].destinations) \cap {Newer} : i \in DOMAIN s}
<1> DEFINE a == HttpsInspectionAnswer(s)
           W(x) == (HasValues(x.sources) \ httpsInspectionSourceBuckets)
                     \cup (HasValues(x.destinations) \ httpsInspectionDestinationBuckets)
           N(e) == (e.sources \cup e.destinations) \cap {Newer}
<1>1. DOMAIN a = DOMAIN s
  BY DEF HttpsInspectionAnswer
<1>2. ASSUME NEW i \in DOMAIN s PROVE W(a[i]) = N(s[i])
  <2>1. /\ a[i].sources = Canonical(httpsInspectionSourceBuckets, s[i].sources)
        /\ a[i].destinations
             = Canonical(httpsInspectionDestinationBuckets, s[i].destinations)
    BY DEF HttpsInspectionAnswer
  <2>2. /\ HasValues(a[i].sources)
             = (httpsInspectionSourceBuckets \cup {Newer}) \cap s[i].sources
        /\ HasValues(a[i].destinations)
             = (httpsInspectionDestinationBuckets \cup {Newer}) \cap s[i].destinations
    BY <2>1, CanonicalFacts
  <2>3. /\ Newer \notin httpsInspectionSourceBuckets
        /\ Newer \notin httpsInspectionDestinationBuckets
    BY DEF Newer, httpsInspectionSourceBuckets, httpsInspectionDestinationBuckets
  <2> QED BY <2>2, <2>3
<1>3. unknownHttpsInspectionBucketTypes(a) = UNION {W(a[i]) : i \in DOMAIN a}
  BY DEF unknownHttpsInspectionBucketTypes
<1> HIDE DEF a, W, N
<1>4. UNION {W(a[i]) : i \in DOMAIN a} = UNION {N(s[i]) : i \in DOMAIN s}
  BY <1>1, <1>2
<1> QED BY <1>3, <1>4 DEF a, N

HttpsAccepted == {a \in HttpsClean : ~NeverInspectable(a)}

LEMMA HttpsIsPolicy ==
  ASSUME NEW k, k = "https_inspection_policy"
  PROVE  Policy(k, HttpsRule, StoredHttpsRule, HttpsBody, HttpsShown, HttpsAccepted,
                Quiet(StoredHttpsRule))
<1> DEFINE S == StoredHttpsRule
           Known == Quiet(S)
<1>1. /\ \A d : Recordable(k, d) <=> d \in Seq(HttpsRule)
      /\ \A d : Storable(k, d) <=> d \in Seq(S) /\ Unshared(d)
      /\ \A d : Rules(k, d) = Len(d) /\ RulesOf(k, d) = d
      /\ \A c, prior : PlanFor(k, c, prior) = PlanRules(c, Prior(prior, <<>>))
      /\ \A s, b : Written(k, s, b) = Numbered(b, IdsOf(s))
      /\ \A s : Cleared(k, s) = <<>>
  BY OfHttps
<1>2. \A prior : \A p \in Seq(HttpsRule) : Body(k, prior, p) = OneByOne(p, HttpsBody)
  BY OfHttps, HttpsSent
<1>3. \A s \in Seq(S) : \A prior, keys :
        Readings(k, s, prior, keys) = {OneByOne(s, HttpsShown)}
  BY OfHttps, HttpsRead
<1>4. ASSUME NEW s \in Seq(S)
      PROVE  WarnedOf(k, s) = {} <=> \A i \in 1..Len(s) : s[i] \in Known
  <2>1. WarnedOf(k, s) =
          UNION {(s[i].sources \cup s[i].destinations) \cap {Newer} : i \in DOMAIN s}
    BY OfHttps, HttpsWarned
  <2> QED BY <2>1, WarnsOfNone
<1>5. ASSUME NEW a \in HttpsRule, NEW id \in Nat \ {NoId}
      PROVE  WithId(HttpsBody[a], id) \in Known
  <2> DEFINE e == WithId(HttpsBody[a], id)
  <2>1. e \in S
    BY HttpsCarries DEF Carries
  <2>2. e.sources = UNION a.sources /\ e.destinations = UNION a.destinations
    BY DEF WithId, HttpsBody
  <2>3. /\ UNION a.sources \in SUBSET httpsInspectionSourceBuckets
        /\ UNION a.destinations \in SUBSET httpsInspectionDestinationBuckets
    <3>1. /\ a.sources \in Blocks(httpsInspectionSourceBuckets)
          /\ a.destinations \in Blocks(httpsInspectionDestinationBuckets)
      BY DEF HttpsRule
    <3> QED BY <3>1, BlockFacts
  <2>4. /\ Newer \notin httpsInspectionSourceBuckets
        /\ Newer \notin httpsInspectionDestinationBuckets
    BY DEF Newer, httpsInspectionSourceBuckets, httpsInspectionDestinationBuckets
  <2> HIDE DEF e
  <2>5. e \in Known
    BY <2>1, <2>2, <2>3, <2>4 DEF Quiet
  <2> QED BY <2>5 DEF e
<1>6. \A a \in HttpsRule : \A id \in Nat :
        WithId(a, id) \in HttpsAccepted => a \in HttpsAccepted
  BY HttpsFields DEF HttpsAccepted, HttpsClean, NeverInspectable
<1>7. ASSUME NEW s \in Seq(S), \A i \in 1..Len(s) : s[i] \in Known
      PROVE  \/ \A i \in 1..Len(s) : HttpsBody[HttpsShown[s[i]]] = s[i]
             \/ k = "access_policy"
                  /\ \E i \in DOMAIN s : s[i].conditions \ {"datetime"} # {}
  <2>1. \A i \in 1..Len(s) : s[i] \in S
    OBVIOUS
  <2>2. ASSUME NEW i \in 1..Len(s) PROVE HttpsBody[HttpsShown[s[i]]] = s[i]
    BY <1>7, <2>1, HttpsKept DEF Quiet
  <2> QED BY <2>2
<1>8. ASSUME NEW c, NEW p \in Seq(HttpsRule), NEW i \in DOMAIN p, p[i] \notin HttpsAccepted
      PROVE  RefusedAtPlan(k, c, p)
  <2>1. p[i] \in HttpsRule
    OBVIOUS
  <2>2. resourceHttpsInspectionPolicyCustomizeDiff(p)
    BY <1>8, <2>1 DEF resourceHttpsInspectionPolicyCustomizeDiff, HttpsAccepted, HttpsClean
  <2> QED BY <2>2, OfHttps
<1> HIDE DEF S, Known
<1>9. Policy(k, HttpsRule, S, HttpsBody, HttpsShown, HttpsAccepted, Known)
  BY <1>1, <1>2, <1>3, <1>4, <1>5, <1>6, <1>7, <1>8 DEF Policy
<1> QED BY <1>9 DEF S, Known

LEMMA HttpsSound ==
  ASSUME NEW k, k = "https_inspection_policy"
  PROVE  Sound(k)
<1>1. k \in Policies
  BY DEF Policies
<1>2. GivesBack(HttpsRule, HttpsBody, HttpsShown, HttpsAccepted)
  <2>1. ASSUME NEW a \in HttpsAccepted, NEW id \in Nat
        PROVE  WithId(a, id) \in HttpsAccepted
    BY HttpsFields DEF HttpsAccepted, HttpsClean, NeverInspectable
  <2>2. HttpsAccepted \subseteq HttpsClean /\ HttpsClean \subseteq HttpsRule
    BY DEF HttpsAccepted, HttpsClean
  <2> QED BY <2>1, <2>2, HttpsGivesBack DEF GivesBack
<1>3. Plans(k) /\ Writes(k) /\ Reads(k) /\ Settles(k) /\ Keeps(k) /\ Clears(k)
  BY <1>1, <1>2, HttpsIsPolicy, HttpsCarries, RulesHaveIds, PolicySound
<1>4. Accepts(k)
  <2> SUFFICES ASSUME NEW c, NEW prior, Configurable(k, c), Before(k, prior),
                      Refuses(k, Body(k, prior, PlanFor(k, c, prior)))
               PROVE  RefusedAtPlan(k, c, PlanFor(k, c, prior))
    BY DEF Accepts
  <2> DEFINE p == PlanFor(k, c, prior)
             b == OneByOne(p, HttpsBody)
  <2>1. p \in Seq(HttpsRule)
    BY <1>3, OfHttps DEF Plans
  <2>2. Body(k, prior, p) = b
    BY <2>1, OfHttps, HttpsSent
  <2>3. DOMAIN b = 1..Len(p) /\ \A i \in 1..Len(p) : b[i] = HttpsBody[p[i]]
    BY DEF OneByOne
  <2>4. \A i \in 1..Len(p) : p[i] \in HttpsRule /\ i \in DOMAIN p
    BY <2>1
  <2> HIDE DEF p, b
  <2>5. PICK i \in 1..Len(p) : NeverInspectable(b[i])
    BY <2>2, <2>3, OfHttps DEF p
  <2>6. b[i].action = p[i].action /\ b[i].applied_on = p[i].applied_on
    <3>1. \A a \in HttpsRule : /\ HttpsBody[a].action = a.action
                               /\ HttpsBody[a].applied_on = a.applied_on
      BY DEF HttpsBody
    <3>2. p[i] \in HttpsRule /\ b[i] = HttpsBody[p[i]]
      BY <2>3, <2>4
    <3> QED BY <3>1, <3>2
  <2>7. NeverInspectable(p[i])
    BY <2>5, <2>6 DEF NeverInspectable
  <2>8. resourceHttpsInspectionPolicyCustomizeDiff(p)
    BY <2>4, <2>7 DEF resourceHttpsInspectionPolicyCustomizeDiff
  <2> QED BY <2>8, OfHttps DEF p
<1> QED BY <1>3, <1>4 DEF Sound

(* The firewall policy has a switch besides its rules.                     *)
Firewall(e, r) == [enabled |-> e, rules |-> r]

LEMMA FirewallParts ==
  /\ \A e, r : Firewall(e, r).enabled = e /\ Firewall(e, r).rules = r
  /\ \A S : \A d \in [enabled : BOOLEAN, rules : S] :
       /\ d = Firewall(d.enabled, d.rules) /\ d.enabled \in BOOLEAN /\ d.rules \in S
       /\ \A x : [d EXCEPT !.rules = x] = Firewall(d.enabled, x)
  /\ \A e, r, x : [Firewall(e, r) EXCEPT !.rules = x] = Firewall(e, x)
  /\ \A S : \A e \in BOOLEAN : \A r \in S :
       Firewall(e, r) \in [enabled : BOOLEAN, rules : S]
BY DEF Firewall

LEMMA FirewallIs ==
  ASSUME NEW k, k = "firewall_policy"
  PROVE  /\ \A c, prior : Recordable(k, c) =>
              PlanFor(k, c, prior) =
                Firewall(c.enabled, PlanRules(c.rules, Prior(prior, NoPolicy).rules))
         /\ \A prior, p : Recordable(k, p) =>
              Body(k, prior, p) = Firewall(p.enabled, OneByOne(p.rules, FirewallBody))
         /\ \A s, e, b :
              Written(k, s, Firewall(e, b)) = Firewall(e, Numbered(b, IdsOf(s.rules)))
         /\ \A s, prior, keys : Storable(k, s) =>
              Readings(k, s, prior, keys) =
                {Firewall(s.enabled, OneByOne(s.rules, FirewallShown))}
<1>1. ASSUME NEW c, NEW prior, Recordable(k, c)
      PROVE  PlanFor(k, c, prior) =
               Firewall(c.enabled, PlanRules(c.rules, Prior(prior, NoPolicy).rules))
  <2>1. c \in [enabled : BOOLEAN, rules : Seq(FirewallRule)]
    BY <1>1, OfFirewall
  <2>2. \A x : [c EXCEPT !.rules = x] = Firewall(c.enabled, x)
    BY <2>1, FirewallParts
  <2> QED BY <2>2, OfFirewall
<1>2. ASSUME NEW prior, NEW p, Recordable(k, p)
      PROVE  Body(k, prior, p) = Firewall(p.enabled, OneByOne(p.rules, FirewallBody))
  <2>1. p \in [enabled : BOOLEAN, rules : Seq(FirewallRule)]
    BY <1>2, OfFirewall
  <2>2. \A x : [p EXCEPT !.rules = x] = Firewall(p.enabled, x)
    BY <2>1, FirewallParts
  <2>3. p.rules \in Seq(FirewallRule)
    BY <2>1
  <2>4. [i \in DOMAIN p.rules |-> buildGranularFirewallPolicyRule(p.rules[i])]
          = OneByOne(p.rules, FirewallBody)
    BY <2>3, FirewallSent
  <2>5. Body(k, prior, p) =
          [p EXCEPT !.rules =
             [i \in DOMAIN p.rules |-> buildGranularFirewallPolicyRule(p.rules[i])]]
    BY OfFirewall
  <2> QED BY <2>2, <2>4, <2>5
<1>3. \A s, e, b :
        Written(k, s, Firewall(e, b)) = Firewall(e, Numbered(b, IdsOf(s.rules)))
  <2> SUFFICES ASSUME NEW s, NEW e, NEW b
               PROVE  Written(k, s, Firewall(e, b)) =
                        Firewall(e, Numbered(b, IdsOf(s.rules)))
    OBVIOUS
  <2> DEFINE d == Firewall(e, b)
  <2>1. d.rules = b /\ \A x : [d EXCEPT !.rules = x] = Firewall(e, x)
    BY FirewallParts
  <2> HIDE DEF d
  <2>2. Written(k, s, d) = [d EXCEPT !.rules = Numbered(d.rules, IdsOf(s.rules))]
    BY OfFirewall
  <2>3. Written(k, s, d) = Firewall(e, Numbered(b, IdsOf(s.rules)))
    BY <2>1, <2>2
  <2> QED BY <2>3 DEF d
<1>4. ASSUME NEW s, NEW prior, NEW keys, Storable(k, s)
      PROVE  Readings(k, s, prior, keys) =
               {Firewall(s.enabled, OneByOne(s.rules, FirewallShown))}
  <2>1. s \in [enabled : BOOLEAN, rules : Seq(StoredFirewallRule)]
    BY <1>4, OfFirewall
  <2>2. flattenFirewallPolicyRules(decodeGranularFirewallPolicy(s).rules)
          = OneByOne(s.rules, FirewallShown)
    BY <2>1, FirewallRead
  <2> QED BY <2>2, OfFirewall DEF Firewall
<1> QED BY <1>1, <1>2, <1>3, <1>4

LEMMA FirewallChecks ==
  ASSUME NEW p \in Seq(FirewallRule), NEW i \in DOMAIN p, p[i] \notin FirewallClean,
         p[i].sources # {{}}, p[i].destinations # {{}}
  PROVE  validateFirewallPolicyRules(p)
<1>1. p[i] \in FirewallRule
  OBVIOUS
<1> DEFINE s == p[i].sources
           d == p[i].destinations
<1>2. s \in Blocks(firewallEndpointLists) /\ d \in Blocks(firewallEndpointLists)
  BY <1>1 DEF FirewallRule
<1>3. firewallPolicyRuleEndpointLists(s) = UNION s /\ firewallPolicyRuleEndpointLists(d) = UNION d
  BY <1>2, BlockFacts DEF firewallPolicyRuleEndpointLists, policySingleBlock
<1>4. ~Allowed(UNION s) \/ ~Allowed(UNION d)
  BY <1>1 DEF FirewallClean
<1> QED BY <1>3, <1>4 DEF validateFirewallPolicyRules, Allowed

LEMMA FirewallBodies ==
  ASSUME NEW p \in Seq(FirewallRule), NEW b, b = OneByOne(p, FirewallBody), NEW e
  PROVE  FirewallRefuses(Firewall(e, b)) <=> ~Apart(b, Len(p))
<1> DEFINE n == Len(p)
<1>1. DOMAIN b = 1..n /\ \A i \in 1..n : b[i] = FirewallBody[p[i]] /\ p[i] \in FirewallRule
  BY DEF OneByOne
<1>2. ASSUME NEW i \in 1..n
      PROVE  /\ b[i].id \in Nat /\ "id" \in DOMAIN b[i]
             /\ b[i].sources = toSDK(UNION p[i].sources)
             /\ b[i].destinations = toSDK(UNION p[i].destinations)
  <2>1. ASSUME NEW a \in FirewallRule
        PROVE  /\ FirewallBody[a].id \in Nat /\ "id" \in DOMAIN FirewallBody[a]
               /\ FirewallBody[a].sources = toSDK(UNION a.sources)
               /\ FirewallBody[a].destinations = toSDK(UNION a.destinations)
    BY DEF FirewallBody, FirewallRule
  <2>2. b[i] = FirewallBody[p[i]] /\ p[i] \in FirewallRule
    BY <1>1
  <2> QED BY <2>1, <2>2
<1>3. \A x : ~("addresses" \in toSDK(x) /\ toSDK(x) \cap {"users", "groups"} # {})
  BY DEF toSDK
<1>4. FirewallRefuses(Firewall(e, b)) <=>
        \/ \E i \in DOMAIN b :
             \E lists \in {b[i].sources, b[i].destinations} :
               "addresses" \in lists /\ lists \cap {"users", "groups"} # {}
        \/ \E i, j \in DOMAIN b : i # j /\ b[i].id = b[j].id /\ b[i].id # NoId
  BY FirewallParts DEF FirewallRefuses
<1>5. ~\E i \in DOMAIN b :
         \E lists \in {b[i].sources, b[i].destinations} :
           "addresses" \in lists /\ lists \cap {"users", "groups"} # {}
  <2> DEFINE Mixed(x) == "addresses" \in x /\ x \cap {"users", "groups"} # {}
  <2>1. \A x : ~Mixed(toSDK(x))
    BY <1>3
  <2> HIDE DEF Mixed
  <2>2. ASSUME NEW i \in 1..n PROVE ~Mixed(b[i].sources) /\ ~Mixed(b[i].destinations)
    <3>1. ~Mixed(toSDK(UNION p[i].sources)) /\ ~Mixed(toSDK(UNION p[i].destinations))
      BY <2>1
    <3> QED BY <1>2, <3>1
  <2>3. ~\E i \in DOMAIN b : \E lists \in {b[i].sources, b[i].destinations} : Mixed(lists)
    BY <1>1, <2>2
  <2> QED BY <2>3 DEF Mixed
<1> HIDE DEF n
<1>6. (\E i, j \in DOMAIN b : i # j /\ b[i].id = b[j].id /\ b[i].id # NoId)
        <=> ~Apart(b, n)
  BY <1>1, <1>2 DEF Apart
<1> QED BY <1>4, <1>5, <1>6 DEF n

LEMMA FirewallSound ==
  ASSUME NEW k, k = "firewall_policy"
  PROVE  Sound(k)
<1> DEFINE T == FirewallRule
           S == StoredFirewallRule
           B == FirewallBody
           V == FirewallShown
<1>1. k \in Numbering /\ k \notin Policies /\ k # "access_policy"
  BY DEF Numbering, Policies
<1>2. /\ Carries(T, S, B, V) /\ HasIds(T) /\ GivesBack(T, B, V, FirewallClean)
  BY FirewallCarries, RulesHaveIds, FirewallGivesBack
<1>3. /\ \A d : Recordable(k, d) =>
           d = Firewall(d.enabled, d.rules) /\ d.enabled \in BOOLEAN /\ d.rules \in Seq(T)
      /\ \A e \in BOOLEAN : \A r \in Seq(T) : Recordable(k, Firewall(e, r))
      /\ \A d : Storable(k, d) =>
           /\ d = Firewall(d.enabled, d.rules) /\ d.enabled \in BOOLEAN
           /\ d.rules \in Seq(S) /\ Unshared(d.rules)
      /\ \A e \in BOOLEAN : \A r \in Seq(S) :
           Unshared(r) => Storable(k, Firewall(e, r))
      /\ \A d : Rules(k, d) = Len(d.rules) /\ RulesOf(k, d) = d.rules
  <2> DEFINE Docs(L) == [enabled : BOOLEAN, rules : L]
  <2>1. /\ \A L : \A d \in Docs(L) :
             d = Firewall(d.enabled, d.rules) /\ d.enabled \in BOOLEAN /\ d.rules \in L
        /\ \A L : \A e \in BOOLEAN : \A r \in L : Firewall(e, r) \in Docs(L)
        /\ \A e, r : Firewall(e, r).rules = r
    BY FirewallParts
  <2>2. /\ \A d : Recordable(k, d) <=> d \in Docs(Seq(T))
        /\ \A d : Storable(k, d) <=> d \in Docs(Seq(S)) /\ Unshared(d.rules)
        /\ \A d : Rules(k, d) = Len(d.rules) /\ RulesOf(k, d) = d.rules
    BY OfFirewall
  <2> HIDE DEF Docs, T, S
  <2>3. \A d : Recordable(k, d) =>
          d = Firewall(d.enabled, d.rules) /\ d.enabled \in BOOLEAN /\ d.rules \in Seq(T)
    BY <2>1, <2>2
  <2>4. \A e \in BOOLEAN : \A r \in Seq(T) : Recordable(k, Firewall(e, r))
    BY <2>1, <2>2
  <2>5. \A d : Storable(k, d) =>
           /\ d = Firewall(d.enabled, d.rules) /\ d.enabled \in BOOLEAN
           /\ d.rules \in Seq(S) /\ Unshared(d.rules)
    BY <2>1, <2>2
  <2>6. \A e \in BOOLEAN : \A r \in Seq(S) :
           Unshared(r) => Storable(k, Firewall(e, r))
    BY <2>1, <2>2
  <2> QED BY <2>2, <2>3, <2>4, <2>5, <2>6
<1> HIDE DEF T, S, B, V
<1>4. \A e, r : Firewall(e, r).enabled = e /\ Firewall(e, r).rules = r
  BY FirewallParts
<1>5. ASSUME NEW prior, Before(k, prior), NEW r, r = Prior(prior, NoPolicy).rules
      PROVE  r \in Seq(T) /\ Unshared(r)
  <2>1. CASE prior = {}
    <3>1. Prior(prior, NoPolicy) = NoPolicy
      BY <2>1, PriorOf
    <3>2. r = <<>>
      BY <1>5, <3>1 DEF NoPolicy
    <3> QED BY <3>2 DEF Unshared
  <2>2. ASSUME NEW x, prior = {x}, Recordable(k, x) PROVE r \in Seq(T) /\ Unshared(r)
    <3>1. Prior(prior, NoPolicy) = x
      BY <2>2, PriorOf
    <3>2. RulesOf(k, x) = x.rules /\ Unshared(RulesOf(k, x))
      BY <1>1, <1>3, <1>5, <2>2 DEF Before
    <3>3. x.rules \in Seq(T)
      BY <1>3, <2>2
    <3> QED BY <1>5, <3>1, <3>2, <3>3
  <2> QED BY <1>5, <2>1, <2>2 DEF Before
<1>6. ASSUME NEW c, NEW prior, Configurable(k, c), Before(k, prior),
             NEW p, p = PlanFor(k, c, prior),
             NEW r, r = Prior(prior, NoPolicy).rules
      PROVE  /\ Recordable(k, c) /\ c.rules \in Seq(T) /\ c.enabled \in BOOLEAN
             /\ r \in Seq(T) /\ Unshared(r)
             /\ p = Firewall(c.enabled, PlanRules(c.rules, r))
             /\ p.enabled = c.enabled /\ p.rules = PlanRules(c.rules, r)
             /\ p.rules \in Seq(T) /\ Len(p.rules) = Len(c.rules)
             /\ Recordable(k, p)
  <2>1. Recordable(k, c)
    BY <1>6 DEF Configurable
  <2>2. c.rules \in Seq(T) /\ c.enabled \in BOOLEAN
    BY <1>3, <2>1
  <2>3. p = Firewall(c.enabled, PlanRules(c.rules, r))
    BY <1>6, <2>1, FirewallIs
  <2>4. r \in Seq(T) /\ Unshared(r)
    BY <1>5, <1>6
  <2>5. PlanRules(c.rules, r) \in Seq(T) /\ Len(PlanRules(c.rules, r)) = Len(c.rules)
    BY <1>2, <2>2, <2>4, PlanRulesFacts
  <2>6. p.enabled = c.enabled /\ p.rules = PlanRules(c.rules, r)
    BY <1>4, <2>3
  <2>7. Recordable(k, p)
    BY <1>3, <2>2, <2>3, <2>5
  <2> QED BY <2>1, <2>2, <2>3, <2>4, <2>5, <2>6, <2>7
<1>7. Plans(k)
  BY <1>6 DEF Plans
<1>8. ASSUME NEW prior, NEW p, Recordable(k, p)
      PROVE  /\ Body(k, prior, p) = Firewall(p.enabled, OneByOne(p.rules, B))
             /\ Refuses(k, Body(k, prior, p))
                  <=> ~Apart(OneByOne(p.rules, B), Len(p.rules))
  <2>1. Body(k, prior, p) = Firewall(p.enabled, OneByOne(p.rules, B))
    BY <1>8, FirewallIs DEF B
  <2>2. p.rules \in Seq(T)
    BY <1>3, <1>8
  <2>3. FirewallRefuses(Firewall(p.enabled, OneByOne(p.rules, B)))
          <=> ~Apart(OneByOne(p.rules, B), Len(p.rules))
    BY <2>2, FirewallBodies DEF B, T
  <2> QED BY <2>1, <2>3, OfFirewall
<1>9. ASSUME NEW c, NEW prior, NEW s, Configurable(k, c), Before(k, prior),
             Storable(k, s), Fits(k, c, s), Accepted(k, prior, PlanFor(k, c, prior)),
             NEW p, p = PlanFor(k, c, prior), NEW w, w = Outcome(k, c, prior, s)
      PROVE  /\ w = Firewall(c.enabled, w.rules) /\ w.enabled = c.enabled
             /\ w.rules \in Seq(S) /\ Len(w.rules) = Len(p.rules) /\ Unshared(w.rules)
             /\ \A i \in 1..Len(p.rules) :
                  w.rules[i] = WithId(B[p.rules[i]], w.rules[i].id)
             /\ \A i \in 1..Len(p.rules) :
                  p.rules[i].id # NoId => w.rules[i].id = p.rules[i].id
  <2> DEFINE n == p.rules
             b == OneByOne(n, B)
             used == IdsOf(s.rules)
             q == Numbered(b, used)
  <2>1. /\ n \in Seq(T) /\ Len(n) = Len(c.rules) /\ Recordable(k, p)
        /\ p.enabled = c.enabled
    BY <1>6, <1>9
  <2>2. s.rules \in Seq(S)
    BY <1>3, <1>9
  <2>3. /\ IsFiniteSet(used) /\ Cardinality(used) \in Nat
        /\ Cardinality(used) <= Len(s.rules)
    BY <2>2, IdsOfFacts
  <2>4. IsFiniteSet(Ids) => Cardinality(used) + Len(n) <= Cardinality(Ids)
    <3> SUFFICES ASSUME IsFiniteSet(Ids)
                 PROVE  Cardinality(used) + Len(n) <= Cardinality(Ids)
      OBVIOUS
    <3>1. Rules(k, s) + Rules(k, c) <= Cardinality(Ids)
      BY <1>1, <1>9 DEF Fits
    <3>2. Len(s.rules) + Len(n) <= Cardinality(Ids)
      BY <1>3, <2>1, <3>1
    <3>3. Cardinality(Ids) \in Nat
      BY FS_CardinalityType
    <3>4. Len(s.rules) \in Nat /\ Len(n) \in Nat
      BY <2>1, <2>2
    <3> HIDE DEF used, n
    <3> QED BY <2>3, <3>2, <3>3, <3>4
  <2>5. Apart(b, Len(n))
    BY <1>8, <1>9, <2>1 DEF Accepted
  <2>6. Body(k, prior, p) = Firewall(c.enabled, b)
    BY <1>8, <2>1
  <2>7. w = Firewall(c.enabled, q)
    BY <1>9, <2>6, FirewallIs DEF Outcome
  <2>8. w.enabled = c.enabled /\ w.rules = q
    BY <1>4, <2>7
  <2> HIDE DEF q, used, b, n
  <2>9. /\ q \in Seq(S) /\ Len(q) = Len(n) /\ Unshared(q)
        /\ \A i \in 1..Len(n) : q[i] = WithId(B[n[i]], q[i].id)
        /\ \A i \in 1..Len(n) : n[i].id # NoId => q[i].id = n[i].id
    BY <1>2, <2>1, <2>3, <2>4, <2>5, RulesWritten DEF q, b
  <2> QED BY <2>7, <2>8, <2>9 DEF n
<1>10. Writes(k)
  <2> SUFFICES ASSUME NEW c, NEW prior, NEW s, Configurable(k, c), Before(k, prior),
                      Storable(k, s), Fits(k, c, s),
                      Accepted(k, prior, PlanFor(k, c, prior)),
                      NEW w, w = Outcome(k, c, prior, s)
               PROVE  Storable(k, w) /\ WarnedOf(k, w) = {} /\ Rules(k, w) = Rules(k, c)
    BY DEF Writes
  <2> DEFINE p == PlanFor(k, c, prior)
  <2>1. c.enabled \in BOOLEAN /\ Len(p.rules) = Len(c.rules)
    BY <1>6
  <2> HIDE DEF p
  <2>2. /\ w = Firewall(c.enabled, w.rules) /\ w.rules \in Seq(S)
        /\ Len(w.rules) = Len(p.rules) /\ Unshared(w.rules)
    BY <1>9 DEF p
  <2>3. Storable(k, w)
    BY <1>3, <2>1, <2>2
  <2>4. Rules(k, w) = Len(w.rules) /\ Rules(k, c) = Len(c.rules)
    BY <1>3
  <2> QED BY <2>1, <2>2, <2>3, <2>4, OfFirewall
<1>11. ASSUME NEW s, Storable(k, s), NEW v, v = Firewall(s.enabled, OneByOne(s.rules, V))
       PROVE  /\ Recordable(k, v) /\ Unshared(v.rules)
              /\ v.enabled = s.enabled /\ v.rules = OneByOne(s.rules, V)
              /\ v.rules \in Seq(T)
              /\ Shows(k, s, v)
              /\ \A x : Shows(k, s, x) => x = v
  <2>1. s.enabled \in BOOLEAN /\ s.rules \in Seq(S) /\ Unshared(s.rules)
    BY <1>3, <1>11
  <2>2. OneByOne(s.rules, V) \in Seq(T) /\ Unshared(OneByOne(s.rules, V))
    BY <1>2, <2>1, RulesRead
  <2>3. \A prior, keys : Readings(k, s, prior, keys) = {v}
    BY <1>11, FirewallIs DEF V
  <2>4. v.enabled = s.enabled /\ v.rules = OneByOne(s.rules, V)
    BY <1>4, <1>11
  <2>5. Recordable(k, v)
    BY <1>3, <1>11, <2>1, <2>2
  <2>6. Shows(k, s, v)
    BY <2>3 DEF Shows
  <2>7. \A x : Shows(k, s, x) => x = v
    BY <2>3, ShownIs
  <2> QED BY <2>2, <2>4, <2>5, <2>6, <2>7
<1>12. Reads(k)
  BY <1>3, <1>11 DEF Reads
<1>13. Settles(k)
  <2> SUFFICES ASSUME NEW c, NEW prior, NEW s, NEW v, Configurable(k, c),
                      Before(k, prior), Storable(k, s), Fits(k, c, s),
                      Accepted(k, prior, PlanFor(k, c, prior)),
                      NEW w, w = Outcome(k, c, prior, s), Shows(k, w, v),
                      ~Spelled(k, c)
               PROVE  PlanFor(k, c, {v}) = v
    BY DEF Settles
  <2> DEFINE p == PlanFor(k, c, prior)
             r == Prior(prior, NoPolicy).rules
  <2>1. /\ Recordable(k, c) /\ c.rules \in Seq(T) /\ c.enabled \in BOOLEAN
        /\ r \in Seq(T) /\ p.rules = PlanRules(c.rules, r)
        /\ p.rules \in Seq(T) /\ Len(p.rules) = Len(c.rules)
    BY <1>6
  <2>2. ~validateFirewallPolicyRules(p.rules)
    BY OfFirewall DEF Accepted
  <2>3. /\ w = Firewall(c.enabled, w.rules) /\ w.enabled = c.enabled
        /\ w.rules \in Seq(S) /\ Len(w.rules) = Len(p.rules)
        /\ \A i \in 1..Len(p.rules) :
             w.rules[i] = WithId(B[p.rules[i]], w.rules[i].id)
        /\ \A i \in 1..Len(p.rules) :
             p.rules[i].id # NoId => w.rules[i].id = p.rules[i].id
    BY <1>9
  <2>4. Storable(k, w)
    BY <1>10 DEF Writes
  <2> DEFINE n == p.rules
             a == c.rules
  <2> HIDE DEF p, r, n, a
  <2>5. ASSUME NEW i \in DOMAIN a PROVE a[i] \in FirewallClean
    <3>1. /\ n \in Seq(T) /\ Len(n) = Len(a) /\ a \in Seq(T)
          /\ \A j \in 1..Len(a) :
               n[j] = WithId(a[j], IF a[j].id # NoId THEN a[j].id ELSE IdAt(r, j))
          /\ \A j \in 1..Len(a) :
               n[j].id = IF a[j].id # NoId THEN a[j].id ELSE IdAt(r, j)
      BY <1>2, <2>1, PlanRulesFacts DEF n, a
    <3>2. i \in 1..Len(a) /\ i \in DOMAIN n /\ a[i] \in T /\ n[i] \in T
      BY <3>1
    <3>3. n[i] = WithId(a[i], n[i].id) /\ n[i].id \in Nat
      BY <1>2, <3>1, <3>2 DEF HasIds
    <3>4. /\ n[i].sources = a[i].sources /\ n[i].destinations = a[i].destinations
          /\ n[i] \in FirewallClean => a[i] \in FirewallClean
      <4> DEFINE x == a[i]
                 id == n[i].id
                 y == n[i]
      <4>1. x \in FirewallRule /\ id \in Nat /\ y = WithId(x, id)
        BY <3>2, <3>3 DEF T
      <4> HIDE DEF x, y, id
      <4>2. y.sources = x.sources /\ y.destinations = x.destinations
        BY <4>1, FirewallFields
      <4>3. y \in FirewallClean => x \in FirewallClean
        BY <4>1, <4>2 DEF FirewallClean
      <4> QED BY <4>2, <4>3 DEF x, y
    <3>5. a[i].sources # {{}} /\ a[i].destinations # {{}}
      <4>1. {{}} \notin {c.rules[i].sources, c.rules[i].destinations}
        BY DEF Spelled, a
      <4> QED BY <4>1 DEF a
    <3>6. n[i] \in FirewallClean
      BY <2>2, <3>1, <3>2, <3>4, <3>5, FirewallChecks DEF n, T
    <3> QED BY <3>4, <3>6
  <2>6. v = Firewall(w.enabled, OneByOne(w.rules, V)) /\ v.rules = OneByOne(w.rules, V)
    BY <1>11, <2>4
  <2>7. PlanRules(a, v.rules) = v.rules
    <3> DEFINE q == w.rules
               x == v.rules
    <3>1. q \in Seq(S) /\ Len(q) = Len(n) /\ x = OneByOne(q, V)
      BY <2>3, <2>6 DEF n
    <3>2. \A i \in 1..Len(n) : q[i] = WithId(B[n[i]], q[i].id)
      BY <2>3 DEF n
    <3>3. \A i \in 1..Len(n) : n[i].id # NoId => q[i].id = n[i].id
      BY <2>3 DEF n
    <3>4. a \in Seq(T) /\ r \in Seq(T) /\ n = PlanRules(a, r)
      BY <2>1 DEF n, a
    <3>5. \A i \in DOMAIN a : a[i] \in FirewallClean
      BY <2>5
    <3> HIDE DEF q, x
    <3>6. PlanRules(a, x) = x
      BY <1>2, <3>1, <3>2, <3>3, <3>4, <3>5, RulesSettle, SMTT(60)
    <3> QED BY <3>6 DEF x
  <2>8. PlanFor(k, c, {v}) = Firewall(c.enabled, PlanRules(c.rules, v.rules))
    <3>1. Prior({v}, NoPolicy) = v
      BY PriorOf
    <3>2. PlanFor(k, c, {v}) =
            Firewall(c.enabled, PlanRules(c.rules, Prior({v}, NoPolicy).rules))
      BY <2>1, FirewallIs
    <3> QED BY <3>1, <3>2
  <2> QED BY <2>3, <2>6, <2>7, <2>8 DEF a
<1>14. Keeps(k)
  <2> SUFFICES ASSUME NEW c, NEW s, NEW v, Storable(k, s), Shows(k, s, v)
               PROVE  Effective(k, c, Written(k, s, Body(k, {v}, v))) = Effective(k, c, s)
    BY DEF Keeps
  <2> DEFINE q == s.rules
  <2>1. q \in Seq(S) /\ s = Firewall(s.enabled, q)
    BY <1>3
  <2>2. v = Firewall(s.enabled, OneByOne(q, V)) /\ Recordable(k, v)
        /\ v.enabled = s.enabled /\ v.rules = OneByOne(q, V)
    BY <1>11
  <2>3. Body(k, {v}, v) = Firewall(s.enabled, OneByOne(OneByOne(q, V), B))
    BY <1>8, <2>2
  <2>4. Written(k, s, Body(k, {v}, v)) =
          Firewall(s.enabled, Numbered(OneByOne(OneByOne(q, V), B), IdsOf(q)))
    BY <2>3, FirewallIs
  <2> HIDE DEF q
  <2>5. \A i \in DOMAIN q : B[V[q[i]]] = q[i]
    <3>1. \A i \in DOMAIN q : q[i] \in S
      BY <2>1
    <3> QED BY <3>1, FirewallKept DEF S, B, V
  <2>6. Numbered(OneByOne(OneByOne(q, V), B), IdsOf(q)) = q
    BY <1>2, <2>1, <2>5, RulesKept
  <2>7. Written(k, s, Body(k, {v}, v)) = s
    BY <2>1, <2>4, <2>6
  <2> QED BY <2>7
<1>15. Accepts(k)
  <2> SUFFICES ASSUME NEW c, NEW prior, Configurable(k, c), Before(k, prior),
                      NEW p, p = PlanFor(k, c, prior), Refuses(k, Body(k, prior, p))
               PROVE  IdsClash(k, c, p)
    BY DEF Accepts
  <2> DEFINE r == Prior(prior, NoPolicy).rules
             a == c.rules
             n == p.rules
  <2>1. /\ a \in Seq(T) /\ r \in Seq(T) /\ Unshared(r) /\ n = PlanRules(a, r)
        /\ n \in Seq(T) /\ Recordable(k, p)
    BY <1>6
  <2> HIDE DEF r, a, n
  <2>2. ~Apart(OneByOne(n, B), Len(n))
    BY <1>8, <2>1 DEF n
  <2>3. ~Apart(n, Len(n))
    BY <1>2, <2>1, <2>2, BodiesApart
  <2>4. \E i, j \in DOMAIN a : i # j /\ a[i].id # NoId /\ n[j].id = a[i].id
    BY <1>2, <2>1, <2>3, PlansApart
  <2> QED BY <2>4 DEF a, n, IdsClash
<1>16. Clears(k)
  <2> SUFFICES ASSUME NEW s, Storable(k, s), NEW x, x = Cleared(k, s)
               PROVE  /\ Storable(k, x) /\ WarnedOf(k, x) = {}
                      /\ Rules(k, x) \in {0, Rules(k, s)}
    BY DEF Clears
  <2>1. x = s \/ x = Firewall(s.enabled, <<>>)
    BY OfFirewall DEF Firewall
  <2>2. Storable(k, Firewall(s.enabled, <<>>)) /\ Rules(k, Firewall(s.enabled, <<>>)) = 0
    <3>1. <<>> \in Seq(S) /\ Unshared(<<>>) /\ Len(<<>>) = 0
      BY DEF Unshared
    <3> DEFINE e == s.enabled
               d == Firewall(e, <<>>)
    <3>2. e \in BOOLEAN
      BY <1>3
    <3>3. d.rules = <<>>
      BY <1>4
    <3> HIDE DEF e
    <3>4. Storable(k, d)
      BY <1>3, <3>1, <3>2
    <3> HIDE DEF d
    <3>5. Rules(k, d) = 0
      BY <1>3, <3>1, <3>3
    <3> QED BY <3>4, <3>5 DEF d, e
  <2> QED BY <2>1, <2>2, OfFirewall
<1> QED BY <1>7, <1>10, <1>12, <1>13, <1>14, <1>15, <1>16 DEF Sound

-----------------------------------------------------------------------------
(* Redundant pairs                                                         *)

SlotOf(id, remote, ip, key) ==
  [tunnel_id |-> id, remote_id |-> remote, remote_public_ip |-> ip,
   passphrase |-> key]

Pairs == [1..2 -> Slot(Texts)]

TunnelIds == {NoText, MemberIds[1], MemberIds[2]}

LEMMA MembersApart ==
  /\ MemberIds[1] # MemberIds[2]
  /\ \A m \in 1..2 : MemberIds[m] # NoText /\ MemberIds[m] \in TunnelIds
  /\ NoText \in TunnelIds
BY DEF MemberIds, NoText, TunnelIds

LEMMA SlotOfParts ==
  \A id, remote, ip, key :
    /\ SlotOf(id, remote, ip, key).tunnel_id = id
    /\ SlotOf(id, remote, ip, key).remote_id = remote
    /\ SlotOf(id, remote, ip, key).remote_public_ip = ip
    /\ SlotOf(id, remote, ip, key).passphrase = key
BY DEF SlotOf

LEMMA SlotParts ==
  ASSUME NEW s \in Slot(Texts)
  PROVE  /\ s = SlotOf(s.tunnel_id, s.remote_id, s.remote_public_ip, s.passphrase)
         /\ s.tunnel_id \in TunnelIds /\ s.remote_id \in Texts \cup {NoText}
         /\ s.remote_public_ip \in Texts /\ s.passphrase \in Texts \cup {NoText}
BY DEF Slot, SlotOf, TunnelIds

LEMMA SlotTyped ==
  ASSUME NEW id \in TunnelIds, NEW remote \in Texts \cup {NoText}, NEW ip \in Texts,
         NEW key \in Texts \cup {NoText}
  PROVE  SlotOf(id, remote, ip, key) \in Slot(Texts)
BY DEF Slot, SlotOf, TunnelIds

SlotNamed(s, id, remote) == [s EXCEPT !.tunnel_id = id, !.remote_id = remote]

SlotTold(s, id, key) == [s EXCEPT !.tunnel_id = id, !.passphrase = key]

LEMMA SlotWith ==
  ASSUME NEW s \in Slot(Texts), NEW id, NEW remote
  PROVE  SlotNamed(s, id, remote) = SlotOf(id, remote, s.remote_public_ip, s.passphrase)
<1> DEFINE t == s.tunnel_id
           r == s.remote_id
           p == s.remote_public_ip
           k == s.passphrase
<1>1. s = SlotOf(t, r, p, k)
  BY SlotParts
<1> HIDE DEF t, r, p, k
<1>2. [s EXCEPT !.tunnel_id = id] = SlotOf(id, r, p, k)
  BY <1>1 DEF SlotOf
<1>3. [SlotOf(id, r, p, k) EXCEPT !.remote_id = remote] = SlotOf(id, remote, p, k)
  BY DEF SlotOf
<1>4. SlotNamed(s, id, remote) = [[s EXCEPT !.tunnel_id = id] EXCEPT !.remote_id = remote]
  BY DEF SlotNamed
<1> QED BY <1>2, <1>3, <1>4 DEF p, k

LEMMA SlotWithout ==
  ASSUME NEW s \in Slot(Texts), NEW id, NEW key
  PROVE  SlotTold(s, id, key) = SlotOf(id, s.remote_id, s.remote_public_ip, key)
<1> DEFINE t == s.tunnel_id
           r == s.remote_id
           p == s.remote_public_ip
           k == s.passphrase
<1>1. s = SlotOf(t, r, p, k)
  BY SlotParts
<1> HIDE DEF t, r, p, k
<1>2. [s EXCEPT !.tunnel_id = id] = SlotOf(id, r, p, k)
  BY <1>1 DEF SlotOf
<1>3. [SlotOf(id, r, p, k) EXCEPT !.passphrase = key] = SlotOf(id, r, p, key)
  BY DEF SlotOf
<1>4. SlotTold(s, id, key) = [[s EXCEPT !.tunnel_id = id] EXCEPT !.passphrase = key]
  BY DEF SlotTold
<1> QED BY <1>2, <1>3, <1>4 DEF r, p

LEMMA SlotKeyed ==
  ASSUME NEW s \in Slot(Texts), NEW key
  PROVE  [s EXCEPT !.passphrase = key]
           = SlotOf(s.tunnel_id, s.remote_id, s.remote_public_ip, key)
<1> DEFINE t == s.tunnel_id
           r == s.remote_id
           p == s.remote_public_ip
           k == s.passphrase
<1>1. s = SlotOf(t, r, p, k)
  BY SlotParts
<1> HIDE DEF t, r, p, k
<1>2. [s EXCEPT !.passphrase = key] = SlotOf(t, r, p, key)
  BY <1>1 DEF SlotOf
<1> QED BY <1>2 DEF t, r, p

RemoteId(s) == IF s.remote_id = NoText THEN s.remote_public_ip ELSE s.remote_id

LEMMA MemberIs ==
  ASSUME NEW s \in Slot(Texts), NEW id \in TunnelIds
  PROVE  /\ MemberStored(s, id) \in Slot(Texts)
         /\ MemberStored(s, id).tunnel_id = id
         /\ MemberStored(s, id).remote_id = RemoteId(s)
         /\ MemberStored(s, id).remote_public_ip = s.remote_public_ip
         /\ MemberStored(s, id).passphrase = s.passphrase
         /\ RemoteId(s) # NoText
         /\ s.remote_id # NoText => RemoteId(s) = s.remote_id
<1>1. MemberStored(s, id) = SlotOf(id, RemoteId(s), s.remote_public_ip, s.passphrase)
  <2>1. MemberStored(s, id) = SlotNamed(s, id, RemoteId(s))
    BY Zenon DEF MemberStored, RemoteId, SlotNamed
  <2> QED BY <2>1, SlotWith
<1>2. NoText \notin Texts
  BY DocumentsAssumption
<1>3. RemoteId(s) \in Texts /\ RemoteId(s) # NoText
  BY <1>2, SlotParts DEF RemoteId
<1>4. s.remote_id # NoText => RemoteId(s) = s.remote_id
  BY DEF RemoteId
<1>5. MemberStored(s, id) \in Slot(Texts)
  BY <1>1, <1>3, SlotParts, SlotTyped
<1> QED BY <1>1, <1>3, <1>4, <1>5, SlotOfParts

LEMMA PairPresent ==
  /\ \A S : \A p \in [1..2 -> S] : p # Absent
  /\ \A p \in StoredPair(Texts) :
       /\ p \in Pairs /\ p # Absent
       /\ \A m \in 1..2 : /\ p[m] \in Slot(Texts) /\ p[m].tunnel_id = MemberIds[m]
                          /\ p[m].remote_id # NoText /\ p[m].passphrase # NoText
  /\ \A p \in Pairs : \A i \in 1..2 : p[i] \in Slot(Texts)
<1>1. \A S : \A p \in [1..2 -> S] : p # Absent
  <2> SUFFICES ASSUME NEW S, NEW p \in [1..2 -> S], p = <<>> PROVE FALSE
    BY DEF Absent
  <2>1. 1 \in DOMAIN p
    OBVIOUS
  <2>2. DOMAIN <<>> = {}
    OBVIOUS
  <2> QED BY <2>1, <2>2
<1>2. \A p \in StoredPair(Texts) :
       /\ p \in Pairs
       /\ \A m \in 1..2 : /\ p[m] \in Slot(Texts) /\ p[m].tunnel_id = MemberIds[m]
                          /\ p[m].remote_id # NoText /\ p[m].passphrase # NoText
  BY DEF StoredPair, Pairs
<1> QED BY <1>1, <1>2 DEF Pairs

(* Ids of the members, or none.                                            *)
IdsApart(slots) == slots[1].tunnel_id = slots[2].tunnel_id => slots[1].tunnel_id = NoText

Complete(slots) == \A i \in 1..2 : slots[i].passphrase # NoText

LEMMA PairPlanned ==
  ASSUME NEW c \in Pairs, \A i \in 1..2 : c[i] \in ConfiguredSlot(Texts),
         NEW prior, prior = Absent \/ (prior \in Pairs /\ IdsApart(prior)),
         NEW p, p = PlanSlots(c, prior)
  PROVE  /\ p \in Pairs /\ IdsApart(p)
         /\ \A i \in 1..2 :
              /\ p[i].remote_public_ip = c[i].remote_public_ip
              /\ p[i].passphrase = c[i].passphrase /\ p[i].passphrase # NoText
              /\ c[i].remote_id # NoText => p[i].remote_id = c[i].remote_id
         /\ prior # Absent =>
              \A i \in 1..2 :
                p[i] = SlotOf(prior[i].tunnel_id,
                              IF c[i].remote_id # NoText THEN c[i].remote_id
                              ELSE prior[i].remote_id,
                              c[i].remote_public_ip, c[i].passphrase)
<1>1. \A i \in 1..2 : /\ c[i] \in Slot(Texts) /\ c[i].tunnel_id = NoText
                      /\ c[i].passphrase # NoText
  BY DEF ConfiguredSlot
<1>2. CASE prior = Absent
  <2>1. p = c
    BY <1>2 DEF PlanSlots
  <2>2. IdsApart(c)
    BY <1>1 DEF IdsApart
  <2> QED BY <1>1, <1>2, <2>1, <2>2
<1>3. CASE prior # Absent
  <2>1. prior \in Pairs /\ IdsApart(prior)
    BY <1>3
  <2> DEFINE N(i) == SlotOf(prior[i].tunnel_id,
                            IF c[i].remote_id # NoText THEN c[i].remote_id
                            ELSE prior[i].remote_id,
                            c[i].remote_public_ip, c[i].passphrase)
  <2>2. p = [i \in 1..2 |->
               SlotNamed(c[i], prior[i].tunnel_id,
                         IF c[i].remote_id # NoText THEN c[i].remote_id
                         ELSE prior[i].remote_id)]
    BY <1>3, Zenon DEF PlanSlots, SlotNamed
  <2>3. ASSUME NEW i \in 1..2 PROVE p[i] = N(i) /\ N(i) \in Slot(Texts)
    <3>1. c[i] \in Slot(Texts) /\ prior[i] \in Slot(Texts)
      BY <1>1, <2>1, PairPresent
    <3>2. p[i] = N(i)
      <4> DEFINE x == IF c[i].remote_id # NoText THEN c[i].remote_id
                      ELSE prior[i].remote_id
                 id == prior[i].tunnel_id
      <4>1. p[i] = SlotNamed(c[i], id, x)
        BY <2>2
      <4>2. N(i) = SlotOf(id, x, c[i].remote_public_ip, c[i].passphrase)
        OBVIOUS
      <4> HIDE DEF x, id, N
      <4>3. SlotNamed(c[i], id, x) = SlotOf(id, x, c[i].remote_public_ip, c[i].passphrase)
        BY <3>1, SlotWith
      <4> QED BY <4>1, <4>2, <4>3
    <3>3. N(i) \in Slot(Texts)
      BY <3>1, SlotParts, SlotTyped
    <3> QED BY <3>2, <3>3
  <2>4. \A i \in 1..2 : /\ N(i).remote_public_ip = c[i].remote_public_ip
                        /\ N(i).passphrase = c[i].passphrase
                        /\ N(i).tunnel_id = prior[i].tunnel_id
                        /\ c[i].remote_id # NoText => N(i).remote_id = c[i].remote_id
    BY SlotOfParts
  <2>5. p = [i \in 1..2 |-> p[i]]
    BY <2>2
  <2> HIDE DEF N
  <2>6. p \in Pairs
    BY <2>3, <2>5 DEF Pairs
  <2>7. IdsApart(p)
    BY <2>1, <2>3, <2>4 DEF IdsApart
  <2> QED BY <1>1, <2>3, <2>4, <2>6, <2>7 DEF N
<1> QED BY <1>2, <1>3

Orders == {<<1, 2>>, <<2, 1>>}

(* A write leaves every planned slot with a member of its own.             *)
Leaves(o, pair, slots) ==
  \A i \in 1..2 : pair[o[i]] = MemberStored(slots[i], MemberIds[o[i]])

LEMMA OrderFacts ==
  \A o \in Orders :
    /\ \/ o[1] = 1 /\ o[2] = 2
       \/ o[1] = 2 /\ o[2] = 1
    /\ \A i \in 1..2 : o[i] \in 1..2
    /\ \A u \in Orders : o = u <=> o[1] = u[1]
    /\ <<1, 2>> \in Orders /\ <<2, 1>> \in Orders
BY DEF Orders

LEMMA PairWritten ==
  ASSUME NEW p \in Pairs, Complete(p),
         NEW s, s = Absent \/ s \in StoredPair(Texts),
         s # Absent => ~UpdateNeedsIds(p) /\ IdsApart(p),
         NEW w, w = IF s = Absent THEN PairCreated(p) ELSE PairUpdated(s, p)
  PROVE  /\ w \in StoredPair(Texts)
         /\ \E o \in Orders : Leaves(o, w, p)
<1>1. \A i, m \in 1..2 :
        LET q == MemberStored(p[i], MemberIds[m])
        IN /\ q \in Slot(Texts) /\ q.tunnel_id = MemberIds[m]
           /\ q.remote_id # NoText /\ q.passphrase # NoText
  <2> SUFFICES ASSUME NEW i \in 1..2, NEW m \in 1..2,
                      NEW q, q = MemberStored(p[i], MemberIds[m])
               PROVE  /\ q \in Slot(Texts) /\ q.tunnel_id = MemberIds[m]
                      /\ q.remote_id # NoText /\ q.passphrase # NoText
    OBVIOUS
  <2>1. p[i] \in Slot(Texts) /\ MemberIds[m] \in TunnelIds /\ p[i].passphrase # NoText
    BY PairPresent, MembersApart DEF Complete
  <2> QED BY <2>1, MemberIs
<1>2. ASSUME NEW o \in Orders, Leaves(o, w, p), w = [m \in 1..2 |-> w[m]]
      PROVE  w \in StoredPair(Texts)
  <2>1. ASSUME NEW m \in 1..2
        PROVE  /\ w[m] \in Slot(Texts) /\ w[m].tunnel_id = MemberIds[m]
               /\ w[m].remote_id # NoText /\ w[m].passphrase # NoText
    <3>1. PICK i \in 1..2 : o[i] = m
      BY OrderFacts
    <3>2. w[m] = MemberStored(p[i], MemberIds[m])
      BY <1>2, <3>1 DEF Leaves
    <3> QED BY <1>1, <3>2
  <2>2. w \in Pairs
    BY <1>2, <2>1 DEF Pairs
  <2> QED BY <2>1, <2>2 DEF StoredPair, Pairs
<1>3. CASE s = Absent
  <2>1. w = [i \in 1..2 |-> MemberStored(p[i], MemberIds[i])]
    BY <1>3 DEF PairCreated
  <2>2. Leaves(<<1, 2>>, w, p)
    <3> DEFINE o == <<1, 2>>
    <3>1. \A i \in 1..2 : o[i] = i
      OBVIOUS
    <3> HIDE DEF o
    <3>2. Leaves(o, w, p)
      BY <2>1, <3>1 DEF Leaves
    <3> QED BY <3>2 DEF o
  <2>3. w = [m \in 1..2 |-> w[m]]
    BY <2>1
  <2>4. <<1, 2>> \in Orders
    BY DEF Orders
  <2> QED BY <1>2, <2>2, <2>3, <2>4
<1>4. CASE s # Absent
  <2>1. s \in StoredPair(Texts) /\ ~UpdateNeedsIds(p) /\ IdsApart(p)
    BY <1>4
  <2>2. \A m \in 1..2 : s[m].tunnel_id = MemberIds[m]
    BY <2>1, PairPresent
  <2>3. \A i \in 1..2 : p[i].tunnel_id \in {MemberIds[1], MemberIds[2]}
    <3>1. \A i \in 1..2 : p[i].tunnel_id \in TunnelIds /\ p[i].tunnel_id # NoText
      BY <2>1, PairPresent, SlotParts DEF UpdateNeedsIds
    <3> QED BY <3>1 DEF TunnelIds
  <2>4. p[1].tunnel_id # p[2].tunnel_id
    BY <2>1 DEF IdsApart, UpdateNeedsIds
  <2> DEFINE Of(m) == CHOOSE i \in 1..2 : p[i].tunnel_id = MemberIds[m]
  <2>5. w = [m \in 1..2 |-> MemberStored(p[Of(m)], MemberIds[m])]
    <3> DEFINE By(m) == CHOOSE i \in 1..2 : p[i].tunnel_id = s[m].tunnel_id
    <3>1. w = [m \in 1..2 |-> MemberStored(p[By(m)], s[m].tunnel_id)]
      BY <1>4, Zenon DEF PairUpdated
    <3>2. \A m \in 1..2 : By(m) = Of(m)
      BY <2>2
    <3> HIDE DEF By, Of
    <3> QED BY <2>2, <3>1, <3>2
  <2>6. \E o \in Orders : \A i \in 1..2 : p[i].tunnel_id = MemberIds[o[i]]
    <3>1. CASE p[1].tunnel_id = MemberIds[1]
      <4>1. p[2].tunnel_id = MemberIds[2]
        BY <2>3, <2>4, <3>1
      <4> DEFINE o == <<1, 2>>
      <4>2. o[1] = 1 /\ o[2] = 2 /\ o \in Orders
        BY DEF Orders
      <4> HIDE DEF o
      <4> QED BY <3>1, <4>1, <4>2
    <3>2. CASE p[1].tunnel_id = MemberIds[2]
      <4>1. p[2].tunnel_id = MemberIds[1]
        BY <2>3, <2>4, <3>2
      <4> DEFINE o == <<2, 1>>
      <4>2. o[1] = 2 /\ o[2] = 1 /\ o \in Orders
        BY DEF Orders
      <4> HIDE DEF o
      <4> QED BY <3>2, <4>1, <4>2
    <3> QED BY <2>3, <3>1, <3>2
  <2>7. PICK o \in Orders : \A i \in 1..2 : p[i].tunnel_id = MemberIds[o[i]]
    BY <2>6
  <2>8. ASSUME NEW i \in 1..2 PROVE Of(o[i]) = i
    <3>1. o[i] \in 1..2
      BY OrderFacts
    <3>2. \A j \in 1..2 : p[j].tunnel_id = MemberIds[o[i]] <=> j = i
      BY <2>4, <2>7
    <3> QED BY <3>2
  <2>9. Leaves(o, w, p)
    <3> HIDE DEF Of
    <3>1. \A i \in 1..2 : o[i] \in 1..2
      BY OrderFacts
    <3> QED BY <2>5, <2>8, <3>1 DEF Leaves
  <2>10. w = [m \in 1..2 |-> w[m]]
    BY <2>5
  <2> QED BY <1>2, <2>9, <2>10
<1> QED BY <1>3, <1>4

(* What a read makes of the members of a pair, in the order o of them.     *)
ReadIn(o, v, pair, prior, keys) ==
  \A i \in 1..2 :
    /\ v[i].remote_id = pair[o[i]].remote_id
    /\ v[i].remote_public_ip = pair[o[i]].remote_public_ip
    /\ v[i].passphrase = IF keys THEN pair[o[i]].passphrase
                         ELSE IF prior = Absent THEN NoText ELSE prior[i].passphrase

(* The prior slots show the order of the members.                          *)
Tells(prior, o, pair) ==
  /\ prior # Absent /\ prior[1].remote_id # prior[2].remote_id
  /\ \A i \in 1..2 : prior[i].remote_id = pair[o[i]].remote_id

Told(m, ids, keys) ==
  SlotOf(IF ids THEN m.tunnel_id ELSE NoText, m.remote_id, m.remote_public_ip,
         IF keys THEN m.passphrase ELSE NoText)

LEMMA ToldFacts ==
  ASSUME NEW m \in Slot(Texts), NEW ids \in BOOLEAN, NEW keys \in BOOLEAN,
         NEW t, t = Told(m, ids, keys)
  PROVE  /\ t \in Slot(Texts)
         /\ t.tunnel_id = IF ids THEN m.tunnel_id ELSE NoText
         /\ t.remote_id = m.remote_id /\ t.remote_public_ip = m.remote_public_ip
         /\ t.passphrase = IF keys THEN m.passphrase ELSE NoText
<1> DEFINE id == IF ids THEN m.tunnel_id ELSE NoText
           key == IF keys THEN m.passphrase ELSE NoText
<1>1. id \in TunnelIds /\ key \in Texts \cup {NoText}
  BY SlotParts, MembersApart
<1>3. t = SlotOf(id, m.remote_id, m.remote_public_ip, key)
  BY DEF Told
<1> HIDE DEF id, key
<1>5. t \in Slot(Texts)
  <2>1. m.remote_id \in Texts \cup {NoText} /\ m.remote_public_ip \in Texts
    BY SlotParts
  <2>2. SlotOf(id, m.remote_id, m.remote_public_ip, key) \in Slot(Texts)
    BY <1>1, <2>1, SlotTyped
  <2> QED BY <1>3, <2>2
<1>6. /\ t.tunnel_id = id /\ t.remote_id = m.remote_id
      /\ t.remote_public_ip = m.remote_public_ip /\ t.passphrase = key
  BY <1>3, SlotOfParts
<1> QED BY <1>5, <1>6 DEF id, key

LEMMA ToldIs ==
  ASSUME NEW m \in Slot(Texts), NEW ids \in BOOLEAN, NEW keys \in BOOLEAN
  PROVE  [m EXCEPT !.tunnel_id = IF ids THEN @ ELSE NoText,
                   !.passphrase = IF keys THEN @ ELSE NoText] = Told(m, ids, keys)
<1> DEFINE id == IF ids THEN m.tunnel_id ELSE NoText
           key == IF keys THEN m.passphrase ELSE NoText
<1>1. [m EXCEPT !.tunnel_id = IF ids THEN @ ELSE NoText,
                !.passphrase = IF keys THEN @ ELSE NoText] = SlotTold(m, id, key)
  BY Zenon DEF SlotTold
<1>2. Told(m, ids, keys) = SlotOf(id, m.remote_id, m.remote_public_ip, key)
  BY DEF Told
<1> HIDE DEF id, key
<1>3. SlotTold(m, id, key) = SlotOf(id, m.remote_id, m.remote_public_ip, key)
  BY SlotWithout
<1> QED BY <1>1, <1>2, <1>3, Zenon

LEMMA AnswersAre ==
  ASSUME NEW s \in StoredPair(Texts), NEW keys \in BOOLEAN
  PROVE  PairAnswers(s, keys) =
           {<<Told(s[o[1]], ids, keys), Told(s[o[2]], ids, keys)>> :
              o \in Orders, ids \in BOOLEAN}
<1> DEFINE T(m, ids) == [m EXCEPT !.tunnel_id = IF ids THEN @ ELSE NoText,
                                  !.passphrase = IF keys THEN @ ELSE NoText]
<1>1. PairAnswers(s, keys) =
        {<<T(s[o[1]], ids), T(s[o[2]], ids)>> : o \in Orders, ids \in BOOLEAN}
  BY DEF PairAnswers, Orders
<1>2. ASSUME NEW o \in Orders, NEW ids \in BOOLEAN
      PROVE  /\ T(s[o[1]], ids) = Told(s[o[1]], ids, keys)
             /\ T(s[o[2]], ids) = Told(s[o[2]], ids, keys)
  <2>1. s[o[1]] \in Slot(Texts) /\ s[o[2]] \in Slot(Texts)
    BY OrderFacts, PairPresent
  <2> QED BY <2>1, ToldIs
<1> HIDE DEF T
<1> QED BY <1>1, <1>2

LEMMA FlattenIs ==
  ASSUME NEW m \in Slot(Texts), NEW prior, NEW i \in 1..2,
         prior = Absent \/ prior \in Pairs,
         NEW v, v = flattenTunnelData(m, prior, i)
  PROVE  /\ v \in Slot(Texts)
         /\ v.tunnel_id = m.tunnel_id
         /\ v.remote_id = m.remote_id /\ v.remote_public_ip = m.remote_public_ip
         /\ v.passphrase = IF m.passphrase # NoText \/ prior = Absent THEN m.passphrase
                           ELSE prior[i].passphrase
<1> DEFINE key == IF m.passphrase # NoText \/ prior = Absent THEN m.passphrase
                  ELSE prior[i].passphrase
<1>1. v = [m EXCEPT !.passphrase = key]
  BY Zenon DEF flattenTunnelData
<1>2. key \in Texts \cup {NoText}
  <2>1. prior # Absent => prior[i] \in Slot(Texts)
    BY PairPresent
  <2> QED BY <2>1, SlotParts
<1> HIDE DEF key
<1>3. v = SlotOf(m.tunnel_id, m.remote_id, m.remote_public_ip, key)
  BY <1>1, SlotKeyed
<1>4. v \in Slot(Texts)
  <2>1. /\ m.remote_id \in Texts \cup {NoText} /\ m.remote_public_ip \in Texts
        /\ m.tunnel_id \in TunnelIds
    BY SlotParts
  <2>2. SlotOf(m.tunnel_id, m.remote_id, m.remote_public_ip, key) \in Slot(Texts)
    BY <1>2, <2>1, SlotTyped
  <2> QED BY <1>3, <2>2
<1> QED BY <1>3, <1>4, SlotOfParts DEF key

(* A read gives a record of the members, in an order that the prior slots  *)
(* decide if they show it.                                                 *)
LEMMA PairRead ==
  ASSUME NEW s \in StoredPair(Texts), NEW keys \in BOOLEAN,
         NEW prior, prior = Absent \/ prior \in Pairs,
         NEW a \in PairAnswers(s, keys),
         NEW v, v = resourceIpsecRedundantRead(a, prior)
  PROVE  /\ v \in Pairs /\ IdsApart(v)
         /\ \E o \in Orders :
              /\ ReadIn(o, v, s, prior, keys)
              /\ \A u \in Orders : Tells(prior, u, s) => o = u
<1>1. PICK p \in Orders, ids \in BOOLEAN :
        a = <<Told(s[p[1]], ids, keys), Told(s[p[2]], ids, keys)>>
  BY AnswersAre
<1>2. \A m \in 1..2 : /\ s[m] \in Slot(Texts) /\ s[m].tunnel_id = MemberIds[m]
                      /\ s[m].remote_id # NoText /\ s[m].passphrase # NoText
  BY PairPresent
<1> DEFINE Swap == /\ prior # Absent
                   /\ prior[1].remote_id # NoText \/ prior[2].remote_id # NoText
                   /\ prior[1].remote_id = a[2].remote_id
                   /\ prior[2].remote_id = a[1].remote_id
           o == IF Swap THEN <<p[2], p[1]>> ELSE p
           slots == matchRedundantTunnelsToSlots(a, prior)
<1>3. ASSUME NEW i \in 1..2, NEW m \in 1..2, m = p[i]
      PROVE  /\ a[i] = Told(s[m], ids, keys) /\ a[i] \in Slot(Texts)
             /\ a[i].tunnel_id = IF ids THEN MemberIds[m] ELSE NoText
             /\ a[i].remote_id = s[m].remote_id
             /\ a[i].remote_public_ip = s[m].remote_public_ip
             /\ a[i].passphrase = IF keys THEN s[m].passphrase ELSE NoText
  <2>1. a[i] = Told(s[m], ids, keys)
    <3>1. i = 1 \/ i = 2
      OBVIOUS
    <3>2. a[1] = Told(s[p[1]], ids, keys) /\ a[2] = Told(s[p[2]], ids, keys)
      BY <1>1
    <3> QED BY <1>3, <3>1, <3>2
  <2> DEFINE x == a[i]
             y == s[m]
  <2>2. y \in Slot(Texts) /\ y.tunnel_id = MemberIds[m] /\ x = Told(y, ids, keys)
    BY <1>2, <2>1
  <2> HIDE DEF x, y
  <2>3. /\ x \in Slot(Texts)
        /\ x.tunnel_id = IF ids THEN y.tunnel_id ELSE NoText
        /\ x.remote_id = y.remote_id /\ x.remote_public_ip = y.remote_public_ip
        /\ x.passphrase = IF keys THEN y.passphrase ELSE NoText
    BY <2>2, ToldFacts
  <2> QED BY <2>1, <2>2, <2>3 DEF x, y
<1>4. slots = IF Swap THEN <<a[2], a[1]>> ELSE a
  <2>1. prior = Absent => ~(\/ remoteIDFromPriorTunnelData(prior, 1) # NoText
                            \/ remoteIDFromPriorTunnelData(prior, 2) # NoText)
    BY DEF remoteIDFromPriorTunnelData
  <2>2. prior # Absent =>
          /\ remoteIDFromPriorTunnelData(prior, 1) = prior[1].remote_id
          /\ remoteIDFromPriorTunnelData(prior, 2) = prior[2].remote_id
    BY DEF remoteIDFromPriorTunnelData
  <2>3. slots = IF /\ \/ remoteIDFromPriorTunnelData(prior, 1) # NoText
                      \/ remoteIDFromPriorTunnelData(prior, 2) # NoText
                   /\ remoteIDFromPriorTunnelData(prior, 1) = a[2].remote_id
                   /\ remoteIDFromPriorTunnelData(prior, 2) = a[1].remote_id
                THEN <<a[2], a[1]>> ELSE a
    BY Zenon DEF matchRedundantTunnelsToSlots, remoteIDFromAPITunnel
  <2> QED BY <2>1, <2>2, <2>3
<1>5. /\ o \in Orders
      /\ Swap => o[1] = p[2] /\ o[2] = p[1]
      /\ ~Swap => o = p
  <2>1. p = <<1, 2>> \/ p = <<2, 1>>
    BY DEF Orders
  <2> HIDE DEF Swap
  <2>2. p = <<1, 2>> => <<p[2], p[1]>> = <<2, 1>>
    OBVIOUS
  <2>3. p = <<2, 1>> => <<p[2], p[1]>> = <<1, 2>>
    OBVIOUS
  <2> QED BY <2>1, <2>2, <2>3 DEF Orders
<1> DEFINE m1 == o[1]
           m2 == o[2]
<1>6. /\ slots[1] = Told(s[o[1]], ids, keys) /\ slots[2] = Told(s[o[2]], ids, keys)
  <2>1. a[1] = Told(s[p[1]], ids, keys) /\ a[2] = Told(s[p[2]], ids, keys)
    BY <1>1
  <2> HIDE DEF Swap, slots, o
  <2>2. CASE Swap
    BY <1>4, <1>5, <2>1, <2>2
  <2>3. CASE ~Swap
    BY <1>4, <1>5, <2>1, <2>3
  <2> QED BY <2>2, <2>3
<1>7. v = [i \in 1..2 |-> flattenTunnelData(slots[i], prior, i)]
  BY Zenon DEF resourceIpsecRedundantRead
<1>8. \A u \in Orders : Tells(prior, u, s) => o = u
  <2> SUFFICES ASSUME NEW u \in Orders, Tells(prior, u, s) PROVE o = u
    OBVIOUS
  <2>1. /\ prior # Absent /\ prior[1].remote_id # prior[2].remote_id
        /\ prior[1].remote_id = s[u[1]].remote_id
        /\ prior[2].remote_id = s[u[2]].remote_id
    BY DEF Tells
  <2>2. /\ \/ u[1] = 1 /\ u[2] = 2
           \/ u[1] = 2 /\ u[2] = 1
        /\ \/ p[1] = 1 /\ p[2] = 2
           \/ p[1] = 2 /\ p[2] = 1
    BY OrderFacts
  <2>3. a[1].remote_id = s[p[1]].remote_id /\ a[2].remote_id = s[p[2]].remote_id
    <3>1. p[1] \in 1..2 /\ p[2] \in 1..2
      BY OrderFacts
    <3> QED BY <1>3, <3>1
  <2>4. CASE p[1] = u[1]
    <3>1. p[2] = u[2]
      BY <2>2, <2>4
    <3>2. ~Swap
      BY <2>1, <2>3, <2>4, <3>1
    <3> HIDE DEF Swap, o
    <3>3. o = p /\ p = u
      BY <1>5, <2>4, <3>2, OrderFacts
    <3> QED BY <3>3
  <2>5. CASE p[1] # u[1]
    <3>1. p[1] = u[2] /\ p[2] = u[1]
      BY <2>2, <2>5
    <3>2. s[1].remote_id # NoText /\ s[2].remote_id # NoText
      BY <1>2
    <3>3. Swap
      BY <2>1, <2>2, <2>3, <3>1, <3>2
    <3> HIDE DEF Swap, o
    <3>4. o \in Orders /\ o[1] = u[1]
      BY <1>5, <3>1, <3>3
    <3> QED BY <3>4, OrderFacts
  <2> QED BY <2>4, <2>5
<1>9. o[1] \in 1..2 /\ o[2] \in 1..2 /\ o[1] # o[2]
  <2> HIDE DEF o, Swap
  <2> QED BY <1>5, OrderFacts
<1> HIDE DEF o, slots, Swap
<1>10. ASSUME NEW i \in 1..2
       PROVE  /\ v[i] \in Slot(Texts)
              /\ v[i].tunnel_id = IF ids THEN MemberIds[o[i]] ELSE NoText
              /\ v[i].remote_id = s[o[i]].remote_id
              /\ v[i].remote_public_ip = s[o[i]].remote_public_ip
              /\ v[i].passphrase = IF keys THEN s[o[i]].passphrase
                                   ELSE IF prior = Absent THEN NoText
                                        ELSE prior[i].passphrase
  <2> DEFINE x == slots[i]
             m == s[o[i]]
  <2>1. o[i] \in 1..2 /\ x = Told(m, ids, keys)
    <3>1. i = 1 \/ i = 2
      OBVIOUS
    <3> QED BY <1>6, <1>9, <3>1
  <2>2. m \in Slot(Texts) /\ m.tunnel_id = MemberIds[o[i]] /\ m.passphrase # NoText
    BY <1>2, <2>1
  <2>3. v[i] = flattenTunnelData(x, prior, i)
    BY <1>7
  <2> HIDE DEF x, m
  <2>4. /\ x \in Slot(Texts)
        /\ x.tunnel_id = IF ids THEN m.tunnel_id ELSE NoText
        /\ x.remote_id = m.remote_id /\ x.remote_public_ip = m.remote_public_ip
        /\ x.passphrase = IF keys THEN m.passphrase ELSE NoText
    BY <2>1, <2>2, ToldFacts
  <2>5. /\ v[i] \in Slot(Texts)
        /\ v[i].tunnel_id = x.tunnel_id
        /\ v[i].remote_id = x.remote_id /\ v[i].remote_public_ip = x.remote_public_ip
        /\ v[i].passphrase = IF x.passphrase # NoText \/ prior = Absent THEN x.passphrase
                             ELSE prior[i].passphrase
    BY <2>3, <2>4, FlattenIs
  <2>6. v[i].passphrase = IF keys THEN m.passphrase
                          ELSE IF prior = Absent THEN NoText ELSE prior[i].passphrase
    BY <2>2, <2>4, <2>5
  <2> QED BY <2>2, <2>4, <2>5, <2>6 DEF m
<1>11. v \in Pairs
  <2>1. v = [i \in 1..2 |-> v[i]]
    BY <1>7
  <2> QED BY <1>10, <2>1 DEF Pairs
<1>12. IdsApart(v)
  <2>1. /\ v[1].tunnel_id = IF ids THEN MemberIds[o[1]] ELSE NoText
        /\ v[2].tunnel_id = IF ids THEN MemberIds[o[2]] ELSE NoText
    BY <1>10
  <2> QED BY <1>9, <2>1, MembersApart DEF IdsApart
<1>13. ReadIn(o, v, s, prior, keys)
  BY <1>10 DEF ReadIn
<1> QED BY <1>5, <1>8, <1>11, <1>12, <1>13

-----------------------------------------------------------------------------
(* Endpoints of an enhanced dynamic tunnel                                 *)

(* Where a list has a value, and where it has one of a set.                *)
At(list, e) == {i \in DOMAIN list : list[i] = e}

Where(list, Q) == {i \in DOMAIN list : list[i] \in Q}

LEMMA WhereFacts ==
  ASSUME NEW T, NEW list \in Seq(T), NEW Q
  PROVE  /\ DOMAIN list = 1..Len(list) /\ Len(list) \in Nat
         /\ Where(list, Q) \in SUBSET Nat /\ IsFiniteSet(Where(list, Q))
         /\ Cardinality(Where(list, Q)) \in Nat
         /\ \A e : At(list, e) = Where(list, {e})
<1>1. DOMAIN list = 1..Len(list) /\ Len(list) \in Nat
  BY LenProperties
<1>2. IsFiniteSet(1..Len(list))
  BY <1>1, FS_Interval
<1>3. Where(list, Q) \in SUBSET (1..Len(list))
  BY <1>1 DEF Where
<1>4. IsFiniteSet(Where(list, Q))
  BY <1>2, <1>3, FS_Subset
<1>5. Cardinality(Where(list, Q)) \in Nat
  BY <1>4, FS_CardinalityType
<1>6. \A e : At(list, e) = Where(list, {e})
  BY DEF At, Where
<1>7. Where(list, Q) \in SUBSET Nat
  BY <1>1, <1>3
<1> QED BY <1>1, <1>4, <1>5, <1>6, <1>7

LEMMA CountIs ==
  ASSUME NEW T, NEW list \in Seq(T), NEW e
  PROVE  /\ Count(list, e) = Cardinality(At(list, e)) /\ Count(list, e) \in Nat
         /\ IsFiniteSet(At(list, e)) /\ At(list, e) \in SUBSET Nat
<1>1. Count(list, e) = Cardinality(At(list, e))
  BY DEF Count, At
<1>2. At(list, e) = Where(list, {e})
  BY WhereFacts
<1> QED BY <1>1, <1>2, WhereFacts

(* The n-th of a finite set of numbers has n of them up to it.             *)
LEMMA NthIs ==
  ASSUME NEW S \in SUBSET Nat, IsFiniteSet(S), NEW n \in 1..Cardinality(S)
  PROVE  /\ Nth(S, n) \in S /\ Cardinality(Below(S, Nth(S, n))) = n
         /\ \A x \in S : Cardinality(Below(S, x)) = n => x = Nth(S, n)
<1>1. Cardinality(S) \in Nat
  BY FS_CardinalityType
<1>2. n \in Nat \ {0} /\ n <= Cardinality(S)
  BY <1>1
<1>3. PICK x \in S : Cardinality(Below(S, x)) = n
  BY <1>2, NthExists
<1>4. Nth(S, n) = CHOOSE y \in S : Cardinality(Below(S, y)) = n
  BY DEF Nth, Below
<1>5. Nth(S, n) \in S /\ Cardinality(Below(S, Nth(S, n))) = n
  BY <1>3, <1>4
<1>6. ASSUME NEW y \in S, Cardinality(Below(S, y)) = n
      PROVE  y = Nth(S, n)
  <2> DEFINE z == Nth(S, n)
  <2>1. z \in S /\ Cardinality(Below(S, z)) = Cardinality(Below(S, y))
    BY <1>5, <1>6
  <2> HIDE DEF z
  <2>2. z = y
    BY <2>1, BelowTells
  <2> QED BY <2>2 DEF z
<1> QED BY <1>5, <1>6

(* The blocks that a plan keeps are as many, of every sort, as the old.    *)
LEMMA KeptAreOld ==
  ASSUME NEW T, NEW old \in Seq(T), NEW new \in Seq(T), NEW Q,
         \A i \in DOMAIN old : Count(new, old[i]) >= Count(old, old[i])
  PROVE  Cardinality(Where(new, Q) \ Added(old, new)) = Cardinality(Where(old, Q))
<1> DEFINE Kept == Where(new, Q) \ Added(old, new)
           Rank(list, i) == Cardinality(Below(At(list, list[i]), i))
           Spare(e) == Count(new, e) - Count(old, e)
<1>1. \A e : Count(new, e) \in Nat /\ Count(old, e) \in Nat /\ Spare(e) \in Int
  BY CountIs
<1>2. ASSUME NEW list \in Seq(T), NEW i \in DOMAIN list
      PROVE  /\ i \in At(list, list[i]) /\ i \in Nat
             /\ Rank(list, i) \in 1..Count(list, list[i])
  <2> DEFINE S == At(list, list[i])
  <2>1. i \in S
    BY DEF At
  <2>2. S \in SUBSET Nat /\ IsFiniteSet(S) /\ Count(list, list[i]) = Cardinality(S)
    BY CountIs
  <2> HIDE DEF S
  <2>3. Cardinality(Below(S, i)) \in 1..Cardinality(S)
    BY <2>1, <2>2, BelowBounds
  <2> QED BY <2>1, <2>2, <2>3 DEF S
<1>3. ASSUME NEW j \in DOMAIN new
      PROVE  j \in Added(old, new) <=> Rank(new, j) - 1 < Spare(new[j])
  <2> DEFINE S == {i \in DOMAIN new : i < j /\ new[i] = new[j]}
             R == Below(At(new, new[j]), j)
  <2>1. j \in Nat /\ DOMAIN new \in SUBSET Nat
    BY WhereFacts
  <2>2. R = S \cup {j} /\ j \notin S
    BY <2>1 DEF Below, At
  <2>3. IsFiniteSet(S)
    <3>1. S \in SUBSET Nat /\ \A i \in S : i <= j
      BY <2>1
    <3> QED BY <2>1, <3>1, FS_BoundedSetOfNaturals
  <2>4. Cardinality(S) \in Nat
    BY <2>3, FS_CardinalityType
  <2>5. j \in Added(old, new) <=> Cardinality(S) < Spare(new[j])
    BY Zenon DEF Added
  <2> HIDE DEF S
  <2>6. Cardinality(R) = Cardinality(S) + 1
    BY <2>2, <2>3, FS_AddElement
  <2>7. Rank(new, j) = Cardinality(S) + 1
    BY <2>6
  <2> HIDE DEF Spare, Rank, R
  <2> QED BY <1>1, <2>4, <2>5, <2>7
<1> DEFINE N(j) == Rank(new, j) - Spare(new[j])
           f == [j \in Kept |-> Nth(At(old, new[j]), N(j))]
<1>4. ASSUME NEW j \in Kept
      PROVE  /\ j \in DOMAIN new /\ new[j] \in Q
             /\ N(j) \in 1..Count(old, new[j])
  <2>1. j \in DOMAIN new /\ new[j] \in Q /\ j \notin Added(old, new)
    BY DEF Where
  <2>2. ~(Rank(new, j) - 1 < Spare(new[j])) /\ Rank(new, j) \in 1..Count(new, new[j])
    BY <1>2, <1>3, <2>1
  <2> DEFINE r == Rank(new, j)
             a == Count(new, new[j])
             b == Count(old, new[j])
  <2>3. a \in Nat /\ b \in Nat /\ r \in 1..a /\ ~(r - 1 < a - b)
    BY <1>1, <2>2
  <2> HIDE DEF r, a, b
  <2>4. r - (a - b) \in 1..b
    BY <2>3
  <2> QED BY <2>1, <2>4 DEF r, a, b
<1>5. ASSUME NEW j \in Kept
      PROVE  /\ f[j] \in Where(old, Q) /\ old[f[j]] = new[j]
             /\ Cardinality(Below(At(old, new[j]), f[j])) = N(j)
             /\ \A i \in At(old, new[j]) :
                  Cardinality(Below(At(old, new[j]), i)) = N(j) => i = f[j]
  <2> DEFINE S == At(old, new[j])
             n == N(j)
  <2>1. S \in SUBSET Nat /\ IsFiniteSet(S) /\ n \in 1..Cardinality(S)
    BY <1>4, CountIs
  <2>2. f[j] = Nth(S, n)
    OBVIOUS
  <2> HIDE DEF n, f
  <2>3. /\ f[j] \in S /\ Cardinality(Below(S, f[j])) = n
        /\ \A i \in S : Cardinality(Below(S, i)) = n => i = f[j]
    <3> HIDE DEF S
    <3> QED BY <2>1, <2>2, NthIs
  <2>4. f[j] \in DOMAIN old /\ old[f[j]] = new[j] /\ new[j] \in Q
    BY <1>4, <2>3 DEF At
  <2> QED BY <2>3, <2>4 DEF n, Where
<1>6. f \in [Kept -> Where(old, Q)]
  <2> HIDE DEF Kept, N
  <2> QED BY <1>5
<1>7. ASSUME NEW i \in Kept, NEW j \in Kept, f[i] = f[j]
      PROVE  i = j
  <2>1. new[i] = new[j] /\ i \in DOMAIN new /\ j \in DOMAIN new
    BY <1>4, <1>5, <1>7
  <2>2. N(i) = N(j)
    <3> HIDE DEF N, f, Kept
    <3> QED BY <1>5, <1>7, <2>1
  <2> DEFINE S == At(new, new[j])
             p == Cardinality(Below(S, i))
             q == Cardinality(Below(S, j))
             d == Spare(new[j])
  <2>3. i \in S /\ j \in S /\ S \in SUBSET Nat
    BY <1>2, <2>1, CountIs
  <2>4. Rank(new, i) = p /\ Rank(new, j) = q
    BY <2>1
  <2>5. p \in Int /\ q \in Int /\ d \in Int /\ p - d = q - d
    BY <1>1, <1>2, <2>1, <2>2, <2>4
  <2> HIDE DEF d
  <2>6. p = q
    <3> HIDE DEF p, q
    <3> QED BY <2>5
  <2> HIDE DEF S
  <2> QED BY <2>3, <2>6, BelowTells
<1>8. ASSUME NEW i \in Where(old, Q)
      PROVE  \E j \in Kept : f[j] = i
  <2> DEFINE e == old[i]
             a == Count(new, e)
             b == Count(old, e)
             m == Rank(old, i)
             S == At(new, e)
             n == m + (a - b)
  <2>1. i \in DOMAIN old /\ e \in Q
    BY DEF Where
  <2>2. a \in Nat /\ b \in Nat /\ m \in 1..b /\ a >= b
    BY <1>1, <1>2, <2>1
  <2>3. n \in 1..a /\ n - 1 >= a - b /\ n - (a - b) = m
    <3> HIDE DEF a, b, m
    <3> QED BY <2>2
  <2>4. S \in SUBSET Nat /\ IsFiniteSet(S) /\ a = Cardinality(S)
    BY CountIs
  <2> DEFINE j == Nth(S, n)
  <2>5. j \in S /\ Cardinality(Below(S, j)) = n
    <3> HIDE DEF S, n, a
    <3> QED BY <2>3, <2>4, NthIs
  <2>6. j \in DOMAIN new /\ new[j] = e
    <3> HIDE DEF n, e
    <3> QED BY <2>5 DEF At
  <2>7. Rank(new, j) = n /\ Spare(new[j]) = a - b
    <3> HIDE DEF j, n
    <3> QED BY <2>5, <2>6
  <2>8. j \in Kept
    <3>1. ~(n - 1 < a - b)
      <4>1. n \in Int /\ a - b \in Int
        BY <2>2, <2>3
      <4> HIDE DEF n, a, b
      <4> QED BY <2>3, <4>1
    <3> HIDE DEF j, n, Rank, Spare, a, b
    <3>2. j \notin Added(old, new)
      BY <1>3, <2>6, <2>7, <3>1
    <3> QED BY <2>1, <2>6, <3>2 DEF Where
  <2>9. N(j) = m
    <3> HIDE DEF j, n, Rank, Spare, a, b
    <3> QED BY <2>3, <2>7
  <2>10. f[j] = i
    <3>1. i \in At(old, new[j]) /\ Cardinality(Below(At(old, new[j]), i)) = N(j)
      <4>1. i \in At(old, e) /\ Cardinality(Below(At(old, e), i)) = m
        BY <1>2, <2>1
      <4> HIDE DEF j, e, m, N
      <4> QED BY <2>6, <2>9, <4>1
    <3> HIDE DEF j, f, Kept, N
    <3> QED BY <1>5, <2>8, <3>1
  <2> HIDE DEF j, f
  <2> QED BY <2>8, <2>10
<1>9. IsFiniteSet(Where(new, Q)) /\ IsFiniteSet(Kept)
  <2>1. IsFiniteSet(Where(new, Q))
    BY WhereFacts
  <2> QED BY <2>1, FS_Subset
<1>10. \A i, j \in Kept : f[i] = f[j] => i = j
  <2> HIDE DEF Kept, f
  <2> QED BY <1>7
<1> HIDE DEF Kept, f
<1>11. Cardinality(Where(old, Q)) = Cardinality(Kept)
  BY <1>6, <1>8, <1>9, <1>10, AsMany
<1> QED BY <1>11 DEF Kept

InOrder(list, S) == [k \in 1..Cardinality(S) |-> list[Nth(S, k)]]

(* The new blocks are those of the plan, of every sort as many.            *)
LEMMA AddedAre ==
  ASSUME NEW T, NEW old \in Seq(T), NEW new \in Seq(T), NEW A, A = Added(old, new),
         NEW list, list = InOrder(new, A)
  PROVE  /\ list \in Seq(T)
         /\ \A Q : Cardinality(Where(list, Q)) = Cardinality(Where(new, Q) \cap A)
<1> DEFINE n == Cardinality(A)
<1>1. DOMAIN new = 1..Len(new) /\ Len(new) \in Nat
  BY LenProperties
<1>2. A \in SUBSET (1..Len(new))
  BY <1>1, Zenon DEF Added
<1>3. IsFiniteSet(A) /\ n \in Nat /\ A \in SUBSET Nat
  <2>1. IsFiniteSet(1..Len(new))
    BY <1>1, FS_Interval
  <2>2. IsFiniteSet(A)
    BY <1>2, <2>1, FS_Subset
  <2>3. A \in SUBSET Nat
    BY <1>1, <1>2
  <2> QED BY <2>2, <2>3, FS_CardinalityType
<1>4. ASSUME NEW k \in 1..n
      PROVE  /\ Nth(A, k) \in A /\ Cardinality(Below(A, Nth(A, k))) = k
             /\ list[k] = new[Nth(A, k)] /\ list[k] \in T
  <2>1. Nth(A, k) \in A /\ Cardinality(Below(A, Nth(A, k))) = k
    BY <1>3, NthIs
  <2>2. new[Nth(A, k)] \in T
    BY <1>2, <2>1, ElementOfSeq
  <2> QED BY <2>1, <2>2 DEF InOrder
<1> HIDE DEF n
<1>5. list = [k \in 1..n |-> list[k]]
  BY DEF n, InOrder
<1>6. list \in Seq(T) /\ DOMAIN list = 1..n
  <2>1. list \in [1..n -> T]
    BY <1>4, <1>5
  <2>2. list \in Seq(T)
    BY <1>3, <2>1, SeqDef
  <2>3. DOMAIN list = 1..n
    BY <1>5
  <2> QED BY <2>2, <2>3
<1>7. ASSUME NEW Q
      PROVE  Cardinality(Where(list, Q)) = Cardinality(Where(new, Q) \cap A)
  <2> DEFINE R == Where(new, Q) \cap A
             f == [k \in Where(list, Q) |-> Nth(A, k)]
  <2>1. IsFiniteSet(Where(list, Q))
    BY <1>6, WhereFacts
  <2>2. ASSUME NEW k \in Where(list, Q)
        PROVE  /\ k \in 1..n /\ f[k] \in R /\ Cardinality(Below(A, f[k])) = k
    <3>1. k \in 1..n /\ list[k] \in Q
      BY <1>6 DEF Where
    <3>2. f[k] = Nth(A, k)
      OBVIOUS
    <3>3. f[k] \in A /\ Cardinality(Below(A, f[k])) = k /\ new[f[k]] \in Q
      BY <1>4, <3>1, <3>2
    <3>4. f[k] \in DOMAIN new
      BY <1>1, <1>2, <3>3
    <3> QED BY <3>1, <3>3, <3>4 DEF Where
  <2>3. f \in [Where(list, Q) -> R]
    <3> HIDE DEF R
    <3> QED BY <2>2
  <2>4. ASSUME NEW r \in R PROVE \E k \in Where(list, Q) : f[k] = r
    <3> DEFINE k == Cardinality(Below(A, r))
    <3>1. r \in A /\ new[r] \in Q
      BY DEF Where
    <3>2. k \in 1..n
      BY <1>3, <3>1, BelowBounds DEF n
    <3>3. r = Nth(A, k)
      <4> HIDE DEF R, f
      <4> QED BY <1>3, <3>1, <3>2, NthIs DEF n
    <3> HIDE DEF k
    <3>4. k \in Where(list, Q)
      <4>1. list[k] = new[r]
        BY <1>4, <3>2, <3>3
      <4> QED BY <1>6, <3>1, <3>2, <4>1 DEF Where
    <3>5. f[k] = r
      BY <3>3, <3>4
    <3> QED BY <3>4, <3>5
  <2> HIDE DEF f, R
  <2>5. \A i, j \in Where(list, Q) : f[i] = f[j] => i = j
    BY <2>2
  <2>6. Cardinality(R) = Cardinality(Where(list, Q))
    BY <2>1, <2>3, <2>4, <2>5, AsMany
  <2> QED BY <2>6 DEF R
<1> QED BY <1>6, <1>7

(* A list that is put after another adds to what that has.                 *)
LEMMA CountOfBoth ==
  ASSUME NEW T, NEW s \in Seq(T), NEW t \in Seq(T), NEW e
  PROVE  Count(s \o t, e) = Count(s, e) + Count(t, e)
<1> DEFINE both == s \o t
           n == Len(s)
           R == {i \in DOMAIN both : i > n /\ both[i] = e}
           f == [i \in At(t, e) |-> i + n]
<1>1. /\ both \in Seq(T) /\ Len(both) = n + Len(t) /\ n \in Nat /\ Len(t) \in Nat
      /\ DOMAIN both = 1..(n + Len(t)) /\ DOMAIN s = 1..n /\ DOMAIN t = 1..Len(t)
      /\ \A i \in 1..(n + Len(t)) : both[i] = IF i <= n THEN s[i] ELSE t[i - n]
  BY LenProperties, ConcatProperties
<1> HIDE DEF both, n
<1>2. At(both, e) = At(s, e) \cup R /\ At(s, e) \cap R = {}
  <2>1. ASSUME NEW i \in At(both, e) PROVE i \in At(s, e) \cup R
    BY <1>1 DEF At
  <2>2. ASSUME NEW i \in At(s, e) PROVE i \in At(both, e) /\ i \notin R
    BY <1>1 DEF At
  <2>3. R \in SUBSET At(both, e)
    BY DEF At
  <2> HIDE DEF R
  <2> QED BY <2>1, <2>2, <2>3
<1>3. /\ IsFiniteSet(At(s, e)) /\ IsFiniteSet(At(t, e)) /\ IsFiniteSet(At(both, e))
      /\ Count(s, e) = Cardinality(At(s, e)) /\ Count(t, e) = Cardinality(At(t, e))
      /\ Count(both, e) = Cardinality(At(both, e))
  BY <1>1, CountIs
<1>4. ASSUME NEW i \in At(t, e) PROVE f[i] \in R /\ f[i] = i + n /\ i \in Nat
  <2>1. i \in 1..Len(t) /\ t[i] = e
    BY <1>1 DEF At
  <2>2. f[i] = i + n
    OBVIOUS
  <2>3. i + n \in 1..(n + Len(t)) /\ i + n > n /\ (i + n) - n = i
    BY <1>1, <2>1
  <2>4. both[i + n] = e
    BY <1>1, <2>1, <2>3
  <2> QED BY <1>1, <2>1, <2>2, <2>3, <2>4
<1>5. ASSUME NEW r \in R PROVE \E i \in At(t, e) : f[i] = r
  <2>1. r \in 1..(n + Len(t)) /\ r > n /\ t[r - n] = e
    BY <1>1
  <2>2. r - n \in 1..Len(t) /\ (r - n) + n = r
    BY <1>1, <2>1
  <2>3. r - n \in At(t, e)
    BY <1>1, <2>1, <2>2 DEF At
  <2> QED BY <2>2, <2>3
<1>6. f \in [At(t, e) -> R]
  <2> HIDE DEF R
  <2> QED BY <1>4
<1>7. \A i, j \in At(t, e) : f[i] = f[j] => i = j
  <2> SUFFICES ASSUME NEW i \in At(t, e), NEW j \in At(t, e), f[i] = f[j]
               PROVE  i = j
    OBVIOUS
  <2> HIDE DEF f, R
  <2> QED BY <1>1, <1>4
<1> HIDE DEF f, R
<1>8. IsFiniteSet(R) /\ Cardinality(R) = Cardinality(At(t, e))
  BY <1>3, <1>5, <1>6, <1>7, AsMany
<1>9. Cardinality(At(both, e)) = Cardinality(At(s, e)) + Cardinality(R)
  BY <1>2, <1>3, <1>8, Disjoint
<1> QED BY <1>3, <1>8, <1>9 DEF both

(* What is sent for an endpoint.                                           *)
EndpointSent(b) ==
  [b EXCEPT !.remote_id = IF @ = NoText THEN b.remote_public_ip ELSE @]

Endpoints == Endpoint(Texts)

LEMMA SentTyped ==
  ASSUME NEW b \in Endpoints
  PROVE  EndpointSent(b) \in Endpoints
<1> DEFINE ip == b.remote_public_ip
           id == b.remote_id
           x == IF id = NoText THEN ip ELSE id
<1>1. /\ b = [remote_public_ip |-> ip, remote_id |-> id]
      /\ ip \in Texts /\ id \in Texts \cup {NoText} /\ x \in Texts \cup {NoText}
  BY DEF Endpoints, Endpoint
<1>2. EndpointSent(b) = [b EXCEPT !.remote_id = x]
  BY Zenon DEF EndpointSent
<1> HIDE DEF ip, id, x
<1>3. [b EXCEPT !.remote_id = x] = [remote_public_ip |-> ip, remote_id |-> x]
  BY <1>1
<1>4. [remote_public_ip |-> ip, remote_id |-> x] \in Endpoints
  BY <1>1 DEF Endpoints, Endpoint
<1> QED BY <1>2, <1>3, <1>4

LEMMA SentList ==
  ASSUME NEW list \in Seq(Endpoints), NEW sent, sent = flattenDynamicTunnelDetails(list)
  PROVE  /\ sent \in Seq(Endpoints) /\ Len(sent) = Len(list)
         /\ \A e : Count(sent, e) =
                    Cardinality(Where(list, {b \in Endpoints : EndpointSent(b) = e}))
<1>1. DOMAIN list = 1..Len(list) /\ Len(list) \in Nat
  BY LenProperties
<1>2. sent = [i \in DOMAIN list |-> EndpointSent(list[i])]
  BY Zenon DEF flattenDynamicTunnelDetails, EndpointSent
<1>3. \A i \in 1..Len(list) : /\ list[i] \in Endpoints /\ EndpointSent(list[i]) \in Endpoints
                              /\ sent[i] = EndpointSent(list[i])
  BY <1>1, <1>2, ElementOfSeq, SentTyped
<1>4. sent \in [1..Len(list) -> Endpoints] /\ DOMAIN sent = 1..Len(list)
  BY <1>1, <1>2, <1>3
<1>5. sent \in Seq(Endpoints)
  BY <1>1, <1>4, SeqDef
<1>6. Len(sent) = Len(list)
  BY <1>1, <1>4, <1>5, LenProperties
<1>7. ASSUME NEW e
      PROVE  Count(sent, e) = Cardinality(Where(list, {b \in Endpoints : EndpointSent(b) = e}))
  <2>1. At(sent, e) = Where(list, {b \in Endpoints : EndpointSent(b) = e})
    BY <1>1, <1>3, <1>4 DEF At, Where
  <2> QED BY <2>1, <1>5, CountIs
<1> QED BY <1>5, <1>6, <1>7

(* As many endpoints of each sort, as they are sent.                       *)
Same(blocks, stored) ==
  LET sent == flattenDynamicTunnelDetails(blocks)
  IN /\ Len(sent) = Len(stored)
     /\ \A e \in Endpoints : Count(sent, e) = Count(stored, e)

LEMMA SameIs ==
  ASSUME NEW blocks \in Seq(Endpoints), NEW stored
  PROVE  Same(blocks, stored) <=>
           /\ Len(blocks) = Len(stored)
           /\ \A e \in Endpoints :
                Cardinality(Where(blocks, {b \in Endpoints : EndpointSent(b) = e}))
                  = Count(stored, e)
<1> DEFINE sent == flattenDynamicTunnelDetails(blocks)
<1>1. Same(blocks, stored) <=>
        /\ Len(sent) = Len(stored)
        /\ \A e \in Endpoints : Count(sent, e) = Count(stored, e)
  BY DEF Same
<1> HIDE DEF sent
<1>2. /\ Len(sent) = Len(blocks)
      /\ \A e : Count(sent, e) =
                Cardinality(Where(blocks, {b \in Endpoints : EndpointSent(b) = e}))
  BY SentList DEF sent
<1> QED BY <1>1, <1>2

(* The update adds what the server lacks: if it has the old endpoints it   *)
(* has the new ones then.                                                  *)
LEMMA SameAfter ==
  ASSUME NEW old \in Seq(Endpoints), NEW new \in Seq(Endpoints),
         NEW s \in Seq(Endpoints), NEW add, add = planDynamicTunnelEndpointChanges(old, new)
  PROVE  /\ add \in Seq(Endpoints) /\ s \o add \in Seq(Endpoints)
         /\ (/\ Same(old, s)
             /\ \A i \in DOMAIN old : Count(new, old[i]) >= Count(old, old[i]))
            => Same(new, s \o add)
<1> DEFINE A == Added(old, new)
           list == InOrder(new, A)
<1>1. add = flattenDynamicTunnelDetails(list)
  BY Zenon DEF planDynamicTunnelEndpointChanges, InOrder
<1>2. /\ list \in Seq(Endpoints)
      /\ \A Q : Cardinality(Where(list, Q)) = Cardinality(Where(new, Q) \cap A)
  BY AddedAre
<1> HIDE DEF list
<1>3. /\ add \in Seq(Endpoints) /\ Len(add) = Len(list)
      /\ \A e : Count(add, e) =
                Cardinality(Where(list, {b \in Endpoints : EndpointSent(b) = e}))
  BY <1>1, <1>2, SentList
<1>4. s \o add \in Seq(Endpoints) /\ Len(s \o add) = Len(s) + Len(add)
  BY <1>3, ConcatProperties
<1> SUFFICES ASSUME Same(old, s),
                    \A i \in DOMAIN old : Count(new, old[i]) >= Count(old, old[i])
             PROVE  Same(new, s \o add)
  BY <1>3, <1>4
<1> HIDE DEF A
<1>5. ASSUME NEW Q
      PROVE  Cardinality(Where(new, Q)) = Cardinality(Where(old, Q)) + Cardinality(Where(list, Q))
  <2> DEFINE W == Where(new, Q)
  <2>1. IsFiniteSet(W)
    BY WhereFacts
  <2> HIDE DEF W
  <2>2. /\ IsFiniteSet(W \ A) /\ IsFiniteSet(W \cap A)
        /\ W = (W \ A) \cup (W \cap A) /\ (W \ A) \cap (W \cap A) = {}
    BY <2>1, FS_Subset
  <2>3. Cardinality(W) = Cardinality(W \ A) + Cardinality(W \cap A)
    BY <2>2, Disjoint
  <2>4. Cardinality(W \ A) = Cardinality(Where(old, Q))
    BY KeptAreOld DEF W, A
  <2>5. Cardinality(W \cap A) = Cardinality(Where(list, Q))
    BY <1>2 DEF W
  <2> QED BY <2>3, <2>4, <2>5 DEF W
<1>6. /\ Len(old) = Len(s)
      /\ \A e \in Endpoints :
           Cardinality(Where(old, {b \in Endpoints : EndpointSent(b) = e})) = Count(s, e)
  BY SameIs
<1>7. ASSUME NEW e \in Endpoints
      PROVE  Cardinality(Where(new, {b \in Endpoints : EndpointSent(b) = e}))
               = Count(s \o add, e)
  <2>1. Count(s \o add, e) = Count(s, e) + Count(add, e)
    BY <1>3, CountOfBoth
  <2> QED BY <1>3, <1>5, <1>6, <2>1
<1>8. ASSUME NEW l \in Seq(Endpoints)
      PROVE  Cardinality(Where(l, Endpoints)) = Len(l)
  <2>1. DOMAIN l = 1..Len(l) /\ Len(l) \in Nat
    BY LenProperties
  <2>2. Where(l, Endpoints) = 1..Len(l)
    BY <2>1, ElementOfSeq DEF Where
  <2>3. Cardinality(1..Len(l)) = Len(l)
    BY <2>1, OneTo
  <2> QED BY <2>1, <2>2, <2>3
<1>9. Len(new) = Len(s \o add)
  <2>1. Len(new) = Len(old) + Len(list)
    BY <1>2, <1>5, <1>8
  <2> QED BY <1>3, <1>4, <1>6, <2>1
<1> QED BY <1>7, <1>9, SameIs

Names == Name(Texts)

GroupOf(name, list) == [tunnel_name |-> name, tunnel |-> list]

LEMMA GroupParts ==
  /\ \A g \in Group(Texts) : /\ g = GroupOf(g.tunnel_name, g.tunnel)
                             /\ g.tunnel_name \in Names /\ g.tunnel \in Seq(Endpoints)
  /\ \A name \in Names : \A list \in Seq(Endpoints) :
       GroupOf(name, list) \in Group(Texts)
  /\ \A name, list : /\ GroupOf(name, list).tunnel_name = name
                     /\ GroupOf(name, list).tunnel = list
                     /\ GroupOf(name, list) # Absent
<1>1. \A g \in Group(Texts) : /\ g = GroupOf(g.tunnel_name, g.tunnel)
                              /\ g.tunnel_name \in Names /\ g.tunnel \in Seq(Endpoints)
  BY DEF Group, GroupOf, Names, Endpoints
<1>2. \A name \in Names : \A list \in Seq(Endpoints) : GroupOf(name, list) \in Group(Texts)
  BY DEF Group, GroupOf, Names, Endpoints
<1>3. \A name, list : /\ GroupOf(name, list).tunnel_name = name
                      /\ GroupOf(name, list).tunnel = list
  BY DEF GroupOf
<1>4. ASSUME NEW name, NEW list, GroupOf(name, list) = <<>> PROVE FALSE
  <2>1. DOMAIN GroupOf(name, list) = {"tunnel_name", "tunnel"}
    BY DEF GroupOf
  <2>2. DOMAIN <<>> = {}
    OBVIOUS
  <2> QED BY <1>4, <2>1, <2>2
<1> QED BY <1>1, <1>2, <1>3, <1>4 DEF Absent

LEMMA NamesFacts ==
  /\ \A name \in Names : Suffixed(name) \in Names
  /\ NoName \in Names /\ NoGroup \in Group(Texts)
  /\ NoGroup.tunnel_name = NoName /\ NoGroup.tunnel = <<>>
<1>1. ASSUME NEW name \in Names PROVE Suffixed(name) \in Names
  <2> DEFINE a == name.stem
             n == name.suffixes
  <2>1. /\ name = [stem |-> a, suffixes |-> n]
        /\ a \in Texts \cup {NoText} /\ n \in Nat
    BY DEF Names, Name
  <2>2. Suffixed(name) = [name EXCEPT !.suffixes = n + 1]
    BY Zenon DEF Suffixed
  <2> HIDE DEF a, n
  <2>3. [name EXCEPT !.suffixes = n + 1] = [stem |-> a, suffixes |-> n + 1]
    BY <2>1
  <2> QED BY <2>1, <2>2, <2>3 DEF Names, Name
<1>2. NoName \in Names
  BY DEF NoName, Names, Name
<1>3. NoGroup = GroupOf(NoName, <<>>)
  BY DEF NoGroup, GroupOf
<1>4. <<>> \in Seq(Endpoints)
  BY EmptySeq
<1> QED BY <1>1, <1>2, <1>3, <1>4, GroupParts

(* A read leaves the endpoints as they were, and the name if the server's  *)
(* is made of it.                                                          *)
LEMMA GroupRead ==
  ASSUME NEW g \in Group(Texts), NEW prior \in Group(Texts),
         NEW v, v = resourceEnhancedDynamicTunnelRead(g, prior)
  PROVE  /\ v \in Group(Texts) /\ v.tunnel = prior.tunnel
         /\ dynamicTunnelNameIsDerivedFrom(g.tunnel_name, prior.tunnel_name) => v = prior
         /\ ~dynamicTunnelNameIsDerivedFrom(g.tunnel_name, prior.tunnel_name) =>
              v.tunnel_name = g.tunnel_name
<1> DEFINE old == prior.tunnel_name
           new == g.tunnel_name
           list == prior.tunnel
           x == dynamicTunnelNameForState(old, new)
<1>1. /\ prior = GroupOf(old, list) /\ list \in Seq(Endpoints)
      /\ old \in Names /\ new \in Names
  BY GroupParts
<1>2. v = [prior EXCEPT !.tunnel_name = x]
  BY Zenon DEF resourceEnhancedDynamicTunnelRead
<1>3. /\ x \in Names
      /\ dynamicTunnelNameIsDerivedFrom(new, old) => x = old
      /\ ~dynamicTunnelNameIsDerivedFrom(new, old) => x = new
  BY <1>1 DEF dynamicTunnelNameForState
<1> HIDE DEF x, list, old, new
<1>4. v = GroupOf(x, list)
  BY <1>1, <1>2 DEF GroupOf
<1>5. v \in Group(Texts) /\ v.tunnel = list /\ v.tunnel_name = x
  BY <1>1, <1>3, <1>4, GroupParts
<1> QED BY <1>1, <1>3, <1>4, <1>5 DEF list, old, new

LEMMA GroupWritten ==
  ASSUME NEW c \in Group(Texts), c.tunnel # <<>>,
         NEW s, s = Absent \/ s \in Group(Texts), NEW r \in Group(Texts),
         s # Absent => ~EndpointsGoneOrUnknown(r.tunnel, c.tunnel),
         NEW w, w = IF s = Absent THEN GroupCreated(c)
                    ELSE GroupUpdated(s, buildDynamicTunnelUpdatePayload(r, c))
  PROVE  /\ w \in Group(Texts) /\ w # Absent
         /\ w.tunnel_name = Suffixed(c.tunnel_name)
         /\ s = Absent => Same(c.tunnel, w.tunnel)
         /\ s # Absent /\ (r.tunnel = <<>> \/ Same(r.tunnel, s.tunnel)) =>
              Same(c.tunnel, w.tunnel)
<1> DEFINE new == c.tunnel
           old == r.tunnel
           name == c.tunnel_name
<1>1. name \in Names /\ new \in Seq(Endpoints) /\ old \in Seq(Endpoints)
  BY GroupParts
<1>2. CASE s = Absent
  <2> DEFINE sent == flattenDynamicTunnelDetails(new)
  <2>1. w = GroupOf(Suffixed(name), sent)
    BY <1>2 DEF GroupCreated, GroupOf
  <2>2. sent \in Seq(Endpoints)
    BY <1>1, SentList
  <2>3. Same(new, sent)
    BY DEF Same
  <2> HIDE DEF sent
  <2>4. w \in Group(Texts) /\ w # Absent /\ w.tunnel_name = Suffixed(name) /\ w.tunnel = sent
    BY <1>1, <2>1, <2>2, GroupParts, NamesFacts
  <2> QED BY <1>2, <2>3, <2>4
<1>3. CASE s # Absent
  <2> DEFINE add == planDynamicTunnelEndpointChanges(old, new)
             list == s.tunnel
             both == list \o add
  <2>1. ~(old = <<>> /\ new # <<>>) /\ \A i \in DOMAIN old : ~(Count(new, old[i]) < Count(old, old[i]))
    BY <1>3 DEF EndpointsGoneOrUnknown
  <2>2. \A i \in DOMAIN old : Count(new, old[i]) >= Count(old, old[i])
    <3>1. \A e : Count(new, e) \in Nat /\ Count(old, e) \in Nat
      BY <1>1, CountIs
    <3> QED BY <2>1, <3>1
  <2>3. list \in Seq(Endpoints)
    BY <1>3, GroupParts
  <2>4. both \in Seq(Endpoints) /\ (Same(old, list) => Same(new, both))
    <3> HIDE DEF list, old, new
    <3> QED BY <1>1, <2>2, <2>3, SameAfter
  <2> DEFINE b == buildDynamicTunnelUpdatePayload(r, c)
  <2>5. b.tunnel_name = name /\ b.tunnel = add
    BY DEF buildDynamicTunnelUpdatePayload
  <2>6. w = GroupUpdated(s, b)
    BY <1>3
  <2> HIDE DEF b, add
  <2>7. w = GroupOf(Suffixed(name), both)
    BY <2>5, <2>6 DEF GroupUpdated, GroupOf
  <2> HIDE DEF both
  <2>8. w \in Group(Texts) /\ w # Absent /\ w.tunnel_name = Suffixed(name) /\ w.tunnel = both
    BY <1>1, <2>4, <2>7, GroupParts, NamesFacts
  <2> QED BY <1>3, <2>1, <2>4, <2>8
<1> QED BY <1>2, <1>3

-----------------------------------------------------------------------------
(* Every kind of document                                                  *)

(* A record, if there is one, with ids that tell its parts.                *)
Known(k, prior) ==
  /\ Before(k, prior)
  /\ k = "ipsec_redundant" => \A r \in prior : IdsApart(r)

(* What the provider can find when it writes.                              *)
Ready(k, c, prior, s) ==
  /\ Configurable(k, c) /\ Known(k, prior) /\ Storable(k, s) /\ Fits(k, c, s)
  /\ k \in Tunnels => (s = Absent <=> prior = {})

LEMMA TunnelKinds ==
  ASSUME NEW k \in Tunnels
  PROVE  /\ k = "ipsec_redundant" \/ k = "enhanced_dynamic_tunnel"
         /\ k \notin Numbering /\ k \in Kind /\ ~Plain(k)
BY DEF Tunnels, Numbering, Policies, Kind, Plain

LEMMA PlainSound ==
  ASSUME NEW k, Plain(k)
  PROVE  Sound(k)
<1>1. k \in {"access_policy", "https_inspection_policy", "firewall_policy",
             "private_dns", "split_tunneling", "support_options",
             "internet_access_status", "object_addresses", "object_services"}
  BY DEF Plain, Kind, Policies, Objects, Tunnels
<1>2. k = "access_policy" => Sound(k)
  BY AccessSound
<1>3. k = "https_inspection_policy" => Sound(k)
  BY HttpsSound
<1>4. k = "firewall_policy" => Sound(k)
  BY FirewallSound
<1>5. k = "private_dns" => Sound(k)
  BY DnsSound
<1>6. k = "split_tunneling" => Sound(k)
  BY SplitSound
<1>7. k = "support_options" => Sound(k)
  BY SupportSound
<1>8. k = "internet_access_status" => Sound(k)
  BY InternetSound
<1>9. k = "object_addresses" => Sound(k)
  BY AddressesSound
<1>10. k = "object_services" => Sound(k)
  BY ServicesSound
<1> QED BY <1>1, <1>2, <1>3, <1>4, <1>5, <1>6, <1>7, <1>8, <1>9, <1>10

(* The prior slots or the prior group, if there is a record.               *)
LEMMA PriorTunnel ==
  ASSUME NEW k, NEW prior, Before(k, prior)
  PROVE  /\ k = "ipsec_redundant" =>
              \/ Prior(prior, Absent) = Absent /\ prior = {}
              \/ /\ Prior(prior, Absent) \in Pairs /\ Prior(prior, Absent) # Absent
                 /\ prior = {Prior(prior, Absent)}
         /\ k = "enhanced_dynamic_tunnel" =>
              /\ Prior(prior, NoGroup) \in Group(Texts)
              /\ \/ Prior(prior, NoGroup) = NoGroup /\ prior = {}
                 \/ prior = {Prior(prior, NoGroup)}
<1>1. CASE prior = {}
  BY <1>1, PriorOf, NamesFacts
<1>2. CASE prior # {}
  <2>1. PICK r : prior = {r} /\ Recordable(k, r)
    BY <1>2 DEF Before
  <2>2. Prior(prior, Absent) = r /\ Prior(prior, NoGroup) = r
    BY <2>1, PriorOf
  <2>3. k = "ipsec_redundant" => r \in Pairs /\ r # Absent
    BY <2>1, OfPair, PairPresent DEF Pairs
  <2>4. k = "enhanced_dynamic_tunnel" => r \in Group(Texts)
    BY <2>1, OfGroup
  <2> QED BY <2>1, <2>2, <2>3, <2>4
<1> QED BY <1>1, <1>2

LEMMA ConfiguredTunnel ==
  ASSUME NEW k, NEW c, Configurable(k, c)
  PROVE  /\ k = "ipsec_redundant" =>
              /\ c \in Pairs /\ \A i \in 1..2 : c[i] \in ConfiguredSlot(Texts)
         /\ k = "enhanced_dynamic_tunnel" =>
              c \in Group(Texts) /\ c.tunnel # <<>> /\ c.tunnel_name # NoName
BY OfPair, OfGroup DEF Configurable, Pairs

(* What a plan for a pair holds.                                           *)
LEMMA PairPlan ==
  ASSUME NEW k, k = "ipsec_redundant", NEW c, NEW prior, Configurable(k, c),
         Known(k, prior), NEW p, p = PlanFor(k, c, prior)
  PROVE  /\ p \in Pairs /\ IdsApart(p) /\ Complete(p)
         /\ \A i \in 1..2 :
              /\ p[i].remote_public_ip = c[i].remote_public_ip
              /\ p[i].passphrase = c[i].passphrase
              /\ c[i].remote_id # NoText => p[i].remote_id = c[i].remote_id
<1> DEFINE q == Prior(prior, Absent)
<1>1. q = Absent \/ (q \in Pairs /\ IdsApart(q))
  BY PriorTunnel DEF Known
<1>2. p = PlanSlots(c, q)
  BY OfPair
<1>3. c \in Pairs /\ \A i \in 1..2 : c[i] \in ConfiguredSlot(Texts)
  BY ConfiguredTunnel
<1> HIDE DEF q
<1>4. /\ p \in Pairs /\ IdsApart(p)
      /\ \A i \in 1..2 :
           /\ p[i].remote_public_ip = c[i].remote_public_ip
           /\ p[i].passphrase = c[i].passphrase /\ p[i].passphrase # NoText
           /\ c[i].remote_id # NoText => p[i].remote_id = c[i].remote_id
  BY <1>1, <1>2, <1>3, PairPlanned
<1> QED BY <1>4 DEF Complete

(* A plan is a document of its kind.                                       *)
LEMMA PlanTyped ==
  ASSUME NEW k \in Kind, NEW c, NEW prior, Configurable(k, c), Known(k, prior)
  PROVE  Recordable(k, PlanFor(k, c, prior))
<1>1. CASE Plain(k)
  <2>1. Plans(k)
    BY <1>1, PlainSound DEF Sound
  <2> QED BY <2>1 DEF Plans, Known
<1>2. CASE k = "ipsec_redundant"
  BY <1>2, PairPlan, OfPair DEF Pairs
<1>3. CASE k = "enhanced_dynamic_tunnel"
  BY <1>3, OfGroup, ConfiguredTunnel
<1> QED BY <1>1, <1>2, <1>3, TunnelKinds DEF Plain

(* What an accepted write leaves of a pair: each planned slot has its      *)
(* member.                                                                 *)
LEMMA PairOutcome ==
  ASSUME NEW k, k = "ipsec_redundant", NEW c, NEW prior, NEW s, Ready(k, c, prior, s),
         NEW p, p = PlanFor(k, c, prior), Accepted(k, prior, p),
         NEW w, w = Outcome(k, c, prior, s)
  PROVE  w \in StoredPair(Texts) /\ \E o \in Orders : Leaves(o, w, p)
<1>1. p \in Pairs /\ IdsApart(p) /\ Complete(p)
  BY PairPlan DEF Ready
<1>2. s = Absent \/ s \in StoredPair(Texts)
  BY OfPair DEF Ready
<1>3. s # Absent => ~UpdateNeedsIds(p)
  <2>1. k \in Tunnels
    BY DEF Tunnels
  <2> QED BY <2>1, OfPair DEF Ready, Accepted
<1>4. w = IF s = Absent THEN PairCreated(p) ELSE PairUpdated(s, p)
  BY OfPair DEF Outcome
<1> QED BY <1>1, <1>2, <1>3, <1>4, PairWritten

(* What an accepted write leaves of a group: the configured endpoints, if  *)
(* there were those of the record before.                                  *)
LEMMA GroupOutcome ==
  ASSUME NEW k, k = "enhanced_dynamic_tunnel", NEW c, NEW prior, NEW s,
         Ready(k, c, prior, s), Accepted(k, prior, PlanFor(k, c, prior)),
         NEW w, w = Outcome(k, c, prior, s)
  PROVE  /\ w \in Group(Texts) /\ w # Absent
         /\ w.tunnel_name = Suffixed(c.tunnel_name)
         /\ prior = {} => Same(c.tunnel, w.tunnel)
         /\ \A r \in prior :
              r.tunnel = <<>> \/ Same(r.tunnel, s.tunnel) => Same(c.tunnel, w.tunnel)
<1> DEFINE r == Prior(prior, NoGroup)
<1>1. c \in Group(Texts) /\ c.tunnel # <<>>
  BY ConfiguredTunnel DEF Ready
<1>2. s = Absent \/ s \in Group(Texts)
  BY OfGroup DEF Ready
<1>3. /\ r \in Group(Texts) /\ (prior = {} \/ prior = {r})
      /\ s = Absent <=> prior = {}
  <2>1. k \in Tunnels
    BY DEF Tunnels
  <2> QED BY <2>1, PriorTunnel DEF Ready, Known
<1>4. PlanFor(k, c, prior) = c
  BY OfGroup
<1>5. s # Absent => ~EndpointsGoneOrUnknown(r.tunnel, c.tunnel)
  BY <1>3, <1>4, OfGroup DEF Accepted
<1>6. w = IF s = Absent THEN GroupCreated(c)
          ELSE GroupUpdated(s, buildDynamicTunnelUpdatePayload(r, c))
  <2>1. w = IF s = Absent THEN GroupCreated(Body(k, prior, c))
            ELSE GroupUpdated(s, Body(k, prior, c))
    BY <1>4, OfGroup DEF Outcome
  <2>2. Body(k, prior, c) = IF prior = {} THEN c ELSE buildDynamicTunnelUpdatePayload(r, c)
    BY OfGroup
  <2> HIDE DEF r
  <2> QED BY <1>3, <2>1, <2>2
<1> HIDE DEF r
<1>7. /\ w \in Group(Texts) /\ w # Absent
      /\ w.tunnel_name = Suffixed(c.tunnel_name)
      /\ s = Absent => Same(c.tunnel, w.tunnel)
      /\ s # Absent /\ (r.tunnel = <<>> \/ Same(r.tunnel, s.tunnel)) =>
           Same(c.tunnel, w.tunnel)
  BY <1>1, <1>2, <1>3, <1>5, <1>6, GroupWritten
<1> QED BY <1>3, <1>7

LEMMA WriteTyped ==
  ASSUME NEW k \in Kind, NEW c, NEW prior, NEW s, Ready(k, c, prior, s),
         Accepted(k, prior, PlanFor(k, c, prior)),
         NEW w, w = Outcome(k, c, prior, s)
  PROVE  /\ Storable(k, w) /\ WarnedOf(k, w) = {}
         /\ k \in Numbering => Rules(k, w) = Rules(k, c)
         /\ k \in Tunnels => w # Absent
<1>1. CASE Plain(k)
  <2>1. Writes(k)
    BY <1>1, PlainSound DEF Sound
  <2>2. k \notin Tunnels
    BY <1>1 DEF Plain
  <2> QED BY <2>1, <2>2 DEF Writes, Ready, Known
<1>2. CASE k = "ipsec_redundant"
  <2>1. w \in StoredPair(Texts)
    BY <1>2, PairOutcome
  <2>2. w # Absent
    BY <2>1, PairPresent
  <2>3. k \notin Numbering
    BY <1>2 DEF Numbering, Policies
  <2> QED BY <1>2, <2>1, <2>2, <2>3, OfPair
<1>3. CASE k = "enhanced_dynamic_tunnel"
  <2>1. w \in Group(Texts) /\ w # Absent
    BY <1>3, GroupOutcome
  <2>2. k \notin Numbering
    BY <1>3 DEF Numbering, Policies
  <2> QED BY <1>3, <2>1, <2>2, OfGroup
<1> QED BY <1>1, <1>2, <1>3, TunnelKinds DEF Plain

(* A read of a tunnel is of one that is there; what it gives can be a      *)
(* record.                                                                 *)
LEMMA ReadTyped ==
  ASSUME NEW k \in Kind, NEW s, Storable(k, s),
         NEW prior, k \in Tunnels => Before(k, prior),
         NEW keys \in BOOLEAN, NEW v \in Readings(k, s, prior, keys)
  PROVE  /\ Known(k, {v})
         /\ k \in Tunnels => s # Absent
         /\ Plain(k) => Shows(k, s, v)
<1>1. CASE Plain(k)
  <2>1. Reads(k)
    BY <1>1, PlainSound DEF Sound
  <2>2. PICK x : /\ Shows(k, s, x) /\ Recordable(k, x)
                 /\ k \in Numbering => Unshared(RulesOf(k, x))
    BY <2>1 DEF Reads
  <2>3. v = x
    BY <2>2 DEF Shows
  <2>4. k \notin Tunnels /\ k # "ipsec_redundant"
    BY <1>1 DEF Plain, Tunnels
  <2>5. Before(k, {v})
    BY <2>2, <2>3 DEF Before
  <2> QED BY <2>2, <2>3, <2>4, <2>5 DEF Known
<1>2. CASE k = "ipsec_redundant"
  <2> DEFINE q == Prior(prior, Absent)
  <2>1. Readings(k, s, prior, keys) =
          IF s = Absent THEN {}
          ELSE {resourceIpsecRedundantRead(a, q) : a \in PairAnswers(s, keys)}
    BY <1>2, OfPair
  <2>2. s # Absent
    BY <2>1
  <2>3. s \in StoredPair(Texts)
    BY <1>2, <2>2, OfPair
  <2>4. q = Absent \/ q \in Pairs
    BY <1>2, PriorTunnel DEF Tunnels
  <2>5. PICK a \in PairAnswers(s, keys) : v = resourceIpsecRedundantRead(a, q)
    BY <2>1, <2>2
  <2> HIDE DEF q
  <2>6. v \in Pairs /\ IdsApart(v)
    BY <2>3, <2>4, <2>5, PairRead
  <2>7. Recordable(k, v) /\ k \notin Numbering /\ ~Plain(k)
    BY <1>2, <2>6, OfPair DEF Pairs, Numbering, Policies, Plain, Tunnels
  <2>8. Before(k, {v})
    BY <2>7 DEF Before
  <2> QED BY <2>2, <2>6, <2>7, <2>8 DEF Known
<1>3. CASE k = "enhanced_dynamic_tunnel"
  <2> DEFINE q == Prior(prior, NoGroup)
  <2>1. Readings(k, s, prior, keys) =
          IF s = Absent THEN {} ELSE {resourceEnhancedDynamicTunnelRead(s, q)}
    BY <1>3, OfGroup
  <2>2. s # Absent /\ v = resourceEnhancedDynamicTunnelRead(s, q)
    BY <2>1
  <2>3. s \in Group(Texts)
    BY <1>3, <2>2, OfGroup
  <2>4. q \in Group(Texts)
    BY <1>3, PriorTunnel DEF Tunnels
  <2> HIDE DEF q
  <2>5. v \in Group(Texts)
    BY <2>2, <2>3, <2>4, GroupRead
  <2>6. Recordable(k, v) /\ k \notin Numbering /\ ~Plain(k) /\ k # "ipsec_redundant"
    BY <1>3, <2>5, OfGroup DEF Numbering, Policies, Plain, Tunnels
  <2>7. Before(k, {v})
    BY <2>6 DEF Before
  <2> QED BY <2>2, <2>6, <2>7 DEF Known
<1> QED BY <1>1, <1>2, <1>3, TunnelKinds DEF Plain

LEMMA ClearTyped ==
  ASSUME NEW k \in Kind, NEW s, Storable(k, s)
  PROVE  /\ Storable(k, Cleared(k, s)) /\ WarnedOf(k, Cleared(k, s)) = {}
         /\ k \in Numbering => Rules(k, Cleared(k, s)) \in {0, Rules(k, s)}
         /\ k \in Tunnels => Cleared(k, s) = Absent
<1>1. CASE Plain(k)
  <2>1. Clears(k)
    BY <1>1, PlainSound DEF Sound
  <2>2. k \notin Tunnels
    BY <1>1 DEF Plain
  <2> QED BY <2>1, <2>2 DEF Clears
<1>2. CASE k = "ipsec_redundant"
  BY <1>2, OfPair DEF Numbering, Policies
<1>3. CASE k = "enhanced_dynamic_tunnel"
  BY <1>3, OfGroup DEF Numbering, Policies
<1> QED BY <1>1, <1>2, <1>3, TunnelKinds DEF Plain

(* Warnings are of the types the provider does not know.                   *)
LEMMA WarnedFew ==
  ASSUME NEW k, NEW s, Storable(k, s)
  PROVE  WarnedOf(k, s) \subseteq {Newer}
<1>1. CASE k = "access_policy"
  <2>1. s \in Seq(StoredAccessRule)
    BY <1>1, OfAccess
  <2>2. WarnedOf(k, s) = unknownAccessPolicyBucketTypes(AccessPolicyAnswer(s))
    BY <1>1, OfAccess
  <2>3. WarnedOf(k, s) \in SUBSET {Newer}
    BY <2>1, <2>2, AccessWarned, WarnsOfNone
  <2> QED BY <2>3
<1>2. CASE k = "https_inspection_policy"
  <2>1. s \in Seq(StoredHttpsRule)
    BY <1>2, OfHttps
  <2>2. WarnedOf(k, s) = unknownHttpsInspectionBucketTypes(HttpsInspectionAnswer(s))
    BY <1>2, OfHttps
  <2>3. WarnedOf(k, s) \in SUBSET {Newer}
    BY <2>1, <2>2, HttpsWarned, WarnsOfNone
  <2> QED BY <2>3
<1>3. CASE k \notin {"access_policy", "https_inspection_policy"}
  BY <1>3 DEF WarnedOf
<1> QED BY <1>1, <1>2, <1>3

(* There are ids enough for a document that is configured, one that the    *)
(* console may leave, or none.                                             *)
Room(k, s) == \A c \in Configs[k] : Fits(k, c, s)

LEMMA RoomFor ==
  ASSUME NEW k \in Kind
  PROVE  /\ \A s \in Configs[k] \cup Stored[k] : Room(k, s)
         /\ \A s : /\ Storable(k, s)
                   /\ k \in Numbering =>
                        Rules(k, s) = 0 \/ \E d \in Configs[k] : Rules(k, s) = Rules(k, d)
                   => Room(k, s)
         /\ \A s, d : /\ Room(k, s)
                      /\ k \in Numbering => Rules(k, d) \in {0, Rules(k, s)}
                      => Room(k, d)
<1>1. ASSUME NEW c \in Configs[k], k \in Numbering, IsFiniteSet(Ids)
      PROVE  /\ Rules(k, c) \in Nat
             /\ \A d \in Configs[k] \cup Stored[k] :
                  Rules(k, d) + Rules(k, c) <= Cardinality(Ids)
             /\ 0 + Rules(k, c) <= Cardinality(Ids)
  <2>1. \A d \in Configs[k] \cup Stored[k] :
          Rules(k, d) + Rules(k, c) <= Cardinality(Ids)
    BY <1>1, DocumentsAssumption DEF Numbering
  <2>2. Rules(k, c) \in Nat
    <3>1. Recordable(k, c)
      BY DocumentsAssumption DEF Configurable
    <3>2. CASE k = "access_policy"
      <4>1. c \in Seq(AccessRule)
        BY <3>1, <3>2, OfAccess
      <4> QED BY <3>2, <4>1, LenProperties DEF Rules
    <3>3. CASE k = "https_inspection_policy"
      <4>1. c \in Seq(HttpsRule)
        BY <3>1, <3>3, OfHttps
      <4> QED BY <3>3, <4>1, LenProperties DEF Rules
    <3>4. CASE k = "firewall_policy"
      <4>1. c.rules \in Seq(FirewallRule)
        BY <3>1, <3>4, OfFirewall
      <4> QED BY <3>4, <4>1, LenProperties DEF Rules
    <3> QED BY <1>1, <3>2, <3>3, <3>4 DEF Numbering, Policies
  <2>3. Cardinality(Ids) \in Nat
    BY <1>1, FS_CardinalityType
  <2>4. 0 + Rules(k, c) <= Cardinality(Ids)
    <3> DEFINE n == Rules(k, c)
               m == Cardinality(Ids)
    <3>1. n \in Nat /\ m \in Nat /\ n + n <= m
      BY <2>1, <2>2, <2>3
    <3> HIDE DEF n, m
    <3>2. 0 + n <= m
      BY <3>1
    <3> QED BY <3>2 DEF n, m
  <2> QED BY <2>1, <2>2, <2>4
<1>2. \A s \in Configs[k] \cup Stored[k] : Room(k, s)
  BY <1>1 DEF Room, Fits
<1>3. ASSUME NEW s, k \in Numbering =>
                        Rules(k, s) = 0 \/ \E d \in Configs[k] : Rules(k, s) = Rules(k, d)
      PROVE  Room(k, s)
  BY <1>1, <1>3 DEF Room, Fits
<1>4. ASSUME NEW s, NEW d, Room(k, s), k \in Numbering => Rules(k, d) \in {0, Rules(k, s)}
      PROVE  Room(k, d)
  BY <1>1, <1>4 DEF Room, Fits
<1> QED BY <1>2, <1>3, <1>4

-----------------------------------------------------------------------------
(* The inductive invariant                                                 *)

TypeInv ==
  /\ kind \in Kind /\ config \in Configs[kind]
  /\ late \in BOOLEAN /\ unseen \in BOOLEAN
  /\ Storable(kind, server) /\ Room(kind, server)
  /\ Known(kind, record)
  /\ told \subseteq {Newer} /\ settled \in {"no", "yes"}
  /\ edits \in 0..MaxEdits

(* The plan of an apply is still the one that would be made.               *)
OpInv ==
  /\ \/ op = Idle
     \/ op = [pc |-> "planned", plan |-> Planned] /\ settled = "no"
     \/ op = [pc |-> "written", plan |-> Planned] /\ settled = "no"
  /\ op.pc = "planned" => late \/ ~RefusedAtPlan(kind, config, Planned)

(* A tunnel of the record is on the server.                                *)
PresenceInv ==
  kind \in Tunnels =>
    /\ record # {} => server # Absent
    /\ op.pc = "planned" => (server = Absent <=> record = {})
    /\ op.pc = "written" => server # Absent
    /\ ~unseen /\ op.pc # "written" /\ record = {} => server = Absent

(* What is known of a server that has not changed since it was seen: its   *)
(* record is what a read of it gives, or it is what a write has left.      *)
SeenInv ==
  ~unseen =>
    /\ told = WarnedOf(kind, server)
    /\ Plain(kind) /\ op.pc # "written" /\ record # {} =>
         record = Readings(kind, server, {}, TRUE)
    /\ Plain(kind) /\ op.pc = "written" =>
         \E s : /\ Storable(kind, s) /\ Room(kind, s)
                /\ server = Outcome(kind, config, record, s)
                /\ Accepted(kind, record, Planned)

(* The slots are the members in the order o.                               *)
Is(o, slots, pair, needed) ==
  \A i \in 1..2 :
    /\ slots[i].remote_id = pair[o[i]].remote_id
    /\ slots[i].remote_public_ip = pair[o[i]].remote_public_ip
    /\ needed => slots[i].passphrase = pair[o[i]].passphrase

PairInv ==
  kind = "ipsec_redundant" /\ ~unseen =>
    /\ op.pc # "written" =>
         \A r \in record : \E o \in Orders : Is(o, r, server, SlotsDiffer(r))
    /\ op.pc = "written" => \E o \in Orders : Leaves(o, server, Planned)

NameOf(group, name) == group.tunnel_name \in {name, Suffixed(name)}

GroupInv ==
  kind = "enhanced_dynamic_tunnel" /\ ~unseen =>
    /\ op.pc # "written" =>
         \A r \in record : /\ NameOf(server, r.tunnel_name)
                           /\ r.tunnel = <<>> \/ Same(r.tunnel, server.tunnel)
    /\ op.pc = "written" => /\ server.tunnel_name = Suffixed(config.tunnel_name)
                            /\ Same(config.tunnel, server.tunnel)

(* After an apply the next plan is empty, and a refresh leaves it so.      *)
SettledInv ==
  settled = "yes" =>
    /\ op = Idle /\ record # {}
    /\ Plain(kind) => ~unseen /\ SettlesInOneApply
    /\ kind = "ipsec_redundant" /\ SlotsDiffer(config) =>
         Planned \in record /\ \E o \in Orders : Is(o, config, server, TRUE)
    /\ kind = "enhanced_dynamic_tunnel" =>
         Planned \in record /\ server.tunnel_name = Suffixed(config.tunnel_name)

IInv ==
  /\ TypeInv /\ OpInv /\ PresenceInv /\ SeenInv /\ PairInv /\ GroupInv
  /\ SettledInv

LEMMA OpFacts ==
  /\ Idle.pc = "idle"
  /\ \A p : /\ [pc |-> "planned", plan |-> p].pc = "planned"
            /\ [pc |-> "planned", plan |-> p].plan = p
            /\ [pc |-> "written", plan |-> p].pc = "written"
            /\ [pc |-> "written", plan |-> p].plan = p
            /\ [[pc |-> "planned", plan |-> p] EXCEPT !.pc = "written"]
                 = [pc |-> "written", plan |-> p]
BY DEF Idle

(* An apply under way can use what the lemmas on kinds tell.               *)
LEMMA Applying ==
  ASSUME IInv, op.pc = "planned"
  PROVE  /\ Ready(kind, config, record, server) /\ kind \in Kind
         /\ op = [pc |-> "planned", plan |-> Planned] /\ op.plan = Planned
         /\ settled = "no"
         /\ Planned = PlanFor(kind, config, record)
         /\ After(op.plan) = Outcome(kind, config, record, server)
         /\ ~IsRefused(op.plan) <=> Accepted(kind, record, Planned)
<1>1. op = [pc |-> "planned", plan |-> Planned] /\ settled = "no"
  BY OpFacts DEF IInv, OpInv
<1>2. op.plan = Planned
  BY <1>1, OpFacts
<1>3. Configurable(kind, config)
  BY DocumentsAssumption DEF IInv, TypeInv
<1>4. Ready(kind, config, record, server)
  BY <1>3 DEF Ready, IInv, TypeInv, Room, PresenceInv
<1>5. Planned = PlanFor(kind, config, record)
  BY DEF Planned
<1>6. After(op.plan) = Outcome(kind, config, record, server)
  BY <1>2, <1>5 DEF After, Outcome, Sent
<1>7. ~IsRefused(op.plan) <=> Accepted(kind, record, Planned)
  BY <1>2 DEF IsRefused, Accepted, Sent
<1> QED BY <1>1, <1>2, <1>4, <1>5, <1>6, <1>7 DEF IInv, TypeInv

LEMMA InitInv ==
  ASSUME Init
  PROVE  IInv
<1>1. kind \in Kind /\ config \in Configs[kind] /\ server \in Stored[kind]
  BY DEF Init
<1>2. record = {} /\ op = Idle /\ op.pc = "idle" /\ unseen = TRUE /\ settled = "no"
  BY OpFacts DEF Init
<1>3. Storable(kind, server) /\ Room(kind, server)
  BY <1>1, RoomFor, DocumentsAssumption
<1>4. Known(kind, record)
  BY <1>2 DEF Known, Before
<1>5. TypeInv
  <2>1. edits \in 0..MaxEdits
    BY DocumentsAssumption DEF Init
  <2>2. late \in BOOLEAN /\ unseen \in BOOLEAN /\ told \subseteq {Newer}
    BY DEF Init
  <2> QED BY <1>1, <1>2, <1>3, <1>4, <2>1, <2>2 DEF TypeInv
<1>6. OpInv
  BY <1>2 DEF OpInv
<1>7. PresenceInv /\ SeenInv /\ PairInv /\ GroupInv /\ SettledInv
  BY <1>2 DEF PresenceInv, SeenInv, PairInv, GroupInv, SettledInv
<1> QED BY <1>5, <1>6, <1>7 DEF IInv

(* The plan of an apply under way.                                         *)
LEMMA OpKept ==
  ASSUME IInv, Next
  PROVE  OpInv'
<1> USE OpFacts
<1>1. CASE Refresh
  BY <1>1 DEF Refresh, OpInv
<1>2. CASE Plan
  <2>1. /\ op' = [pc |-> "planned", plan |-> Planned] /\ settled' = "no"
        /\ late \/ ~RefusedAtPlan(kind, config, Planned)
    BY <1>2 DEF Plan
  <2>2. Planned' = Planned /\ kind' = kind /\ config' = config /\ late' = late
    BY <1>2 DEF Plan, Planned
  <2> QED BY <2>1, <2>2 DEF OpInv
<1>3. CASE Write
  <2>1. op = [pc |-> "planned", plan |-> Planned] /\ settled = "no"
    BY <1>3, Applying DEF Write
  <2>2. op' = [op EXCEPT !.pc = "written"] /\ settled' = settled
    BY <1>3 DEF Write
  <2>3. Planned' = Planned
    BY <1>3 DEF Write, Planned
  <2>4. op' = [pc |-> "written", plan |-> Planned']
    BY <2>1, <2>2, <2>3
  <2> QED BY <2>1, <2>2, <2>4 DEF OpInv
<1>4. CASE WriteNotAwaited
  BY <1>4 DEF WriteNotAwaited, OpInv
<1>5. CASE Refused
  BY <1>5 DEF Refused, OpInv
<1>6. CASE Reread
  BY <1>6 DEF Reread, OpInv
<1>7. CASE Delete
  BY <1>7 DEF Delete, OpInv
<1>8. CASE EditConfig
  BY <1>8 DEF EditConfig, OpInv
<1>9. CASE Console
  <2>1. Planned' = Planned /\ kind' = kind /\ config' = config /\ late' = late
    BY <1>9 DEF Console, Planned
  <2>2. op' = op /\ settled' = "no"
    BY <1>9 DEF Console
  <2>3. OpInv
    BY DEF IInv
  <2> QED BY <2>1, <2>2, <2>3 DEF OpInv
<1> QED BY <1>1, <1>2, <1>3, <1>4, <1>5, <1>6, <1>7, <1>8, <1>9 DEF Next

(* What every step leaves alone or keeps within its bounds.                *)
LEMMA Frame ==
  ASSUME IInv, Next
  PROVE  /\ kind' = kind /\ kind \in Kind /\ config' \in Configs[kind]
         /\ late' \in BOOLEAN /\ unseen' \in BOOLEAN /\ settled' \in {"no", "yes"}
         /\ edits' \in 0..MaxEdits
<1>1. /\ kind \in Kind /\ config \in Configs[kind] /\ late \in BOOLEAN
      /\ unseen \in BOOLEAN /\ settled \in {"no", "yes"} /\ edits \in 0..MaxEdits
  BY DEF IInv, TypeInv
<1>2. kind' = kind
  BY DEF Next, Refresh, Plan, Write, WriteNotAwaited, Refused, Reread, Delete,
         EditConfig, Console
<1>3. config' \in Configs[kind]
  BY <1>1 DEF Next, Refresh, Plan, Write, WriteNotAwaited, Refused, Reread, Delete,
              EditConfig, Console
<1>4. late' \in BOOLEAN
  BY <1>1 DEF Next, Refresh, Plan, Write, WriteNotAwaited, Refused, Reread, Delete,
              EditConfig, Console
<1>5. unseen' \in BOOLEAN
  BY <1>1 DEF Next, Refresh, Plan, Write, WriteNotAwaited, Refused, Reread, Delete,
              EditConfig, Console
<1>6. settled' \in {"no", "yes"}
  BY <1>1 DEF Next, Refresh, Plan, Write, WriteNotAwaited, Refused, Reread, Delete,
              EditConfig, Console
<1>7. edits' = edits \/ Edit
  BY DEF Next, Refresh, Plan, Write, WriteNotAwaited, Refused, Reread, Delete,
         EditConfig, Console
<1>8. edits' \in 0..MaxEdits
  BY <1>1, <1>7, DocumentsAssumption DEF Edit
<1> QED BY <1>1, <1>2, <1>3, <1>4, <1>5, <1>6, <1>8

(* The outcome of an apply.                                                *)
LEMMA Outcomes ==
  ASSUME IInv, op.pc = "planned", ~IsRefused(op.plan),
         NEW w, w = After(op.plan)
  PROVE  /\ Storable(kind, w) /\ Room(kind, w) /\ WarnedOf(kind, w) = {}
         /\ kind \in Tunnels => w # Absent
<1>1. /\ Ready(kind, config, record, server) /\ kind \in Kind
      /\ w = Outcome(kind, config, record, server)
      /\ Accepted(kind, record, PlanFor(kind, config, record))
  BY Applying
<1>2. /\ Storable(kind, w) /\ WarnedOf(kind, w) = {}
      /\ kind \in Numbering => Rules(kind, w) = Rules(kind, config)
      /\ kind \in Tunnels => w # Absent
  BY <1>1, WriteTyped
<1>3. config \in Configs[kind]
  BY DEF IInv, TypeInv
<1>4. Room(kind, w)
  BY <1>1, <1>2, <1>3, RoomFor
<1> QED BY <1>2, <1>4

(* What a read of the server can be given as the prior document.           *)
LEMMA PriorPlan ==
  ASSUME IInv, op.pc = "written"
  PROVE  /\ op.plan = Planned /\ settled = "no"
         /\ Planned = PlanFor(kind, config, record) /\ Configurable(kind, config)
         /\ Recordable(kind, Planned)
         /\ kind \in Tunnels => Before(kind, {op.plan})
<1>1. op.plan = Planned /\ settled = "no"
  BY OpFacts DEF IInv, OpInv
<1>2. kind \in Kind /\ Configurable(kind, config) /\ Known(kind, record)
  BY DocumentsAssumption DEF IInv, TypeInv
<1>3. Planned = PlanFor(kind, config, record)
  BY DEF Planned
<1>4. Recordable(kind, Planned)
  BY <1>2, <1>3, PlanTyped
<1>5. kind \in Tunnels => Before(kind, {op.plan})
  BY <1>1, <1>4, TunnelKinds DEF Before
<1> QED BY <1>1, <1>2, <1>3, <1>4, <1>5

LEMMA TypeKept ==
  ASSUME IInv, Next
  PROVE  TypeInv'
<1>1. /\ Storable(kind, server) /\ Room(kind, server) /\ Known(kind, record)
      /\ told \subseteq {Newer} /\ kind \in Kind
  BY DEF IInv, TypeInv
<1>2. Storable(kind, server') /\ Room(kind, server')
  <2>1. server' = server \/ Write \/ WriteNotAwaited \/ Delete \/ Console
    BY DEF Next, Refresh, Plan, Refused, Reread, EditConfig
  <2>2. CASE Write \/ WriteNotAwaited
    <3>1. op.pc = "planned" /\ ~IsRefused(op.plan) /\ server' \in {server, After(op.plan)}
      BY <2>2 DEF Write, WriteNotAwaited
    <3> QED BY <1>1, <3>1, Outcomes
  <2>3. CASE Delete
    <3>1. server' = Cleared(kind, server)
      BY <2>3 DEF Delete
    <3>2. /\ Storable(kind, server')
          /\ kind \in Numbering => Rules(kind, server') \in {0, Rules(kind, server)}
      BY <1>1, <3>1, ClearTyped
    <3>3. Room(kind, server')
      BY <1>1, <3>2, RoomFor
    <3> QED BY <3>2, <3>3
  <2>4. CASE Console
    <3>1. server' \in Stored[kind]
      BY <2>4 DEF Console
    <3> QED BY <1>1, <3>1, RoomFor, DocumentsAssumption
  <2> QED BY <1>1, <2>1, <2>2, <2>3, <2>4
<1>3. Known(kind, record')
  <2>1. record' = record \/ Refresh \/ Reread \/ Delete
    BY DEF Next, Plan, Write, WriteNotAwaited, Refused, EditConfig, Console
  <2>2. CASE Refresh
    <3>1. PICK keys \in BOOLEAN :
            \E v \in Readings(kind, server, record, keys) : record' = {v}
      BY <2>2 DEF Refresh
    <3>2. PICK v \in Readings(kind, server, record, keys) : record' = {v}
      BY <3>1
    <3>3. Known(kind, {v})
      BY <1>1, ReadTyped DEF Known
    <3> QED BY <3>2, <3>3
  <2>3. CASE Reread
    <3>1. PICK keys \in BOOLEAN :
            \E v \in Readings(kind, server, {op.plan}, keys) : record' = {v}
      BY <2>3 DEF Reread
    <3>2. PICK v \in Readings(kind, server, {op.plan}, keys) : record' = {v}
      BY <3>1
    <3>3. kind \in Tunnels => Before(kind, {op.plan})
      BY <2>3, PriorPlan DEF Reread
    <3>4. Known(kind, {v})
      BY <1>1, <3>3, ReadTyped
    <3> QED BY <3>2, <3>4
  <2>4. CASE Delete
    <3>1. record' = {}
      BY <2>4 DEF Delete
    <3> QED BY <3>1 DEF Known, Before
  <2> QED BY <1>1, <2>1, <2>2, <2>3, <2>4
<1>4. told' \subseteq {Newer}
  <2>1. told' = told \/ told' = {} \/ told' = WarnedOf(kind, server)
    BY DEF Next, Refresh, Plan, Write, WriteNotAwaited, Refused, Reread, Delete,
           EditConfig, Console
  <2>2. WarnedOf(kind, server) \subseteq {Newer}
    BY <1>1, WarnedFew
  <2> QED BY <1>1, <2>1, <2>2
<1> QED BY <1>2, <1>3, <1>4, Frame DEF TypeInv

(* What a refresh and what the read after a write give.                    *)
LEMMA Refreshed ==
  ASSUME IInv, Refresh
  PROVE  \E keys \in BOOLEAN : \E v \in Readings(kind, server, record, keys) :
           /\ record' = {v} /\ unseen' = (unseen /\ HidesSome(keys))
           /\ kind \in Tunnels => server # Absent
           /\ Plain(kind) => Shows(kind, server, v)
<1>1. PICK keys \in BOOLEAN :
        /\ \E v \in Readings(kind, server, record, keys) : record' = {v}
        /\ unseen' = (unseen /\ HidesSome(keys))
  BY DEF Refresh
<1>2. PICK v \in Readings(kind, server, record, keys) : record' = {v}
  BY <1>1
<1>3. /\ Storable(kind, server) /\ kind \in Kind /\ Before(kind, record)
  BY DEF IInv, TypeInv, Known
<1>4. /\ kind \in Tunnels => server # Absent
      /\ Plain(kind) => Shows(kind, server, v)
  BY <1>3, ReadTyped
<1> QED BY <1>1, <1>2, <1>4

LEMMA Rereads ==
  ASSUME IInv, Reread
  PROVE  \E keys \in BOOLEAN : \E v \in Readings(kind, server, {Planned}, keys) :
           /\ record' = {v}
           /\ unseen' = (\/ unseen
                         \/ kind = "ipsec_redundant" /\ ~keys /\ ~SlotsDiffer(Planned))
           /\ kind \in Tunnels => server # Absent
           /\ Plain(kind) => Shows(kind, server, v)
<1>1. op.pc = "written"
  BY DEF Reread
<1>2. op.plan = Planned /\ (kind \in Tunnels => Before(kind, {Planned}))
  BY <1>1, PriorPlan
<1>3. PICK keys \in BOOLEAN :
        /\ \E v \in Readings(kind, server, {op.plan}, keys) : record' = {v}
        /\ unseen' = (\/ unseen
                      \/ kind = "ipsec_redundant" /\ ~keys /\ ~SlotsDiffer(op.plan))
  BY DEF Reread
<1>4. PICK v \in Readings(kind, server, {Planned}, keys) : record' = {v}
  BY <1>2, <1>3
<1>5. Storable(kind, server) /\ kind \in Kind
  BY DEF IInv, TypeInv
<1>6. /\ kind \in Tunnels => server # Absent
      /\ Plain(kind) => Shows(kind, server, v)
  BY <1>2, <1>5, ReadTyped
<1> QED BY <1>2, <1>3, <1>4, <1>6

LEMMA PresenceKept ==
  ASSUME IInv, Next
  PROVE  PresenceInv'
<1> SUFFICES ASSUME kind \in Tunnels
             PROVE  /\ record' # {} => server' # Absent
                    /\ op'.pc = "planned" => (server' = Absent <=> record' = {})
                    /\ op'.pc = "written" => server' # Absent
                    /\ ~unseen' /\ op'.pc # "written" /\ record' = {} => server' = Absent
  BY Frame DEF PresenceInv
<1>1. /\ record # {} => server # Absent
      /\ op.pc = "planned" => (server = Absent <=> record = {})
      /\ op.pc = "written" => server # Absent
      /\ ~unseen /\ op.pc # "written" /\ record = {} => server = Absent
  BY DEF IInv, PresenceInv
<1>2. CASE Refresh
  <2>1. record' # {} /\ server # Absent
    BY <1>2, Refreshed
  <2>2. server' = server /\ op' = op /\ op = Idle
    BY <1>2 DEF Refresh
  <2> QED BY <2>1, <2>2, OpFacts
<1>3. CASE Plan
  <2>1. /\ op = Idle /\ op' = [pc |-> "planned", plan |-> Planned]
        /\ server' = server /\ record' = record /\ unseen' = unseen
        /\ server # Absent => record # {}
    BY <1>3 DEF Plan
  <2> QED BY <1>1, <2>1, OpFacts
<1>4. CASE Write
  <2>1. op.pc = "planned" /\ ~IsRefused(op.plan) /\ server' = After(op.plan)
    BY <1>4 DEF Write
  <2>2. server' # Absent
    BY <2>1, Outcomes
  <2>3. op' = [op EXCEPT !.pc = "written"] /\ op = [pc |-> "planned", plan |-> Planned]
    BY <1>4, <2>1, Applying DEF Write
  <2>4. op'.pc = "written"
    BY <2>3, OpFacts
  <2> QED BY <2>2, <2>4
<1>5. CASE WriteNotAwaited
  <2>1. /\ op.pc = "planned" /\ ~IsRefused(op.plan)
        /\ server' \in {server, After(op.plan)} /\ record # {} /\ record' = record
        /\ op' = Idle /\ unseen'
    BY <1>5 DEF WriteNotAwaited
  <2>2. server' # Absent
    BY <1>1, <2>1, Outcomes
  <2> QED BY <2>1, <2>2, OpFacts
<1>6. CASE Refused
  <2>1. /\ op.pc = "planned" /\ op' = Idle
        /\ server' = server /\ record' = record /\ unseen' = unseen
    BY <1>6 DEF Refused
  <2> QED BY <1>1, <2>1, OpFacts
<1>7. CASE Reread
  <2>1. record' # {} /\ server # Absent
    BY <1>7, Rereads
  <2>2. server' = server /\ op' = Idle
    BY <1>7 DEF Reread
  <2> QED BY <2>1, <2>2, OpFacts
<1>8. CASE Delete
  <2>1. server' = Cleared(kind, server) /\ record' = {} /\ op' = Idle
    BY <1>8 DEF Delete
  <2>2. server' = Absent
    BY <2>1, ClearTyped DEF IInv, TypeInv
  <2> QED BY <2>1, <2>2, OpFacts
<1>9. CASE EditConfig
  <2>1. server' = server /\ record' = record /\ unseen' = unseen /\ op' = op
    BY <1>9 DEF EditConfig
  <2> QED BY <1>1, <2>1
<1>10. CASE Console
  <2>1. /\ record' = record /\ unseen' /\ op' = op
        /\ server # Absent /\ server' # Absent
    BY <1>10 DEF Console
  <2> QED BY <1>1, <2>1
<1> QED BY <1>2, <1>3, <1>4, <1>5, <1>6, <1>7, <1>8, <1>9, <1>10 DEF Next

LEMMA SeenKept ==
  ASSUME IInv, Next
  PROVE  SeenInv'
<1> SUFFICES ASSUME ~unseen'
             PROVE  /\ told' = WarnedOf(kind, server')
                    /\ Plain(kind) /\ op'.pc # "written" /\ record' # {} =>
                         record' = Readings(kind, server', {}, TRUE)
                    /\ Plain(kind) /\ op'.pc = "written" =>
                         \E s : /\ Storable(kind, s) /\ Room(kind, s)
                                /\ server' = Outcome(kind, config', record', s)
                                /\ Accepted(kind, record', Planned')
  BY Frame DEF SeenInv
<1>1. ASSUME ~unseen
      PROVE  /\ told = WarnedOf(kind, server)
             /\ Plain(kind) /\ op.pc # "written" /\ record # {} =>
                  record = Readings(kind, server, {}, TRUE)
  BY <1>1 DEF IInv, SeenInv
<1>2. CASE Refresh
  <2>1. /\ server' = server /\ op' = op /\ op = Idle
        /\ told' = WarnedOf(kind, server)
    BY <1>2 DEF Refresh
  <2>2. PICK v : record' = {v} /\ (Plain(kind) => Shows(kind, server, v))
    BY <1>2, Refreshed
  <2>3. Plain(kind) => record' = Readings(kind, server, {}, TRUE)
    BY <2>2 DEF Shows
  <2> QED BY <2>1, <2>3, OpFacts
<1>3. CASE Plan
  <2>1. /\ op = Idle /\ op' = [pc |-> "planned", plan |-> Planned]
        /\ server' = server /\ record' = record /\ unseen' = unseen /\ told' = told
    BY <1>3 DEF Plan
  <2> QED BY <1>1, <2>1, OpFacts
<1>4. CASE Write
  <2>1. /\ op.pc = "planned" /\ ~IsRefused(op.plan) /\ server' = After(op.plan)
        /\ told' = {} /\ config' = config /\ record' = record /\ kind' = kind
        /\ op' = [op EXCEPT !.pc = "written"]
    BY <1>4 DEF Write
  <2>2. told' = WarnedOf(kind, server')
    BY <2>1, Outcomes
  <2>3. /\ op = [pc |-> "planned", plan |-> Planned]
        /\ server' = Outcome(kind, config, record, server)
        /\ Accepted(kind, record, Planned)
    BY <2>1, Applying
  <2>4. op'.pc = "written"
    BY <2>1, <2>3, OpFacts
  <2>5. Planned' = Planned
    BY <2>1 DEF Planned
  <2>6. Storable(kind, server) /\ Room(kind, server)
    BY DEF IInv, TypeInv
  <2> QED BY <2>1, <2>2, <2>3, <2>4, <2>5, <2>6
<1>5. CASE WriteNotAwaited
  BY <1>5 DEF WriteNotAwaited
<1>6. CASE Refused
  <2>1. /\ op.pc = "planned" /\ op' = Idle
        /\ server' = server /\ record' = record /\ unseen' = unseen /\ told' = told
    BY <1>6 DEF Refused
  <2> QED BY <1>1, <2>1, OpFacts
<1>7. CASE Reread
  <2>1. server' = server /\ op' = Idle /\ told' = told
    BY <1>7 DEF Reread
  <2>2. PICK v : /\ record' = {v} /\ (Plain(kind) => Shows(kind, server, v))
                 /\ ~unseen
    BY <1>7, Rereads
  <2>3. Plain(kind) => record' = Readings(kind, server, {}, TRUE)
    BY <2>2 DEF Shows
  <2> QED BY <1>1, <2>1, <2>2, <2>3, OpFacts
<1>8. CASE Delete
  <2>1. server' = Cleared(kind, server) /\ record' = {} /\ op' = Idle /\ told' = {}
    BY <1>8 DEF Delete
  <2>2. WarnedOf(kind, server') = {}
    BY <2>1, ClearTyped DEF IInv, TypeInv
  <2> QED BY <2>1, <2>2, OpFacts
<1>9. CASE EditConfig
  <2>1. /\ server' = server /\ record' = record /\ unseen' = unseen /\ op' = op
        /\ op = Idle /\ told' = told
    BY <1>9 DEF EditConfig
  <2> QED BY <1>1, <2>1, OpFacts
<1>10. CASE Console
  BY <1>10 DEF Console
<1> QED BY <1>2, <1>3, <1>4, <1>5, <1>6, <1>7, <1>8, <1>9, <1>10 DEF Next

(* A read that shows the passphrases gives the members as they are.        *)
LEMMA PairShown ==
  ASSUME NEW s \in StoredPair(Texts), NEW prior, NEW v \in Pairs, NEW o \in Orders,
         ReadIn(o, v, s, prior, TRUE)
  PROVE  Is(o, v, s, TRUE)
<1>1. \A i \in 1..2 :
        /\ v[i].remote_id = s[o[i]].remote_id
        /\ v[i].remote_public_ip = s[o[i]].remote_public_ip
        /\ v[i].passphrase = s[o[i]].passphrase
  BY DEF ReadIn
<1> QED BY <1>1 DEF Is

Alike(slots, others) ==
  \A i \in 1..2 : /\ slots[i].remote_id = others[i].remote_id
                  /\ slots[i].remote_public_ip = others[i].remote_public_ip
                  /\ slots[i].passphrase = others[i].passphrase

(* One that knows the order of slots that tell leaves them as they are.    *)
LEMMA PairSame ==
  ASSUME NEW s \in StoredPair(Texts), NEW keys \in BOOLEAN,
         NEW prior \in Pairs, NEW v \in Pairs, NEW o \in Orders,
         ReadIn(o, v, s, prior, keys), \A u \in Orders : Tells(prior, u, s) => o = u,
         NEW w \in Orders, Is(w, prior, s, TRUE), SlotsDiffer(prior)
  PROVE  Is(o, v, s, TRUE) /\ Alike(v, prior)
<1>1. prior # Absent
  BY PairPresent DEF Pairs
<1>2. \A i \in 1..2 :
        /\ v[i].remote_id = s[o[i]].remote_id
        /\ v[i].remote_public_ip = s[o[i]].remote_public_ip
        /\ v[i].passphrase = IF keys THEN s[o[i]].passphrase
                             ELSE IF prior = Absent THEN NoText ELSE prior[i].passphrase
  BY DEF ReadIn
<1>3. \A i \in 1..2 : /\ prior[i].remote_id = s[w[i]].remote_id
                      /\ prior[i].remote_public_ip = s[w[i]].remote_public_ip
                      /\ prior[i].passphrase = s[w[i]].passphrase
  BY DEF Is
<1>4. Tells(prior, w, s)
  BY <1>1, <1>3 DEF Tells, SlotsDiffer
<1>5. o = w
  BY <1>4
<1>6. \A i \in 1..2 : /\ v[i].remote_id = prior[i].remote_id
                      /\ v[i].remote_public_ip = prior[i].remote_public_ip
                      /\ v[i].passphrase = prior[i].passphrase
  BY <1>1, <1>2, <1>3, <1>5
<1>7. Is(o, v, s, TRUE)
  BY <1>3, <1>5, <1>6 DEF Is
<1> QED BY <1>6, <1>7 DEF Alike

(* One that knows the slots gives slots that tell as they are.             *)
LEMMA PairStill ==
  ASSUME NEW s \in StoredPair(Texts), NEW keys \in BOOLEAN,
         NEW prior \in Pairs, NEW v \in Pairs, NEW o \in Orders,
         ReadIn(o, v, s, prior, keys), \A u \in Orders : Tells(prior, u, s) => o = u,
         NEW w \in Orders, Is(w, prior, s, SlotsDiffer(prior))
  PROVE  Is(o, v, s, SlotsDiffer(v))
<1>1. \A i \in 1..2 :
        /\ v[i].remote_id = s[o[i]].remote_id
        /\ v[i].remote_public_ip = s[o[i]].remote_public_ip
  BY DEF ReadIn
<1>2. \A i \in 1..2 : prior[i].remote_id = s[w[i]].remote_id
  BY DEF Is
<1>3. CASE SlotsDiffer(v)
  <2>1. s[o[1]].remote_id # s[o[2]].remote_id
    BY <1>1, <1>3 DEF SlotsDiffer
  <2>2. s[1].remote_id # s[2].remote_id
    BY <2>1, OrderFacts
  <2>3. s[w[1]].remote_id # s[w[2]].remote_id
    BY <2>2, OrderFacts
  <2>4. s[w[1]].remote_id # NoText /\ s[w[2]].remote_id # NoText
    BY PairPresent, OrderFacts
  <2>5. SlotsDiffer(prior)
    BY <1>2, <2>3, <2>4 DEF SlotsDiffer
  <2>6. Is(w, prior, s, TRUE)
    BY <2>5 DEF Is
  <2>7. Is(o, v, s, TRUE)
    BY <2>5, <2>6, PairSame
  <2> QED BY <2>7 DEF Is
<1>4. CASE ~SlotsDiffer(v)
  BY <1>1, <1>4 DEF Is
<1> QED BY <1>3, <1>4

(* What a write leaves is what was planned, when its remote_ids are.       *)
LEMMA PairLeft ==
  ASSUME NEW p \in Pairs, NEW s, NEW o \in Orders, Leaves(o, s, p)
  PROVE  SlotsDiffer(p) => Is(o, p, s, TRUE)
<1>1. ASSUME NEW i \in 1..2
      PROVE  /\ s[o[i]].remote_public_ip = p[i].remote_public_ip
             /\ s[o[i]].passphrase = p[i].passphrase
             /\ p[i].remote_id # NoText => s[o[i]].remote_id = p[i].remote_id
  <2>1. s[o[i]] = MemberStored(p[i], MemberIds[o[i]])
    BY DEF Leaves
  <2>2. p[i] \in Slot(Texts) /\ MemberIds[o[i]] \in TunnelIds
    BY PairPresent, MembersApart, OrderFacts
  <2> DEFINE x == p[i]
             id == MemberIds[o[i]]
             m == s[o[i]]
  <2>3. x \in Slot(Texts) /\ id \in TunnelIds /\ m = MemberStored(x, id)
    BY <2>1, <2>2
  <2> HIDE DEF x, id, m
  <2>4. /\ m.remote_id = RemoteId(x) /\ m.remote_public_ip = x.remote_public_ip
        /\ m.passphrase = x.passphrase
        /\ x.remote_id # NoText => RemoteId(x) = x.remote_id
    BY <2>3, MemberIs
  <2> QED BY <2>4 DEF x, m
<1>2. SlotsDiffer(p) => Is(o, p, s, TRUE)
  <2>1. SlotsDiffer(p) => \A i \in 1..2 : p[i].remote_id # NoText
    BY DEF SlotsDiffer
  <2> QED BY <1>1, <2>1 DEF Is
<1> QED BY <1>2

LEMMA PairReading ==
  ASSUME NEW k, k = "ipsec_redundant", NEW s, Storable(k, s),
         NEW prior, Before(k, prior), NEW keys \in BOOLEAN,
         NEW v \in Readings(k, s, prior, keys), NEW q, q = Prior(prior, Absent)
  PROVE  /\ s \in StoredPair(Texts) /\ v \in Pairs /\ IdsApart(v)
         /\ q = Absent \/ q \in Pairs
         /\ \E o \in Orders :
              /\ ReadIn(o, v, s, q, keys)
              /\ \A u \in Orders : Tells(q, u, s) => o = u
<1>1. Readings(k, s, prior, keys) =
        IF s = Absent THEN {}
        ELSE {resourceIpsecRedundantRead(a, q) : a \in PairAnswers(s, keys)}
  BY OfPair
<1>2. s # Absent
  BY <1>1
<1>3. s \in StoredPair(Texts)
  BY <1>2, OfPair
<1>4. q = Absent \/ q \in Pairs
  BY PriorTunnel
<1>5. PICK a \in PairAnswers(s, keys) : v = resourceIpsecRedundantRead(a, q)
  BY <1>1, <1>2
<1>6. /\ v \in Pairs /\ IdsApart(v)
      /\ \E o \in Orders :
           /\ ReadIn(o, v, s, q, keys)
           /\ \A u \in Orders : Tells(q, u, s) => o = u
  BY <1>3, <1>4, <1>5, PairRead
<1> QED BY <1>3, <1>4, <1>6

(* The plan of slots that are recorded as they are configured is empty.    *)
LEMMA PairAgain ==
  ASSUME NEW k, k = "ipsec_redundant", NEW c, Configurable(k, c),
         NEW v \in Pairs, IdsApart(v), SlotsDiffer(c), Alike(v, c)
  PROVE  PlanFor(k, c, {v}) = v
<1> DEFINE p == PlanFor(k, c, {v})
<1>1. c \in Pairs /\ \A i \in 1..2 : c[i] \in ConfiguredSlot(Texts)
  BY ConfiguredTunnel
<1>2. p = PlanSlots(c, v)
  <2>1. Prior({v}, Absent) = v
    BY PriorOf
  <2> QED BY <2>1, OfPair
<1>3. v # Absent
  BY PairPresent DEF Pairs
<1> HIDE DEF p
<1>4. /\ p \in Pairs
      /\ \A i \in 1..2 :
           p[i] = SlotOf(v[i].tunnel_id,
                         IF c[i].remote_id # NoText THEN c[i].remote_id
                         ELSE v[i].remote_id,
                         c[i].remote_public_ip, c[i].passphrase)
  BY <1>1, <1>2, <1>3, PairPlanned
<1>5. ASSUME NEW i \in 1..2 PROVE p[i] = v[i]
  <2>1. /\ c[i].remote_id # NoText /\ v[i].remote_id = c[i].remote_id
        /\ v[i].remote_public_ip = c[i].remote_public_ip
        /\ v[i].passphrase = c[i].passphrase
    BY DEF SlotsDiffer, Alike
  <2>2. p[i] = SlotOf(v[i].tunnel_id, v[i].remote_id, v[i].remote_public_ip,
                      v[i].passphrase)
    BY <1>4, <2>1
  <2>3. v[i] \in Slot(Texts)
    BY PairPresent
  <2> DEFINE x == v[i]
  <2>4. x = SlotOf(x.tunnel_id, x.remote_id, x.remote_public_ip, x.passphrase)
    BY <2>3, SlotParts
  <2> QED BY <2>2, <2>4
<1>6. p = v
  BY <1>4, <1>5 DEF Pairs
<1> QED BY <1>6 DEF p

LEMMA PairKept ==
  ASSUME IInv, Next
  PROVE  PairInv'
<1> SUFFICES ASSUME kind = "ipsec_redundant", ~unseen'
             PROVE  /\ op'.pc # "written" =>
                         \A r \in record' :
                           \E o \in Orders : Is(o, r, server', SlotsDiffer(r))
                    /\ op'.pc = "written" => \E o \in Orders : Leaves(o, server', Planned')
  BY Frame DEF PairInv
<1>1. ASSUME ~unseen
      PROVE  /\ op.pc # "written" =>
                  \A r \in record : \E o \in Orders : Is(o, r, server, SlotsDiffer(r))
             /\ op.pc = "written" => \E o \in Orders : Leaves(o, server, Planned)
  BY <1>1 DEF IInv, PairInv
<1>2. kind \in Tunnels /\ Storable(kind, server) /\ Known(kind, record)
  BY DEF Tunnels, IInv, TypeInv
<1>3. CASE Refresh
  <2>1. PICK keys \in BOOLEAN : \E v \in Readings(kind, server, record, keys) :
           record' = {v} /\ unseen' = (unseen /\ HidesSome(keys))
    BY <1>3, Refreshed
  <2>2. PICK v \in Readings(kind, server, record, keys) : record' = {v}
    BY <2>1
  <2>3. server' = server /\ op' = Idle /\ op = Idle
    BY <1>3 DEF Refresh
  <2> DEFINE q == Prior(record, Absent)
  <2>4. /\ server \in StoredPair(Texts) /\ v \in Pairs
        /\ q = Absent \/ q \in Pairs
        /\ \E o \in Orders :
             /\ ReadIn(o, v, server, q, keys)
             /\ \A u \in Orders : Tells(q, u, server) => o = u
    BY <1>2, PairReading DEF Known
  <2>5. PICK o \in Orders : /\ ReadIn(o, v, server, q, keys)
                            /\ \A u \in Orders : Tells(q, u, server) => o = u
    BY <2>4
  <2>6. (record = {} /\ q = Absent) \/ (record = {q} /\ q # Absent)
    BY <1>2, PriorTunnel DEF Known
  <2> HIDE DEF q
  <2>7. CASE keys
    <3>1. Is(o, v, server, TRUE)
      <4>1. ReadIn(o, v, server, q, TRUE)
        BY <2>5, <2>7
      <4> QED BY <2>4, <4>1, PairShown
    <3>2. Is(o, v, server, SlotsDiffer(v))
      BY <3>1 DEF Is
    <3> QED BY <2>2, <2>3, <3>2, OpFacts
  <2>8. CASE ~keys
    <3>1. ~unseen
      BY <2>1, <2>8 DEF HidesSome
    <3>2. record = {q} /\ q # Absent
      <4>1. server # Absent
        BY <2>4, PairPresent
      <4> QED BY <1>2, <2>3, <2>6, <3>1, <4>1, OpFacts DEF IInv, PresenceInv
    <3>3. PICK u \in Orders : Is(u, q, server, SlotsDiffer(q))
      BY <1>1, <2>3, <3>1, <3>2, OpFacts
    <3>4. q \in Pairs
      BY <2>4, <3>2
    <3>5. Is(o, v, server, SlotsDiffer(v))
      BY <2>4, <2>5, <3>3, <3>4, PairStill
    <3> QED BY <2>2, <2>3, <3>5, OpFacts
  <2> QED BY <2>7, <2>8
<1>4. CASE Plan
  <2>1. /\ op = Idle /\ op' = [pc |-> "planned", plan |-> Planned]
        /\ server' = server /\ record' = record /\ unseen' = unseen
    BY <1>4 DEF Plan
  <2> QED BY <1>1, <2>1, OpFacts
<1>5. CASE Write
  <2>1. /\ op.pc = "planned" /\ ~IsRefused(op.plan) /\ server' = After(op.plan)
        /\ config' = config /\ record' = record /\ kind' = kind
        /\ op' = [op EXCEPT !.pc = "written"]
    BY <1>5 DEF Write
  <2>2. /\ op = [pc |-> "planned", plan |-> Planned]
        /\ Ready(kind, config, record, server) /\ Planned = PlanFor(kind, config, record)
        /\ server' = Outcome(kind, config, record, server)
        /\ Accepted(kind, record, Planned)
    BY <2>1, Applying
  <2>3. op'.pc = "written"
    BY <2>1, <2>2, OpFacts
  <2>4. \E o \in Orders : Leaves(o, server', Planned)
    BY <2>2, PairOutcome
  <2>5. Planned' = Planned
    BY <2>1 DEF Planned
  <2> QED BY <2>3, <2>4, <2>5
<1>6. CASE WriteNotAwaited
  BY <1>6 DEF WriteNotAwaited
<1>7. CASE Refused
  <2>1. /\ op.pc = "planned" /\ op' = Idle
        /\ server' = server /\ record' = record /\ unseen' = unseen
    BY <1>7 DEF Refused
  <2> QED BY <1>1, <2>1, OpFacts
<1>8. CASE Reread
  <2>1. PICK keys \in BOOLEAN : \E v \in Readings(kind, server, {Planned}, keys) :
          /\ record' = {v}
          /\ unseen' = (\/ unseen
                        \/ kind = "ipsec_redundant" /\ ~keys /\ ~SlotsDiffer(Planned))
    BY <1>8, Rereads
  <2>2. PICK v \in Readings(kind, server, {Planned}, keys) : record' = {v}
    BY <2>1
  <2>3. server' = server /\ op' = Idle /\ op.pc = "written"
    BY <1>8 DEF Reread
  <2>4. ~unseen /\ (keys \/ SlotsDiffer(Planned))
    BY <2>1
  <2>5. Before(kind, {Planned}) /\ Recordable(kind, Planned)
    BY <1>2, <2>3, PriorPlan
  <2>6. Planned = Prior({Planned}, Absent) /\ Planned \in Pairs /\ Planned # Absent
    BY <2>5, PriorOf, OfPair, PairPresent DEF Pairs
  <2>7. /\ server \in StoredPair(Texts) /\ v \in Pairs
        /\ \E o \in Orders :
             /\ ReadIn(o, v, server, Planned, keys)
             /\ \A u \in Orders : Tells(Planned, u, server) => o = u
    BY <1>2, <2>5, <2>6, PairReading
  <2>8. PICK o \in Orders : /\ ReadIn(o, v, server, Planned, keys)
                            /\ \A u \in Orders : Tells(Planned, u, server) => o = u
    BY <2>7
  <2>9. PICK u \in Orders : Leaves(u, server, Planned)
    BY <1>1, <2>3, <2>4
  <2>10. Is(o, v, server, TRUE)
    <3>1. CASE keys
      <4>1. ReadIn(o, v, server, Planned, TRUE)
        BY <2>8, <3>1
      <4> QED BY <2>7, <4>1, PairShown
    <3>2. CASE SlotsDiffer(Planned)
      <4>1. Is(u, Planned, server, TRUE)
        BY <2>6, <2>9, <3>2, PairLeft
      <4> QED BY <2>6, <2>7, <2>8, <3>2, <4>1, PairSame
    <3> QED BY <2>4, <3>1, <3>2
  <2>11. Is(o, v, server, SlotsDiffer(v))
    BY <2>10 DEF Is
  <2> QED BY <2>2, <2>3, <2>11, OpFacts
<1>9. CASE Delete
  <2>1. record' = {} /\ op' = Idle
    BY <1>9 DEF Delete
  <2> QED BY <2>1, OpFacts
<1>10. CASE EditConfig
  <2>1. /\ server' = server /\ record' = record /\ unseen' = unseen /\ op' = op
        /\ op = Idle
    BY <1>10 DEF EditConfig
  <2> QED BY <1>1, <2>1, OpFacts
<1>11. CASE Console
  BY <1>11 DEF Console
<1> QED BY <1>3, <1>4, <1>5, <1>6, <1>7, <1>8, <1>9, <1>10, <1>11 DEF Next

(* A read of a group keeps the endpoints, and gives a name that the        *)
(* server's is made of.                                                    *)
LEMMA GroupReading ==
  ASSUME NEW k, k = "enhanced_dynamic_tunnel", NEW s, Storable(k, s),
         NEW prior, Before(k, prior), NEW keys \in BOOLEAN,
         NEW v \in Readings(k, s, prior, keys), NEW q, q = Prior(prior, NoGroup)
  PROVE  /\ s \in Group(Texts) /\ q \in Group(Texts)
         /\ v.tunnel = q.tunnel /\ NameOf(s, v.tunnel_name)
         /\ dynamicTunnelNameIsDerivedFrom(s.tunnel_name, q.tunnel_name) => v = q
<1>1. Readings(k, s, prior, keys) =
        IF s = Absent THEN {} ELSE {resourceEnhancedDynamicTunnelRead(s, q)}
  BY OfGroup
<1>2. s # Absent /\ v = resourceEnhancedDynamicTunnelRead(s, q)
  BY <1>1
<1>3. s \in Group(Texts)
  BY <1>2, OfGroup
<1>4. q \in Group(Texts)
  BY PriorTunnel
<1>5. /\ v.tunnel = q.tunnel
      /\ dynamicTunnelNameIsDerivedFrom(s.tunnel_name, q.tunnel_name) => v = q
      /\ ~dynamicTunnelNameIsDerivedFrom(s.tunnel_name, q.tunnel_name) =>
           v.tunnel_name = s.tunnel_name
  BY <1>2, <1>3, <1>4, GroupRead
<1>6. NameOf(s, v.tunnel_name)
  <2>1. dynamicTunnelNameIsDerivedFrom(s.tunnel_name, q.tunnel_name) =>
          NameOf(s, q.tunnel_name)
    BY DEF dynamicTunnelNameIsDerivedFrom, NameOf
  <2>2. v.tunnel_name = s.tunnel_name => NameOf(s, v.tunnel_name)
    BY DEF NameOf
  <2> QED BY <1>5, <2>1, <2>2
<1> QED BY <1>3, <1>4, <1>5, <1>6

(* The group that a write has left is read back as it is configured.       *)
LEMMA GroupReread ==
  ASSUME NEW k, k = "enhanced_dynamic_tunnel", NEW s, Storable(k, s),
         NEW c, Configurable(k, c), NEW keys \in BOOLEAN,
         NEW v \in Readings(k, s, {c}, keys),
         s.tunnel_name = Suffixed(c.tunnel_name)
  PROVE  v = c
<1>1. Recordable(k, c) /\ c.tunnel_name # NoName
  BY ConfiguredTunnel DEF Configurable
<1>2. Prior({c}, NoGroup) = c
  BY PriorOf
<1> DEFINE now == {c}
<1>4. Before(k, now)
  <2>1. k \notin Numbering
    BY DEF Numbering, Policies
  <2>2. now = {c}
    OBVIOUS
  <2> HIDE DEF now
  <2> QED BY <1>1, <2>1, <2>2 DEF Before
<1>3. dynamicTunnelNameIsDerivedFrom(s.tunnel_name, c.tunnel_name)
  BY <1>1 DEF dynamicTunnelNameIsDerivedFrom
<1> QED BY <1>2, <1>3, <1>4, GroupReading

LEMMA GroupKept ==
  ASSUME IInv, Next
  PROVE  GroupInv'
<1> SUFFICES ASSUME kind = "enhanced_dynamic_tunnel", ~unseen'
             PROVE  /\ op'.pc # "written" =>
                         \A r \in record' :
                           /\ NameOf(server', r.tunnel_name)
                           /\ r.tunnel = <<>> \/ Same(r.tunnel, server'.tunnel)
                    /\ op'.pc = "written" =>
                         /\ server'.tunnel_name = Suffixed(config'.tunnel_name)
                         /\ Same(config'.tunnel, server'.tunnel)
  BY Frame DEF GroupInv
<1>1. ASSUME ~unseen
      PROVE  /\ op.pc # "written" =>
                  \A r \in record : /\ NameOf(server, r.tunnel_name)
                                    /\ r.tunnel = <<>> \/ Same(r.tunnel, server.tunnel)
             /\ op.pc = "written" =>
                  /\ server.tunnel_name = Suffixed(config.tunnel_name)
                  /\ Same(config.tunnel, server.tunnel)
  BY <1>1 DEF IInv, GroupInv
<1>2. /\ kind \in Tunnels /\ kind \in Kind /\ Storable(kind, server)
      /\ Known(kind, record) /\ Configurable(kind, config)
  BY DocumentsAssumption DEF Tunnels, IInv, TypeInv
<1>3. CASE Refresh
  <2>1. PICK keys \in BOOLEAN : \E v \in Readings(kind, server, record, keys) :
           record' = {v} /\ unseen' = (unseen /\ HidesSome(keys))
    BY <1>3, Refreshed
  <2>2. PICK v \in Readings(kind, server, record, keys) : record' = {v}
    BY <2>1
  <2>3. server' = server /\ op' = Idle /\ op = Idle
    BY <1>3 DEF Refresh
  <2> DEFINE q == Prior(record, NoGroup)
  <2>4. v.tunnel = q.tunnel /\ NameOf(server, v.tunnel_name)
    BY <1>2, GroupReading DEF Known
  <2>5. (record = {} /\ q = NoGroup) \/ record = {q}
    BY <1>2, PriorTunnel DEF Known
  <2> HIDE DEF q
  <2>6. CASE record = {}
    BY <2>2, <2>3, <2>4, <2>5, <2>6, NamesFacts, OpFacts
  <2>7. CASE record # {}
    <3>1. ~unseen
      BY <2>1, <2>7 DEF HidesSome
    <3>2. q.tunnel = <<>> \/ Same(q.tunnel, server.tunnel)
      BY <1>1, <2>3, <2>5, <2>7, <3>1, OpFacts
    <3> QED BY <2>2, <2>3, <2>4, <3>2, OpFacts
  <2> QED BY <2>6, <2>7
<1>4. CASE Plan
  <2>1. /\ op = Idle /\ op' = [pc |-> "planned", plan |-> Planned]
        /\ server' = server /\ record' = record /\ unseen' = unseen
    BY <1>4 DEF Plan
  <2> QED BY <1>1, <2>1, OpFacts
<1>5. CASE Write
  <2>1. /\ op.pc = "planned" /\ ~IsRefused(op.plan) /\ server' = After(op.plan)
        /\ config' = config /\ record' = record
        /\ op' = [op EXCEPT !.pc = "written"]
        /\ unseen' = (unseen /\ ~SendsAll)
    BY <1>5 DEF Write
  <2>2. /\ op = [pc |-> "planned", plan |-> Planned]
        /\ Ready(kind, config, record, server) /\ Planned = PlanFor(kind, config, record)
        /\ server' = Outcome(kind, config, record, server)
        /\ Accepted(kind, record, Planned)
    BY <2>1, Applying
  <2>3. op'.pc = "written"
    BY <2>1, <2>2, OpFacts
  <2>4. /\ server'.tunnel_name = Suffixed(config.tunnel_name)
        /\ record = {} => Same(config.tunnel, server'.tunnel)
        /\ \A r \in record :
             r.tunnel = <<>> \/ Same(r.tunnel, server.tunnel) =>
               Same(config.tunnel, server'.tunnel)
    BY <2>2, GroupOutcome
  <2>5. record # {} => ~unseen
    BY <2>1 DEF SendsAll
  <2>6. Same(config.tunnel, server'.tunnel)
    BY <1>1, <2>1, <2>4, <2>5
  <2> QED BY <2>1, <2>3, <2>4, <2>6
<1>6. CASE WriteNotAwaited
  BY <1>6 DEF WriteNotAwaited
<1>7. CASE Refused
  <2>1. /\ op.pc = "planned" /\ op' = Idle
        /\ server' = server /\ record' = record /\ unseen' = unseen
    BY <1>7 DEF Refused
  <2> QED BY <1>1, <2>1, OpFacts
<1>8. CASE Reread
  <2>1. PICK keys \in BOOLEAN : \E v \in Readings(kind, server, {Planned}, keys) :
          /\ record' = {v}
          /\ unseen' = (\/ unseen
                        \/ kind = "ipsec_redundant" /\ ~keys /\ ~SlotsDiffer(Planned))
    BY <1>8, Rereads
  <2>2. PICK v \in Readings(kind, server, {Planned}, keys) : record' = {v}
    BY <2>1
  <2>3. server' = server /\ op' = Idle /\ op.pc = "written"
    BY <1>8 DEF Reread
  <2>4. ~unseen
    BY <2>1
  <2>5. Planned = config
    BY <2>3, PriorPlan, OfGroup
  <2>6. /\ server.tunnel_name = Suffixed(config.tunnel_name)
        /\ Same(config.tunnel, server.tunnel)
    BY <1>1, <2>3, <2>4
  <2>7. v = config
    BY <1>2, <2>2, <2>5, <2>6, GroupReread
  <2>8. NameOf(server, config.tunnel_name)
    BY <2>6 DEF NameOf
  <2> QED BY <2>2, <2>3, <2>6, <2>7, <2>8, OpFacts
<1>9. CASE Delete
  <2>1. record' = {} /\ op' = Idle
    BY <1>9 DEF Delete
  <2> QED BY <2>1, OpFacts
<1>10. CASE EditConfig
  <2>1. /\ server' = server /\ record' = record /\ unseen' = unseen /\ op' = op
        /\ op = Idle
    BY <1>10 DEF EditConfig
  <2> QED BY <1>1, <2>1, OpFacts
<1>11. CASE Console
  BY <1>11 DEF Console
<1> QED BY <1>3, <1>4, <1>5, <1>6, <1>7, <1>8, <1>9, <1>10, <1>11 DEF Next

(* Slots that tell, and are on the server as they are configured.          *)
PairStands(k, c, q, s, u) ==
  /\ k = "ipsec_redundant" /\ Configurable(k, c) /\ SlotsDiffer(c)
  /\ Alike(q, c) /\ Storable(k, s) /\ u \in Orders /\ Is(u, q, s, TRUE)

(* They are read back so that nothing is planned.                          *)
LEMMA PairSettles ==
  ASSUME NEW k, NEW c, NEW q, NEW s, NEW u, PairStands(k, c, q, s, u),
         NEW now, now = {q}, Before(k, now),
         NEW keys \in BOOLEAN, NEW v \in Readings(k, s, now, keys)
  PROVE  PlanFor(k, c, {v}) = v /\ Is(u, c, s, TRUE)
<1>1. /\ k = "ipsec_redundant" /\ Configurable(k, c) /\ SlotsDiffer(c)
      /\ Alike(q, c) /\ Storable(k, s) /\ u \in Orders /\ Is(u, q, s, TRUE)
  BY DEF PairStands
<1>2. SlotsDiffer(q)
  BY <1>1 DEF SlotsDiffer, Alike
<1>3. Prior(now, Absent) = q
  BY PriorOf
<1>4. q # Absent
  <2>1. (k = "ipsec_redundant" /\ now # {}) => Prior(now, Absent) # Absent
    BY PriorTunnel
  <2> QED BY <1>1, <1>3, <2>1
<1>5. /\ s \in StoredPair(Texts) /\ v \in Pairs /\ IdsApart(v)
      /\ q = Absent \/ q \in Pairs
      /\ \E o \in Orders :
           /\ ReadIn(o, v, s, q, keys)
           /\ \A w \in Orders : Tells(q, w, s) => o = w
  BY <1>1, <1>3, PairReading
<1>6. PICK o \in Orders : /\ ReadIn(o, v, s, q, keys)
                          /\ \A w \in Orders : Tells(q, w, s) => o = w
  BY <1>5
<1>7. q \in Pairs
  BY <1>4, <1>5
<1>8. Is(o, v, s, TRUE) /\ Alike(v, q)
  <2>1. s \in StoredPair(Texts) /\ v \in Pairs /\ q \in Pairs
    BY <1>5, <1>7
  <2>2. \A w \in Orders : Tells(q, w, s) => o = w
    BY <1>6
  <2>3. ReadIn(o, v, s, q, keys)
    BY <1>6
  <2> QED BY <1>1, <1>2, <2>1, <2>2, <2>3, PairSame
<1>9. Alike(v, c)
  BY <1>1, <1>8 DEF Alike
<1>10. PlanFor(k, c, {v}) = v
  BY <1>1, <1>5, <1>9, PairAgain
<1>11. Is(u, c, s, TRUE)
  BY <1>1 DEF Is, Alike
<1> QED BY <1>10, <1>11

(* So are the documents of the plain kinds that a write has left.          *)
LEMMA PlainSettles ==
  ASSUME NEW k, Plain(k), NEW c \in Configs[k], NEW prior, Before(k, prior),
         NEW s, Storable(k, s), Room(k, s),
         Accepted(k, prior, PlanFor(k, c, prior)),
         NEW w, w = Outcome(k, c, prior, s), NEW v, Shows(k, w, v)
  PROVE  \/ PlanFor(k, c, {v}) = v
         \/ RefusedAtPlan(k, c, PlanFor(k, c, {v}))
         \/ Spelled(k, c)
<1>1. Settles(k)
  BY PlainSound DEF Sound
<1>2. Configurable(k, c)
  BY DocumentsAssumption DEF Plain
<1>3. Fits(k, c, s)
  BY DEF Room
<1> QED BY <1>1, <1>2, <1>3 DEF Settles

LEMMA SpelledIs == EmptySpelling <=> Spelled(kind, config)
BY DEF EmptySpelling, Spelled

LEMMA SettledKept ==
  ASSUME IInv, Next
  PROVE  SettledInv'
<1> SUFFICES ASSUME settled' = "yes"
             PROVE  /\ op' = Idle /\ record' # {}
                    /\ Plain(kind) => ~unseen' /\ SettlesInOneApply'
                    /\ kind = "ipsec_redundant" /\ SlotsDiffer(config') =>
                         /\ Planned' \in record'
                         /\ \E o \in Orders : Is(o, config', server', TRUE)
                    /\ kind = "enhanced_dynamic_tunnel" =>
                         /\ Planned' \in record'
                         /\ server'.tunnel_name = Suffixed(config'.tunnel_name)
  BY Frame DEF SettledInv
<1>1. /\ kind \in Kind /\ Storable(kind, server) /\ config \in Configs[kind]
      /\ Known(kind, record) /\ Before(kind, record) /\ Configurable(kind, config)
  BY DocumentsAssumption DEF IInv, TypeInv, Known
<1>2. ASSUME settled = "yes"
      PROVE  /\ op = Idle /\ record # {}
             /\ Plain(kind) => ~unseen /\ SettlesInOneApply
             /\ kind = "ipsec_redundant" /\ SlotsDiffer(config) =>
                  /\ Planned \in record
                  /\ \E o \in Orders : Is(o, config, server, TRUE)
             /\ kind = "enhanced_dynamic_tunnel" =>
                  /\ Planned \in record
                  /\ server.tunnel_name = Suffixed(config.tunnel_name)
  BY <1>2 DEF IInv, SettledInv
<1>3. CASE Refresh
  <2>1. PICK keys \in BOOLEAN : \E v \in Readings(kind, server, record, keys) :
          /\ record' = {v} /\ unseen' = (unseen /\ HidesSome(keys))
          /\ Plain(kind) => Shows(kind, server, v)
    BY <1>3, Refreshed
  <2>2. PICK v \in Readings(kind, server, record, keys) :
          record' = {v} /\ (Plain(kind) => Shows(kind, server, v))
    BY <2>1
  <2>3. /\ server' = server /\ op' = op /\ op = Idle /\ config' = config
        /\ kind' = kind /\ settled' = settled /\ settled = "yes"
    BY <1>3 DEF Refresh
  <2>4. Planned' = PlanFor(kind, config, {v})
    BY <2>2, <2>3 DEF Planned
  <2>5. CASE Plain(kind)
    <3>1. ~unseen /\ SettlesInOneApply
      BY <1>2, <2>3, <2>5
    <3>2. record = Readings(kind, server, {}, TRUE)
      BY <1>2, <2>3, <2>5, <3>1, OpFacts DEF IInv, SeenInv
    <3>3. record = {v}
      BY <2>2, <2>5, <3>2 DEF Shows
    <3>4. SettlesInOneApply'
      BY <2>2, <2>3, <3>1, <3>3
         DEF SettlesInOneApply, NothingPlanned, Planned, EmptySpelling
    <3>5. kind \notin Tunnels
      BY <2>5 DEF Plain
    <3> QED BY <2>1, <2>2, <2>3, <3>1, <3>4, <3>5 DEF Tunnels
  <2>6. CASE kind = "ipsec_redundant"
    <3>1. ~Plain(kind)
      BY <2>6 DEF Plain, Tunnels
    <3>2. ASSUME SlotsDiffer(config)
          PROVE  Planned' \in record' /\ \E o \in Orders : Is(o, config, server, TRUE)
      <4>1. Planned \in record /\ \E o \in Orders : Is(o, config, server, TRUE)
        BY <1>2, <2>3, <2>6, <3>2
      <4> DEFINE q == Planned
      <4>2. record = {q}
        BY <1>1, <4>1 DEF Before
      <4>3. PICK u \in Orders : Is(u, config, server, TRUE)
        BY <4>1
      <4>4. \A i \in 1..2 : /\ q[i].remote_public_ip = config[i].remote_public_ip
                            /\ q[i].passphrase = config[i].passphrase
                            /\ config[i].remote_id # NoText =>
                                 q[i].remote_id = config[i].remote_id
        BY <1>1, <2>6, PairPlan DEF Planned
      <4> HIDE DEF q
      <4>5. Alike(q, config)
        BY <3>2, <4>4 DEF SlotsDiffer, Alike
      <4>8. Is(u, q, server, TRUE)
        BY <4>3, <4>5 DEF Is, Alike
      <4>6. Before(kind, {q}) /\ v \in Readings(kind, server, {q}, keys)
        BY <1>1, <2>2, <4>2
      <4>7. PlanFor(kind, config, {v}) = v /\ Is(u, config, server, TRUE)
        <5>1. PairStands(kind, config, q, server, u)
          BY <1>1, <2>6, <3>2, <4>5, <4>8 DEF PairStands
        <5>2. record = {q} /\ Before(kind, record)
          BY <1>1, <4>2
        <5> QED BY <5>1, <5>2, PairSettles
      <4> QED BY <2>2, <2>4, <4>7
    <3> QED BY <2>2, <2>3, <2>6, <3>1, <3>2
  <2>7. CASE kind = "enhanced_dynamic_tunnel"
    <3>1. ~Plain(kind) /\ Planned = config /\ PlanFor(kind, config, {v}) = config
      BY <2>7, OfGroup DEF Plain, Tunnels, Planned
    <3>2. Planned \in record /\ server.tunnel_name = Suffixed(config.tunnel_name)
      BY <1>2, <2>3, <2>7
    <3>3. record = {config}
      BY <1>1, <3>1, <3>2 DEF Before
    <3>4. v \in Readings(kind, server, {config}, keys)
      BY <2>2, <3>3
    <3>5. v = config
      BY <1>1, <2>7, <3>2, <3>4, GroupReread
    <3> QED BY <2>2, <2>3, <2>4, <2>7, <3>1, <3>2, <3>5
  <2> QED BY <1>1, <2>5, <2>6, <2>7, TunnelKinds DEF Plain
<1>4. CASE Reread
  <2>1. PICK keys \in BOOLEAN : \E v \in Readings(kind, server, {Planned}, keys) :
          /\ record' = {v}
          /\ unseen' = (\/ unseen
                        \/ kind = "ipsec_redundant" /\ ~keys /\ ~SlotsDiffer(Planned))
          /\ Plain(kind) => Shows(kind, server, v)
    BY <1>4, Rereads
  <2>2. PICK v \in Readings(kind, server, {Planned}, keys) :
          record' = {v} /\ (Plain(kind) => Shows(kind, server, v))
    BY <2>1
  <2>3. /\ server' = server /\ op' = Idle /\ op.pc = "written" /\ config' = config
        /\ kind' = kind /\ ~unseen
    BY <1>4 DEF Reread
  <2>4. Planned' = PlanFor(kind, config, {v})
    BY <2>2, <2>3 DEF Planned
  <2>5. CASE Plain(kind)
    <3>1. PICK s : /\ Storable(kind, s) /\ Room(kind, s)
                   /\ server = Outcome(kind, config, record, s)
                   /\ Accepted(kind, record, Planned)
      BY <2>3, <2>5 DEF IInv, SeenInv
    <3>2. Planned = PlanFor(kind, config, record)
      BY DEF Planned
    <3>3. \/ PlanFor(kind, config, {v}) = v
          \/ RefusedAtPlan(kind, config, PlanFor(kind, config, {v}))
          \/ Spelled(kind, config)
      BY <1>1, <2>2, <2>5, <3>1, <3>2, PlainSettles
    <3>4. EmptySpelling' = EmptySpelling
      BY <2>3 DEF EmptySpelling
    <3>5. NothingPlanned' <=> Planned' \in record'
      BY <2>2 DEF NothingPlanned
    <3>6. \/ NothingPlanned' \/ RefusedAtPlan(kind', config', Planned') \/ EmptySpelling'
      BY <2>2, <2>3, <2>4, <3>3, <3>4, <3>5, SpelledIs
    <3>7. SettlesInOneApply'
      BY <3>6 DEF SettlesInOneApply
    <3>8. kind \notin Tunnels /\ ~unseen'
      BY <2>1, <2>3, <2>5 DEF Plain, Tunnels
    <3> QED BY <2>2, <2>3, <3>7, <3>8 DEF Tunnels
  <2>6. CASE kind = "ipsec_redundant"
    <3>1. ~Plain(kind) /\ kind \in Tunnels
      BY <2>6 DEF Plain, Tunnels
    <3>2. ASSUME SlotsDiffer(config)
          PROVE  Planned' \in record' /\ \E o \in Orders : Is(o, config, server, TRUE)
      <4> DEFINE q == Planned
      <4>1. PICK u \in Orders : Leaves(u, server, q)
        BY <2>3, <2>6 DEF IInv, PairInv
      <4>2. /\ q \in Pairs
            /\ \A i \in 1..2 : /\ q[i].remote_public_ip = config[i].remote_public_ip
                               /\ q[i].passphrase = config[i].passphrase
                               /\ config[i].remote_id # NoText =>
                                    q[i].remote_id = config[i].remote_id
        BY <1>1, <2>6, PairPlan DEF Planned
      <4>3. Before(kind, {q}) /\ v \in Readings(kind, server, {q}, keys)
        BY <2>2, <2>3, <3>1, PriorPlan
      <4> HIDE DEF q
      <4>4. Alike(q, config)
        BY <3>2, <4>2 DEF SlotsDiffer, Alike
      <4>6. SlotsDiffer(q)
        BY <3>2, <4>4 DEF SlotsDiffer, Alike
      <4>7. Is(u, q, server, TRUE)
        BY <4>1, <4>2, <4>6, PairLeft
      <4>5. PlanFor(kind, config, {v}) = v /\ Is(u, config, server, TRUE)
        <5>1. PairStands(kind, config, q, server, u)
          BY <1>1, <2>6, <3>2, <4>4, <4>7 DEF PairStands
        <5> DEFINE now == {q}
        <5>2. now = {q} /\ Before(kind, now) /\ v \in Readings(kind, server, now, keys)
          BY <4>3
        <5> HIDE DEF now
        <5>3. v \in Readings(kind, server, now, keys) /\ Before(kind, now)
          BY <5>2
        <5> QED BY <5>1, <5>2, <5>3, PairSettles
      <4> QED BY <2>2, <2>4, <4>5
    <3> QED BY <2>2, <2>3, <2>6, <3>1, <3>2
  <2>7. CASE kind = "enhanced_dynamic_tunnel"
    <3>1. ~Plain(kind) /\ Planned = config /\ PlanFor(kind, config, {v}) = config
      BY <2>7, OfGroup DEF Plain, Tunnels, Planned
    <3>2. server.tunnel_name = Suffixed(config.tunnel_name)
      BY <2>3, <2>7 DEF IInv, GroupInv
    <3>3. v = config
      BY <1>1, <2>2, <2>7, <3>1, <3>2, GroupReread
    <3> QED BY <2>2, <2>3, <2>4, <2>7, <3>1, <3>2, <3>3
  <2> QED BY <1>1, <2>5, <2>6, <2>7, TunnelKinds DEF Plain
<1>5. CASE Write \/ WriteNotAwaited \/ Refused
  <2>1. op.pc = "planned" /\ settled' = settled
    BY <1>5 DEF Write, WriteNotAwaited, Refused
  <2>2. settled = "no"
    BY <2>1, Applying
  <2> QED BY <2>1, <2>2
<1>6. CASE Plan \/ Delete \/ EditConfig \/ Console
  BY <1>6 DEF Plan, Delete, EditConfig, Console
<1> QED BY <1>3, <1>4, <1>5, <1>6 DEF Next

LEMMA NextKeeps ==
  ASSUME IInv, [Next]_vars
  PROVE  IInv'
<1>1. CASE Next
  BY <1>1, TypeKept, OpKept, PresenceKept, SeenKept, PairKept, GroupKept, SettledKept
     DEF IInv
<1>2. CASE UNCHANGED vars
  <2>1. TypeInv' = TypeInv /\ OpInv' = OpInv /\ PresenceInv' = PresenceInv
    BY <1>2 DEF vars, TypeInv, OpInv, PresenceInv, Planned
  <2>2. SeenInv' = SeenInv /\ PairInv' = PairInv /\ GroupInv' = GroupInv
    BY <1>2 DEF vars, SeenInv, PairInv, GroupInv, Planned
  <2>3. SettledInv' = SettledInv
    BY <1>2 DEF vars, SettledInv, SettlesInOneApply, NothingPlanned, EmptySpelling, Planned
  <2> QED BY <2>1, <2>2, <2>3 DEF IInv
<1> QED BY <1>1, <1>2

LEMMA Invariant == Spec => []IInv
BY InitInv, NextKeeps, PTL DEF Spec

-----------------------------------------------------------------------------
(* The properties                                                          *)

(* The record has one document at most.                                    *)
LEMMA FewRecords ==
  ASSUME NEW k, NEW prior, Before(k, prior)
  PROVE  Cardinality(prior) <= 1 /\ \A r \in prior : Recordable(k, r)
<1>1. CASE prior = {}
  BY <1>1, FS_EmptySet
<1>2. CASE prior # {}
  <2>1. PICK r : prior = {r} /\ Recordable(k, r)
    BY <1>2 DEF Before
  <2> QED BY <2>1, FS_Singleton
<1> QED BY <1>1, <1>2

LEMMA Typed ==
  ASSUME IInv
  PROVE  TypeOK
<1>1. /\ kind \in Kind /\ Known(kind, record) /\ Before(kind, record)
      /\ Configurable(kind, config)
  BY DocumentsAssumption DEF IInv, TypeInv, Known
<1>2. Cardinality(record) <= 1 /\ \A r \in record : Recordable(kind, r)
  BY <1>1, FewRecords
<1>3. Recordable(kind, Planned)
  BY <1>1, PlanTyped DEF Planned
<1>4. \/ op = Idle
      \/ /\ op = [pc |-> op.pc, plan |-> op.plan]
         /\ op.pc \in {"planned", "written"} /\ Recordable(kind, op.plan)
  <2>1. \/ op = Idle
        \/ op = [pc |-> "planned", plan |-> Planned]
        \/ op = [pc |-> "written", plan |-> Planned]
    BY DEF IInv, OpInv
  <2> QED BY <1>3, <2>1, OpFacts
<1> QED BY <1>1, <1>2, <1>4 DEF TypeOK, IInv, TypeInv

(* For every set of documents and any number of edits, the server has a    *)
(* document of its kind, no two of whose rules share an id, and the record *)
(* and the plan have documents that the schema can hold.                   *)
THEOREM TypeCorrect == Spec => []TypeOK
<1>1. IInv => TypeOK
  BY Typed
<1> QED BY <1>1, Invariant, PTL

LEMMA AcceptedOnly ==
  ASSUME IInv
  PROVE  OnlyAcceptedBodies
<1> SUFFICES ASSUME op.pc = "planned", ~IdsClash(kind, config, op.plan),
                    kind # "object_addresses",
                    ~RefusedAtApply(kind, record, op.plan),
                    Refuses(kind, Sent(op.plan))
             PROVE  late /\ kind \in {"https_inspection_policy", "private_dns",
                                      "split_tunneling", "object_services"}
  BY DEF OnlyAcceptedBodies
<1>1. /\ kind \in Kind /\ Before(kind, record) /\ Configurable(kind, config)
      /\ op.plan = Planned /\ Planned = PlanFor(kind, config, record)
  BY Applying DEF Ready, Known
<1>2. Refuses(kind, Body(kind, record, Planned))
  BY <1>1 DEF Sent
<1>3. kind \notin Tunnels /\ kind \notin {"access_policy", "internet_access_status"}
  BY <1>2 DEF Refuses, Tunnels
<1>4. Accepts(kind)
  BY <1>1, <1>3, PlainSound DEF Sound, Plain
<1>5. RefusedAtPlan(kind, config, Planned)
  BY <1>1, <1>2, <1>4 DEF Accepts
<1>6. late
  BY <1>1, <1>5 DEF IInv, OpInv
<1>7. kind # "firewall_policy"
  BY <1>1, <1>5, OfFirewall
<1>8. kind # "support_options"
  BY <1>1, <1>5, OfSupport
<1> QED BY <1>1, <1>3, <1>6, <1>7, <1>8 DEF Kind, Policies, Objects, Tunnels

(* Whatever passes the plan of a document whose values are known is a body *)
(* the server accepts, or one that the apply refuses before it is sent.    *)
THEOREM AcceptedCorrect == Spec => []OnlyAcceptedBodies
<1>1. IInv => OnlyAcceptedBodies
  BY AcceptedOnly
<1> QED BY <1>1, Invariant, PTL

LEMMA Settled ==
  ASSUME IInv
  PROVE  SettlesInOneApply
<1> SUFFICES ASSUME settled = "yes", ~(kind = "ipsec_redundant" /\ ~SlotsDiffer(config))
             PROVE  \/ NothingPlanned \/ RefusedAtPlan(kind, config, Planned)
                    \/ EmptySpelling
  BY DEF SettlesInOneApply
<1>1. kind \in Kind
  BY DEF IInv, TypeInv
<1>2. CASE Plain(kind)
  <2>1. SettlesInOneApply
    BY <1>2 DEF IInv, SettledInv
  <2>2. kind # "ipsec_redundant"
    BY <1>2 DEF Plain, Tunnels
  <2> QED BY <2>1, <2>2 DEF SettlesInOneApply
<1>3. CASE ~Plain(kind)
  <2>1. kind = "ipsec_redundant" \/ kind = "enhanced_dynamic_tunnel"
    BY <1>1, <1>3, TunnelKinds DEF Plain
  <2>2. record # {} /\ Planned \in record
    BY <2>1 DEF IInv, SettledInv
  <2> QED BY <2>2 DEF NothingPlanned
<1> QED BY <1>2, <1>3

(* One apply is enough for any document, whatever was on the server: the   *)
(* plan after it is empty, and a refresh leaves it so.                     *)
THEOREM SettlesCorrect == Spec => []SettlesInOneApply
<1>1. IInv => SettlesInOneApply
  BY Settled
<1> QED BY <1>1, Invariant, PTL

LEMMA PairStandsFor ==
  ASSUME NEW q, NEW s, NEW o \in Orders, Is(o, q, s, SlotsDiffer(q))
  PROVE  PairInForce(q, s)
<1>1. ASSUME NEW i \in 1..2
      PROVE  \E m \in 1..2 :
               /\ s[m].remote_id = q[i].remote_id
               /\ s[m].remote_public_ip = q[i].remote_public_ip
               /\ SlotsDiffer(q) => s[m].passphrase = q[i].passphrase
  <2>1. o[i] \in 1..2
    BY OrderFacts
  <2>2. /\ q[i].remote_id = s[o[i]].remote_id
        /\ q[i].remote_public_ip = s[o[i]].remote_public_ip
        /\ SlotsDiffer(q) => q[i].passphrase = s[o[i]].passphrase
    BY DEF Is
  <2> QED BY <2>1, <2>2
<1> QED BY <1>1 DEF PairInForce

LEMMA GroupStandsFor ==
  ASSUME NEW c \in Group(Texts), c.tunnel_name # NoName, NEW s,
         NameOf(s, c.tunnel_name), Same(c.tunnel, s.tunnel)
  PROVE  GroupInForce(c, s)
<1> DEFINE sent == flattenDynamicTunnelDetails(c.tunnel)
<1>1. Len(sent) = Len(s.tunnel) /\ \A e \in Endpoints : Count(sent, e) = Count(s.tunnel, e)
  BY DEF Same
<1>2. dynamicTunnelNameIsDerivedFrom(s.tunnel_name, c.tunnel_name)
  BY DEF dynamicTunnelNameIsDerivedFrom, NameOf
<1>3. c.tunnel \in Seq(Endpoints)
  BY GroupParts
<1>4. sent \in Seq(Endpoints)
  BY <1>3, SentList
<1>5. GroupInForce(c, s) <=>
        /\ dynamicTunnelNameIsDerivedFrom(s.tunnel_name, c.tunnel_name)
        /\ Len(sent) = Len(s.tunnel)
        /\ \A i \in DOMAIN sent : Count(sent, sent[i]) = Count(s.tunnel, sent[i])
  BY DEF GroupInForce
<1> HIDE DEF sent
<1>6. \A i \in DOMAIN sent : sent[i] \in Endpoints
  BY <1>4, LenProperties, ElementOfSeq
<1> QED BY <1>1, <1>2, <1>5, <1>6

LEMMA InForceThen ==
  ASSUME IInv
  PROVE  EmptyPlanMeansInForce
<1> DEFINE Goal == CASE kind = "ipsec_redundant" -> PairInForce(Planned, server)
                     [] kind = "enhanced_dynamic_tunnel" -> GroupInForce(Planned, server)
                     [] OTHER -> \/ InForce(After(Planned)) = InForce(server)
                                 \/ OtherConditions
<1> SUFFICES ASSUME op = Idle, ~unseen, told = {}, NothingPlanned
             PROVE  Goal
  BY DEF EmptyPlanMeansInForce
<1>1. /\ kind \in Kind /\ Storable(kind, server) /\ Before(kind, record)
      /\ Configurable(kind, config)
  BY DocumentsAssumption DEF IInv, TypeInv, Known
<1>2. Planned \in record /\ Planned = PlanFor(kind, config, record) /\ op.pc = "idle"
  BY OpFacts DEF NothingPlanned, Planned
<1>3. record = {Planned}
  BY <1>1, <1>2 DEF Before
<1>4. CASE Plain(kind)
  <2> DEFINE v == Planned
  <2>1. Reads(kind) /\ Keeps(kind)
    BY <1>4, PlainSound DEF Sound
  <2>2. PICK x : Shows(kind, server, x)
    BY <1>1, <2>1 DEF Reads
  <2>3. record = Readings(kind, server, {}, TRUE)
    BY <1>2, <1>3, <1>4 DEF IInv, SeenInv
  <2>4. Shows(kind, server, v)
    <3>1. record = {x}
      BY <2>2, <2>3 DEF Shows
    <3>2. v = x
      BY <1>2, <3>1
    <3> QED BY <2>2, <3>2
  <2>5. WarnedOf(kind, server) = {}
    BY DEF IInv, SeenInv
  <2>6. PlanFor(kind, config, {v}) = v
    BY <1>2, <1>3
  <2>7. After(v) = Written(kind, server, Body(kind, {v}, v))
    BY <1>3 DEF After, Sent
  <2> HIDE DEF v
  <2>8. \/ Effective(kind, config, Written(kind, server, Body(kind, {v}, v)))
             = Effective(kind, config, server)
        \/ kind = "access_policy"
             /\ \E i \in DOMAIN server : server[i].conditions \ {"datetime"} # {}
    BY <1>1, <2>1, <2>4, <2>5, <2>6 DEF Keeps
  <2>9. \A d : InForce(d) = Effective(kind, config, d)
    BY DEF InForce, Effective
  <2>10. InForce(After(v)) = InForce(server) \/ OtherConditions
    BY <2>7, <2>8, <2>9 DEF OtherConditions
  <2>11. kind # "ipsec_redundant" /\ kind # "enhanced_dynamic_tunnel"
    BY <1>4 DEF Plain, Tunnels
  <2> QED BY <2>10, <2>11 DEF v
<1>5. CASE kind = "ipsec_redundant"
  <2>1. PICK o \in Orders : Is(o, Planned, server, SlotsDiffer(Planned))
    BY <1>2, <1>5 DEF IInv, PairInv
  <2>2. PairInForce(Planned, server)
    BY <2>1, PairStandsFor
  <2> QED BY <1>5, <2>2
<1>6. CASE kind = "enhanced_dynamic_tunnel"
  <2>1. Planned = config
    BY <1>2, <1>6, OfGroup
  <2>2. config \in Group(Texts) /\ config.tunnel # <<>> /\ config.tunnel_name # NoName
    BY <1>1, <1>6, ConfiguredTunnel
  <2>3. NameOf(server, config.tunnel_name) /\ Same(config.tunnel, server.tunnel)
    BY <1>2, <1>6, <2>1, <2>2 DEF IInv, GroupInv
  <2>4. GroupInForce(config, server)
    BY <2>2, <2>3, GroupStandsFor
  <2> QED BY <1>6, <2>1, <2>4
<1> QED BY <1>1, <1>4, <1>5, <1>6, TunnelKinds DEF Plain

(* An empty plan after a refresh that has shown everything means that what *)
(* is configured is in force.                                              *)
THEOREM InForceCorrect == Spec => []EmptyPlanMeansInForce
<1>1. IInv => EmptyPlanMeansInForce
  BY InForceThen
<1> QED BY <1>1, Invariant, PTL

(* What is dropped of a policy is no more than the refresh told.           *)
LEMMA DroppedTold ==
  ASSUME IInv, ~unseen, kind \in Policies, NEW body
  PROVE  Dropped(server, body) \cap {Newer} \subseteq told
<1> DEFINE N == UNION {(server[i].sources \cup server[i].destinations) \cap {Newer} :
                         i \in DOMAIN server}
<1>1. told = WarnedOf(kind, server) /\ Storable(kind, server)
  BY DEF IInv, SeenInv, TypeInv
<1>2. told = N
  <2>1. CASE kind = "access_policy"
    <3>1. server \in Seq(StoredAccessRule)
      BY <1>1, <2>1, OfAccess
    <3>2. WarnedOf(kind, server)
            = unknownAccessPolicyBucketTypes(AccessPolicyAnswer(server))
      BY <2>1, OfAccess
    <3> QED BY <1>1, <3>1, <3>2, AccessWarned
  <2>2. CASE kind = "https_inspection_policy"
    <3>1. server \in Seq(StoredHttpsRule)
      BY <1>1, <2>2, OfHttps
    <3>2. WarnedOf(kind, server)
            = unknownHttpsInspectionBucketTypes(HttpsInspectionAnswer(server))
      BY <2>2, OfHttps
    <3> QED BY <1>1, <3>1, <3>2, HttpsWarned
  <2> QED BY <2>1, <2>2 DEF Policies
<1>3. ASSUME NEW x \in Dropped(server, body), x = Newer PROVE x \in N
  <2>1. PICK i \in DOMAIN server : x \in server[i].sources \cup server[i].destinations
    BY <1>3 DEF Dropped
  <2> QED BY <1>3, <2>1
<1> HIDE DEF N
<1> QED BY <1>2, <1>3

(* A write of a policy takes away a restriction of a type the provider     *)
(* does not know only if the refresh has warned of it.                     *)
THEOREM DroppedCorrect == Spec => NothingDroppedUnwarned
<1> DEFINE A == op.pc = "planned" /\ op'.pc = "written" /\ ~unseen /\ kind \in Policies
                  => Dropped(server, Sent(op.plan)) \cap {Newer} \subseteq told
<1>1. IInv /\ [Next]_vars => A
  BY DroppedTold
<1> HIDE DEF A
<1>2. Spec => [][A]_vars
  BY Invariant, <1>1, PTL DEF Spec
<1> USE DEF A
<1> QED BY <1>2 DEF NothingDroppedUnwarned

(* A document of private DNS that leaves its attributes out is written     *)
(* with those that are on the server.                                      *)
LEMMA DnsKeepsRest ==
  ASSUME NEW k, k = "private_dns", NEW c, Configurable(k, c), c.attributes = {},
         NEW s, Storable(k, s), s.attributes # {},
         NEW none, NEW keys, NEW prior, prior = Readings(k, s, none, keys),
         NEW w, w = Outcome(k, c, prior, s)
  PROVE  w.attributes = s.attributes /\ \A a, b \in s.attributes : a = b
<1> DEFINE D == DnsDocument(Seq(Nat))
           p == PlanFor(k, c, prior)
           a == singleBlock(p.attributes)
<1>1. c \in D /\ s \in StoredDns(Seq(Nat))
  BY OfDns DEF Configurable
<1>2. /\ s \in D
      /\ [enabled |-> s.enabled,
          attributes |-> flattenCustomDnsAttributes(s.attributes)] = s
  BY <1>1, DnsRead
<1>3. prior = {s}
  <2>1. Readings(k, s, none, keys) =
          {[enabled |-> s.enabled,
            attributes |-> flattenCustomDnsAttributes(s.attributes)]}
    BY OfDns
  <2> QED BY <1>2, <2>1
<1>4. Prior(prior, c) = s
  BY <1>3, PriorOf
<1>5. p = Dns(c.enabled, s.attributes)
  <2>1. p = [c EXCEPT !.attributes = Prior(prior, c).attributes]
    BY OfDns
  <2>2. \A x : [c EXCEPT !.attributes = x] = Dns(c.enabled, x)
    BY <1>1 DEF Dns, DnsDocument
  <2> QED BY <1>4, <2>1, <2>2
<1>6. p \in D /\ p.attributes = s.attributes
  <2>1. c.enabled \in BOOLEAN /\ s.attributes \in SUBSET DnsAttributes(Seq(Nat))
    BY <1>1, <1>2, DnsParts
  <2>2. \A x, y \in s.attributes : x = y
    BY <1>2, DnsParts
  <2>3. Dns(c.enabled, s.attributes) \in D
    BY <1>1, <2>1, <2>2, DnsParts
  <2>4. Dns(c.enabled, s.attributes).attributes = s.attributes
    BY DEF Dns
  <2> QED BY <1>5, <2>3, <2>4
<1>7. w = DnsStored(expandCustomDnsUpdate(p))
  <2>1. w = Written(k, s, Body(k, prior, p))
    BY DEF Outcome
  <2> HIDE DEF p
  <2> QED BY <2>1, OfDns
<1> HIDE DEF p
<1>8. /\ a \in DnsAttributes(Seq(Nat)) /\ p.attributes = {a}
      /\ w = DnsLeft(p, a)
  BY <1>6, <1>7, DnsWritten
<1>9. a.dns_policy # {{}}
  BY <1>1, <1>6, <1>8 DEF StoredDns
<1> HIDE DEF a
<1>10. Wrapped(UNION a.dns_policy) = a.dns_policy
  BY <1>8, <1>9, AttributeParts, BlockFacts
<1>11. w = Dns(p.enabled, {DnsAttribute(a.servers, a.search_domains, a.dns_policy)})
  BY <1>8, <1>10 DEF DnsLeft
<1>12. w.attributes = {a}
  <2>1. w = Dns(p.enabled, {a})
    BY <1>8, <1>11, AttributeParts
  <2> QED BY <2>1 DEF Dns
<1> QED BY <1>6, <1>8, <1>12

(* Only a write changes a document that is not a tunnel's in a step of an  *)
(* apply.                                                                  *)
LEMMA OnlyWrites ==
  ASSUME IInv, [Next]_vars, kind \notin Tunnels, op' # op
  PROVE  \/ server' = server /\ ~(op.pc = "planned" /\ op'.pc = "written")
         \/ /\ op.pc = "planned" /\ ~IsRefused(op.plan)
            /\ server' = Outcome(kind, config, record, server)
<1>1. CASE Write
  <2>1. op.pc = "planned" /\ ~IsRefused(op.plan) /\ server' = After(op.plan)
    BY <1>1 DEF Write
  <2> QED BY <2>1, Applying
<1>2. CASE Plan
  <2>1. op = Idle /\ server' = server
    BY <1>2 DEF Plan
  <2> QED BY <2>1, OpFacts
<1>3. CASE Refused \/ Reread
  <2>1. op' = Idle /\ server' = server
    BY <1>3 DEF Refused, Reread
  <2> QED BY <2>1, OpFacts
<1>4. CASE Refresh \/ WriteNotAwaited \/ Delete \/ EditConfig \/ Console \/ UNCHANGED vars
  BY <1>4 DEF Refresh, WriteNotAwaited, Delete, EditConfig, Console, vars
<1> QED BY <1>1, <1>2, <1>3, <1>4 DEF Next

LEMMA ExceptionsStay ==
  ASSUME IInv, [Next]_vars, kind = "split_tunneling", op' # op
  PROVE  server'.exceptions = server.exceptions
<1>1. CASE server' = server
  BY <1>1
<1>2. CASE /\ op.pc = "planned" /\ ~IsRefused(op.plan)
           /\ server' = Outcome(kind, config, record, server)
  <2> DEFINE D == SplitDocument(Seq(Nat), SUBSET Exceptions)
  <2>1. /\ Ready(kind, config, record, server) /\ kind \in Kind
        /\ Planned = PlanFor(kind, config, record)
    BY <1>2, Applying
  <2>2. Recordable(kind, Planned)
    BY <2>1, PlanTyped DEF Ready
  <2>3. Planned \in D
    BY <2>2, OfSplit
  <2> DEFINE b == SplitWith(Planned, {})
             x == server.exceptions \cup b.exceptions
  <2>4. server' = SplitWith(b, x)
    BY <1>2, <2>1, OfSplit, SplitParts DEF Outcome
  <2>5. b \in D /\ b.exceptions = {}
    BY <2>3, SplitFields
  <2>6. SplitWith(b, x).exceptions = x
    <3> HIDE DEF b, x
    <3> QED BY <2>5, SplitFields
  <2> QED BY <2>4, <2>5, <2>6
<1>3. kind \notin Tunnels
  BY DEF Tunnels
<1> QED BY <1>1, <1>2, <1>3, OnlyWrites

LEMMA AttributesStay ==
  ASSUME IInv, [Next]_vars, kind = "private_dns", op.pc = "planned",
         op'.pc = "written", config.attributes = {}, record # {}, ~unseen,
         server.attributes # {}
  PROVE  \A a \in server.attributes : \A b \in server'.attributes : a = b
<1>1. kind \notin Tunnels /\ Plain(kind)
  BY DEF Tunnels, Plain, Kind
<1>2. op' # op
  OBVIOUS
<1>3. server' = Outcome(kind, config, record, server)
  BY <1>1, <1>2, OnlyWrites
<1>4. Configurable(kind, config) /\ Storable(kind, server)
  BY DocumentsAssumption DEF IInv, TypeInv
<1>5. record = Readings(kind, server, {}, TRUE)
  BY <1>1 DEF IInv, SeenInv
<1>6. /\ server'.attributes = server.attributes
      /\ \A a, b \in server.attributes : a = b
  <2> DEFINE none == {}
             keys == TRUE
  <2>1. record = Readings(kind, server, none, keys)
    BY <1>5
  <2> HIDE DEF none, keys
  <2> QED BY <1>3, <1>4, <2>1, DnsKeepsRest
<1> QED BY <1>6

LEMMA SwitchStays ==
  ASSUME IInv, [Next]_vars, kind = "firewall_policy", record # {}, record' = {}
  PROVE  server'.enabled = server.enabled
<1>1. Delete
  <2>1. ~(Refresh \/ Reread)
    BY DEF Refresh, Reread
  <2> QED BY <2>1 DEF Next, Plan, Write, WriteNotAwaited, Refused, EditConfig, Console, vars
<1>2. server' = Cleared(kind, server)
  BY <1>1 DEF Delete
<1> DEFINE d == [enabled |-> server.enabled, rules |-> <<>>]
<1>3. \A s : Cleared(kind, s) =
        IF s.rules = <<>> THEN s ELSE [enabled |-> s.enabled, rules |-> <<>>]
  BY OfFirewall
<1>4. Cleared(kind, server) = IF server.rules = <<>> THEN server ELSE d
  BY <1>3
<1>5. d.enabled = server.enabled
  OBVIOUS
<1> HIDE DEF d
<1> QED BY <1>2, <1>4, <1>5

(* No write and no delete touches what the configuration does not speak    *)
(* of: saved exceptions, attributes that were left out, the switch of a    *)
(* firewall policy that is cleared.                                        *)
THEOREM OthersCorrect == Spec => OthersSurvive
<1> DEFINE A ==
      /\ kind = "split_tunneling" /\ op' # op =>
           server'.exceptions = server.exceptions
      /\ kind = "private_dns" /\ op.pc = "planned" /\ op'.pc = "written"
           /\ config.attributes = {} /\ record # {} /\ ~unseen
           /\ server.attributes # {}
           => \A a \in server.attributes : \A b \in server'.attributes :
                /\ b.servers = a.servers
                /\ b.search_domains = a.search_domains
                /\ b.dns_policy = a.dns_policy
      /\ kind = "firewall_policy" /\ record # {} /\ record' = {} =>
           server'.enabled = server.enabled
<1>1. ASSUME IInv, [Next]_vars PROVE A
  <2>1. ASSUME kind = "split_tunneling", op' # op
        PROVE  server'.exceptions = server.exceptions
    BY <1>1, <2>1, ExceptionsStay
  <2>2. ASSUME kind = "private_dns", op.pc = "planned", op'.pc = "written",
               config.attributes = {}, record # {}, ~unseen, server.attributes # {}
        PROVE  \A a \in server.attributes : \A b \in server'.attributes : a = b
    BY <1>1, <2>2, AttributesStay
  <2>3. ASSUME kind = "firewall_policy", record # {}, record' = {}
        PROVE  server'.enabled = server.enabled
    BY <1>1, <2>3, SwitchStays
  <2> QED BY <2>1, <2>2, <2>3
<1> HIDE DEF A
<1>2. Spec => [][A]_vars
  BY Invariant, <1>1, PTL DEF Spec
<1> USE DEF A
<1> QED BY <1>2 DEF OthersSurvive
=============================================================================
