------------------------ MODULE NetworkRegions_proofs ------------------------
(***************************************************************************)
(* Theorems about NetworkRegions, for every catalogue, every set of region *)
(* lists and all bounds: the types, the footprint that a read reports, and *)
(* the order of replacements and removals.                                 *)
(***************************************************************************)
EXTENDS NetworkRegions, Counting, FiniteSetTheorems, SequenceTheorems,
        FunctionTheorems, TLAPS

(* The operation points at a block that it has to add or to remove.        *)
Pointed ==
  /\ op.pc \in {"add", "resolve", "appear"} => op.at \in ToAdd(state)
  /\ op.pc \in {"remove", "vanish"} => op.at \in ToRemove(state)

(* The regions that the state names.                                       *)
Tracked == {state[i].rid : i \in DOMAIN state}

(* The state names regions of the tenant, and knows the cloud region of    *)
(* each whose name the catalogue has.                                      *)
Faithful ==
  \A i \in DOMAIN state :
    /\ state[i].rid \in DOMAIN tenant
    /\ cpRegionIdForRegionName(state[i].rid) \in {NoCp, state[i].cp}

(* A region on its way out stays in the state until it is gone.            *)
RemovalsAreTracked ==
  \A r \in DOMAIN tenant : tenant[r].phase = "removing" => r \in Tracked

(* A region in the cloud region cp that no removal of this update can hit. *)
Standing(cp) ==
  \E r \in DOMAIN tenant \ Tracked :
    tenant[r].cp = cp /\ tenant[r].phase = "live"

(* What the update has added so far stands.                                *)
Replaced ==
  /\ op.pc \in {"add", "resolve", "appear"} =>
       \A i \in ToAdd(state) : i < op.at => Standing(config[i].cp)
  /\ op.pc \in {"remove", "vanish"} =>
       \A i \in ToAdd(state) : Standing(config[i].cp)

(* Inductive: the types, and the list against the tenant.                  *)
Sound == TypeOK /\ Pointed /\ Faithful

(* Inductive as long as nobody else removes regions.                       *)
IInv == Sound /\ RemovalsAreTracked /\ Replaced
-----------------------------------------------------------------------------
(* Sets of numbers and their listings                                      *)

LEMMA MinIsMember ==
  ASSUME NEW S \in SUBSET Nat, S # {}
  PROVE  Min(S) \in S /\ \A y \in S : Min(S) <= y
<1>1. PICK x \in S : \A y \in S : x <= y
  BY Least
<1> QED BY <1>1 DEF Min

(* A function on an initial segment of the numbers is a list.              *)
LEMMA SegmentIsList ==
  ASSUME NEW S, NEW n \in Nat, NEW s \in [1..n -> S]
  PROVE  s \in Seq(S) /\ Len(s) = n
<1>1. s \in Seq(S)
  BY SeqDef
<1>2. Len(s) \in Nat /\ DOMAIN s = 1..Len(s) /\ DOMAIN s = 1..n
  BY <1>1, LenProperties
<1>3. /\ n \in 1..n => n \in 1..Len(s)
      /\ Len(s) \in 1..Len(s) => Len(s) \in 1..n
  BY <1>2
<1>4. n <= Len(s) /\ Len(s) <= n
  BY <1>2, <1>3
<1> QED BY <1>1, <1>2, <1>4

(* A listing has every member of the set at exactly one place.             *)
LEMMA AscendingLists ==
  ASSUME NEW S \in SUBSET Nat, IsFiniteSet(S), NEW s \in Ascending(S)
  PROVE  /\ s \in Seq(S)
         /\ DOMAIN s = 1..Len(s)
         /\ \A i, j \in DOMAIN s : s[i] = s[j] => i = j
         /\ \A x \in S : \E i \in DOMAIN s : s[i] = x
<1> DEFINE n == Cardinality(S)
<1>1. n \in Nat
  BY FS_CardinalityType
<1>2. s \in [1..n -> S] /\ \A i, j \in DOMAIN s : i < j => s[i] < s[j]
  BY DEF Ascending
<1>3. s \in Seq(S) /\ Len(s) = n /\ DOMAIN s = 1..n
  <2>1. s \in [1..n -> S]
    BY <1>2
  <2> HIDE DEF n
  <2> QED BY <1>1, <2>1, SegmentIsList
<1> HIDE DEF n
<1>4. ASSUME NEW i \in DOMAIN s, NEW j \in DOMAIN s, s[i] = s[j] PROVE i = j
  <2>1. i \in 1..n /\ j \in 1..n
    BY <1>3
  <2>2. s[i] \in S /\ s[j] \in S
    BY <1>2, <2>1
  <2>3. i \in Nat /\ j \in Nat
    BY <1>1, <2>1
  <2>5. s[i] \in Nat /\ s[j] \in Nat
    BY <2>2
  <2>4. (i < j => s[i] < s[j]) /\ (j < i => s[j] < s[i])
    BY <1>2
  <2> QED BY <1>4, <2>3, <2>4, <2>5
<1>5. s \in Injection(1..n, S)
  BY <1>2, <1>3, <1>4 DEF Injection, IsInjective
<1>6. IsFiniteSet(1..n) /\ Cardinality(1..n) = n
  BY <1>1, FS_Interval
<1>7. s \in Surjection(1..n, S)
  BY <1>5, <1>6, FS_Injection DEF n
<1> QED BY <1>3, <1>4, <1>7 DEF Surjection

-----------------------------------------------------------------------------
(* What a read reports                                                     *)

LEMMA TenantFacts ==
  ASSUME TypeOK
  PROVE  /\ DOMAIN tenant = 1..Len(tenant)
         /\ Len(tenant) \in 0..MaxRegions
         /\ \A r \in DOMAIN tenant : tenant[r] \in Region
<1>1. tenant \in Seq(Region) /\ Len(tenant) <= MaxRegions
  BY DEF TypeOK
<1> QED BY <1>1, LenProperties, BoundsAssumption

LEMMA VisibleFacts ==
  ASSUME TypeOK
  PROVE  /\ Visible \subseteq 1..MaxRegions
         /\ Visible \subseteq DOMAIN tenant
         /\ IsFiniteSet(Visible)
         /\ NoRid \notin Visible
<1>1. Visible \subseteq DOMAIN tenant
  BY DEF Visible
<1>2. DOMAIN tenant \subseteq 1..MaxRegions
  BY TenantFacts, BoundsAssumption
<1>3. IsFiniteSet(1..MaxRegions)
  BY BoundsAssumption, FS_Interval
<1>4. Visible \in SUBSET (1..MaxRegions)
  BY <1>1, <1>2
<1>5. IsFiniteSet(Visible)
  BY <1>3, <1>4, FS_Subset
<1>6. NoRid \notin Visible
  BY <1>4, BoundsAssumption DEF NoRid
<1> QED BY <1>1, <1>4, <1>5, <1>6

(* A block is matched with a region that is visible and not claimed yet.   *)
LEMMA MatchIsFree ==
  ASSUME TypeOK, NEW claimed, NEW b
  PROVE  matchAPIRegion(claimed, b) \in (Visible \ claimed) \cup {NoRid}
<1> DEFINE free == Visible \ claimed
           same == {r \in free : b.cp # NoCp /\ cpRegionIdForRegionName(r) = b.cp}
<1>1. same \in SUBSET Nat
  BY VisibleFacts, BoundsAssumption
<1>2. same # {} => Min(same) \in free
  BY <1>1, MinIsMember
<1> QED BY <1>2 DEF matchAPIRegion

(* No region is claimed by two blocks.                                     *)
LEMMA ClaimsAreDistinct ==
  ASSUME TypeOK, NEW prior \in Seq(Entry), NEW claim \in Claims(prior)
  PROVE  /\ claim \in [DOMAIN prior -> Visible \cup {NoRid}]
         /\ \A i, j \in DOMAIN prior :
              claim[i] = claim[j] /\ claim[i] # NoRid => i = j
<1>1. /\ claim \in [DOMAIN prior -> Visible \cup {NoRid}]
      /\ \A i \in DOMAIN prior :
           claim[i] = matchAPIRegion({claim[j] : j \in 1..(i - 1)}, prior[i])
  BY DEF Claims
<1>2. DOMAIN prior \subseteq Nat \ {0}
  BY LenProperties
<1>3. ASSUME NEW i \in DOMAIN prior, NEW j \in DOMAIN prior,
             claim[i] = claim[j], claim[i] # NoRid, j < i
      PROVE  FALSE
  <2>1. claim[j] \in {claim[k] : k \in 1..(i - 1)}
    BY <1>2, <1>3
  <2>2. claim[i] \in (Visible \ {claim[k] : k \in 1..(i - 1)}) \cup {NoRid}
    BY <1>1, MatchIsFree
  <2> QED BY <1>3, <2>1, <2>2
<1>4. \A i, j \in DOMAIN prior : i = j \/ i < j \/ j < i
  BY <1>2
<1> QED BY <1>1, <1>3, <1>4

(* What is carried over of a region is an entry of the list that names the *)
(* region, in the cloud region that the catalogue gives it.                *)
LEMMA CarryIsEntry ==
  ASSUME TypeOK, NEW r \in Visible, NEW b \in Entry
  PROVE  /\ Carry(r, b) \in Entry
         /\ Carry(r, b).rid = r
         /\ cpRegionIdForRegionName(r) \in {NoCp, Carry(r, b).cp}
<1>1. cpRegionIdForRegionName(r) \in Cp \cup {NoCp}
  BY TenantFacts, VisibleFacts DEF cpRegionIdForRegionName, Region
<1>2. r \in 0..MaxRegions
  BY VisibleFacts, BoundsAssumption
<1> QED BY <1>1, <1>2 DEF Carry, Entry

LEMMA FoundIsEntry ==
  ASSUME TypeOK, NEW r \in Visible
  PROVE  [rid |-> r, idle |-> FALSE, cp |-> cpRegionIdForRegionName(r)] \in Entry
<1>1. cpRegionIdForRegionName(r) \in Cp \cup {NoCp}
  BY TenantFacts, VisibleFacts DEF cpRegionIdForRegionName, Region
<1>2. r \in 0..MaxRegions
  BY VisibleFacts, BoundsAssumption
<1> QED BY <1>1, <1>2 DEF Entry

(* The list a read ends with: every visible region once, and each with its *)
(* cloud region if the catalogue has its name.                             *)
LEMMA ReadBack ==
  ASSUME TypeOK, NEW prior \in Seq(Entry), NEW claim \in Claims(prior),
         NEW list \in reconcileNetworkRegions(prior, claim)
  PROVE  /\ list \in Seq(Entry)
         /\ {list[i].rid : i \in DOMAIN list} = Visible
         /\ Len(list) = Cardinality(Visible)
         /\ \A i \in DOMAIN list :
              cpRegionIdForRegionName(list[i].rid) \in {NoCp, list[i].cp}
<1> DEFINE kept == Kept(claim)
           found == Found(claim)
<1>1. PICK k \in Ascending(kept), f \in Ascending(found) :
             list = Listed(prior, claim, k, f)
  BY DEF reconcileNetworkRegions
<1> DEFINE A == [i \in DOMAIN k |-> Carry(claim[k[i]], prior[k[i]])]
           B == [i \in DOMAIN f |->
                   [rid |-> f[i], idle |-> FALSE,
                    cp |-> cpRegionIdForRegionName(f[i])]]
<1>2. list = A \o B
  BY <1>1 DEF Listed
<1>3. /\ claim \in [DOMAIN prior -> Visible \cup {NoRid}]
      /\ \A i, j \in DOMAIN prior :
           claim[i] = claim[j] /\ claim[i] # NoRid => i = j
  BY ClaimsAreDistinct
<1>4. /\ DOMAIN prior = 1..Len(prior) /\ Len(prior) \in Nat
      /\ \A i \in DOMAIN prior : prior[i] \in Entry
  BY LenProperties
<1>5. kept \in SUBSET Nat /\ IsFiniteSet(kept)
  <2>1. IsFiniteSet(1..Len(prior)) /\ kept \in SUBSET (1..Len(prior))
    BY <1>3, <1>4, FS_Interval DEF Kept
  <2> QED BY <1>4, <2>1, FS_Subset
<1>6. found \in SUBSET Nat /\ IsFiniteSet(found)
  <2>1. found \in SUBSET Visible
    BY DEF Found
  <2>2. Visible \in SUBSET Nat
    BY VisibleFacts, BoundsAssumption
  <2> QED BY <2>1, <2>2, VisibleFacts, FS_Subset
<1>7. /\ DOMAIN k = 1..Len(k) /\ Len(k) \in Nat
      /\ \A i \in DOMAIN k : k[i] \in kept
      /\ \A i, j \in DOMAIN k : k[i] = k[j] => i = j
      /\ \A x \in kept : \E i \in DOMAIN k : k[i] = x
  <2> HIDE DEF kept
  <2> QED BY <1>5, AscendingLists, LenProperties
<1>8. /\ DOMAIN f = 1..Len(f) /\ Len(f) \in Nat
      /\ \A i \in DOMAIN f : f[i] \in found
      /\ \A i, j \in DOMAIN f : f[i] = f[j] => i = j
      /\ \A x \in found : \E i \in DOMAIN f : f[i] = x
  <2> HIDE DEF found
  <2> QED BY <1>6, AscendingLists, LenProperties
<1>9. ASSUME NEW i \in DOMAIN k
      PROVE  /\ A[i] \in Entry
             /\ A[i].rid = claim[k[i]] /\ claim[k[i]] \in Visible
             /\ k[i] \in DOMAIN prior
             /\ cpRegionIdForRegionName(A[i].rid) \in {NoCp, A[i].cp}
  <2>1. k[i] \in DOMAIN prior /\ claim[k[i]] \in Visible
    BY <1>3, <1>7 DEF Kept
  <2>2. A[i] = Carry(claim[k[i]], prior[k[i]])
    OBVIOUS
  <2> QED BY <1>4, <2>1, <2>2, CarryIsEntry
<1>10. ASSUME NEW i \in DOMAIN f
       PROVE  /\ B[i] \in Entry
              /\ B[i].rid = f[i] /\ f[i] \in found /\ f[i] \in Visible
              /\ cpRegionIdForRegionName(B[i].rid) \in {NoCp, B[i].cp}
  <2>1. f[i] \in found /\ f[i] \in Visible
    BY <1>8 DEF Found
  <2> QED BY <2>1, FoundIsEntry
<1>11. A \in Seq(Entry) /\ Len(A) = Len(k)
  <2>1. A \in [1..Len(k) -> Entry]
    BY <1>7, <1>9
  <2> HIDE DEF A
  <2> QED BY <1>7, <2>1, SegmentIsList
<1>12. B \in Seq(Entry) /\ Len(B) = Len(f)
  <2>1. B \in [1..Len(f) -> Entry]
    BY <1>8, <1>10
  <2> HIDE DEF B
  <2> QED BY <1>8, <2>1, SegmentIsList
<1>13. \A i \in DOMAIN k : A[i].rid = claim[k[i]] /\ claim[k[i]] \in Visible
  BY <1>9
<1>14. \A i \in DOMAIN f : B[i].rid = f[i] /\ f[i] \in Visible
  BY <1>10
<1>15. /\ \A i \in DOMAIN k : cpRegionIdForRegionName(A[i].rid) \in {NoCp, A[i].cp}
       /\ \A i \in DOMAIN f : cpRegionIdForRegionName(B[i].rid) \in {NoCp, B[i].cp}
  BY <1>9, <1>10
<1> HIDE DEF A, B
<1>16. /\ list \in Seq(Entry)
       /\ Len(list) = Len(k) + Len(f)
       /\ \A i \in 1..(Len(k) + Len(f)) :
             list[i] = IF i <= Len(k) THEN A[i] ELSE B[i - Len(k)]
  <2>1. A \o B \in Seq(Entry)
    BY <1>11, <1>12, ConcatProperties
  <2>2. Len(A \o B) = Len(A) + Len(B)
    BY <1>11, <1>12, ConcatProperties
  <2>3. \A i \in 1..(Len(A) + Len(B)) :
          (A \o B)[i] = IF i <= Len(A) THEN A[i] ELSE B[i - Len(A)]
    BY <1>11, <1>12, ConcatProperties
  <2> QED BY <1>2, <1>11, <1>12, <2>1, <2>2, <2>3
<1>17. DOMAIN list = 1..(Len(k) + Len(f))
  BY <1>16, LenProperties
<1>18. ASSUME NEW i \in DOMAIN list
       PROVE  \/ i \in DOMAIN k /\ list[i] = A[i]
              \/ \E j \in DOMAIN f : i = Len(k) + j /\ list[i] = B[j]
  <2>1. i \in Nat /\ 1 <= i /\ i <= Len(k) + Len(f)
    BY <1>7, <1>8, <1>17
  <2>2. list[i] = IF i <= Len(k) THEN A[i] ELSE B[i - Len(k)]
    BY <1>16, <1>17
  <2>3. CASE i <= Len(k)
    BY <1>7, <2>1, <2>2, <2>3
  <2>4. CASE ~(i <= Len(k))
    <3>1. i - Len(k) \in 1..Len(f) /\ i = Len(k) + (i - Len(k))
      BY <1>7, <1>8, <2>1, <2>4
    <3> QED BY <1>8, <2>2, <2>4, <3>1
  <2> QED BY <2>3, <2>4
<1>19. ASSUME NEW i \in DOMAIN k PROVE i \in DOMAIN list /\ list[i] = A[i]
  <2>1. i \in Nat /\ 1 <= i /\ i <= Len(k) /\ i \in 1..(Len(k) + Len(f))
    BY <1>7, <1>8
  <2> QED BY <1>16, <1>17, <2>1
<1>20. ASSUME NEW i \in DOMAIN f
       PROVE  Len(k) + i \in DOMAIN list /\ list[Len(k) + i] = B[i]
  <2>1. /\ Len(k) + i \in 1..(Len(k) + Len(f))
        /\ ~(Len(k) + i <= Len(k))
        /\ (Len(k) + i) - Len(k) = i
    BY <1>7, <1>8
  <2> QED BY <1>16, <1>17, <2>1
<1>21. \A i \in DOMAIN list : list[i].rid \in Visible
  BY <1>13, <1>14, <1>18
<1>22. ASSUME NEW r \in Visible PROVE \E i \in DOMAIN list : list[i].rid = r
  <2>1. CASE r \in found
    BY <1>8, <1>14, <1>20, <2>1
  <2>2. CASE r \notin found
    <3>1. PICK i \in kept : claim[i] = r
      BY <2>2 DEF Found
    <3> QED BY <1>7, <1>13, <1>19, <3>1
  <2> QED BY <2>1, <2>2
<1>23. ASSUME NEW i \in DOMAIN list, NEW j \in DOMAIN list,
              list[i].rid = list[j].rid
       PROVE  i = j
  <2>1. ASSUME NEW x \in DOMAIN k, NEW y \in DOMAIN k, claim[k[x]] = claim[k[y]]
        PROVE  x = y
    <3>1. /\ k[x] \in DOMAIN prior /\ k[y] \in DOMAIN prior
          /\ claim[k[x]] # NoRid
      BY <1>9, <1>7 DEF Kept
    <3> QED BY <1>3, <1>7, <2>1, <3>1
  <2>2. ASSUME NEW x \in DOMAIN k, NEW y \in DOMAIN f, claim[k[x]] = f[y]
        PROVE  FALSE
    <3>1. k[x] \in kept /\ f[y] \in found
      BY <1>7, <1>8
    <3> QED BY <2>2, <3>1 DEF Found
  <2>3. CASE i \in DOMAIN k /\ list[i] = A[i]
    <3>1. CASE j \in DOMAIN k /\ list[j] = A[j]
      BY <1>13, <1>23, <2>1, <2>3, <3>1
    <3>2. ASSUME NEW y \in DOMAIN f, list[j] = B[y] PROVE FALSE
      BY <1>13, <1>14, <1>23, <2>2, <2>3, <3>2
    <3> QED BY <1>18, <3>1, <3>2
  <2>4. ASSUME NEW x \in DOMAIN f, i = Len(k) + x, list[i] = B[x] PROVE i = j
    <3>1. CASE j \in DOMAIN k /\ list[j] = A[j]
      BY <1>13, <1>14, <1>23, <2>2, <2>4, <3>1
    <3>2. ASSUME NEW y \in DOMAIN f, j = Len(k) + y, list[j] = B[y] PROVE i = j
      BY <1>8, <1>14, <1>23, <2>4, <3>2
    <3> QED BY <1>18, <3>1, <3>2
  <2> QED BY <1>18, <2>3, <2>4
<1>24. Len(list) = Cardinality(Visible)
  <2> DEFINE n == Len(k) + Len(f)
             g == [i \in 1..n |-> list[i].rid]
  <2>1. n \in Nat
    BY <1>7, <1>8
  <2>2. DOMAIN list = 1..n /\ Len(list) = n
    BY <1>16, <1>17
  <2> HIDE DEF n
  <2>3. g \in Bijection(1..n, Visible)
    <3>1. g \in [1..n -> Visible]
      BY <1>21, <2>2
    <3>2. \A i, j \in 1..n : g[i] = g[j] => i = j
      BY <1>23, <2>2
    <3>3. \A r \in Visible : \E i \in 1..n : g[i] = r
      BY <1>22, <2>2
    <3> HIDE DEF g
    <3> QED BY <3>1, <3>2, <3>3
          DEF Bijection, Injection, Surjection, IsInjective
  <2>4. IsFiniteSet(1..n) /\ Cardinality(1..n) = n
    BY <2>1, FS_Interval
  <2> HIDE DEF g
  <2>5. ExistsBijection(1..n, Visible)
    BY <2>3, Fun_ExistsBij
  <2>6. Cardinality(1..n) = Cardinality(Visible)
    BY <2>4, <2>5, FS_Bijection
  <2> QED BY <2>2, <2>4, <2>6
<1>25. {list[i].rid : i \in DOMAIN list} = Visible
  BY <1>21, <1>22
<1>26. \A i \in DOMAIN list :
         cpRegionIdForRegionName(list[i].rid) \in {NoCp, list[i].cp}
  BY <1>15, <1>18
<1> QED BY <1>16, <1>24, <1>25, <1>26

-----------------------------------------------------------------------------
(* The types                                                               *)

(* The list a read starts from.                                            *)
LEMMA PriorIsList ==
  ASSUME TypeOK
  PROVE  Prior \in Seq(Entry)
<1>1. state \in Seq(Entry) /\ config \in Seq(Block)
  BY ConfigsAssumption DEF TypeOK
<1>2. Planned \in [1..Len(config) -> Entry] /\ Len(config) \in Nat
  <2>1. /\ DOMAIN config = 1..Len(config) /\ Len(config) \in Nat
        /\ \A i \in DOMAIN config : config[i] \in Block
    BY <1>1, LenProperties
  <2>2. \A i \in DOMAIN state : state[i].rid \in 0..MaxRegions
    <3>1. \A i \in DOMAIN state : state[i] \in Entry
      BY <1>1, LenProperties
    <3> QED BY <3>1 DEF Entry
  <2>3. NoRid \in 0..MaxRegions
    BY BoundsAssumption DEF NoRid
  <2>4. ASSUME NEW i \in DOMAIN config PROVE Planned[i] \in Entry
    <3>1. (IF i \in DOMAIN state THEN state[i].rid ELSE NoRid) \in 0..MaxRegions
      BY <2>2, <2>3
    <3>2. config[i].cp \in Cp /\ config[i].idle \in BOOLEAN
      BY <2>1 DEF Block
    <3> QED BY <3>1, <3>2 DEF Planned, Entry
  <2> QED BY <2>1, <2>4 DEF Planned
<1>3. Planned \in Seq(Entry)
  BY <1>2, SegmentIsList
<1> QED BY <1>1, <1>3 DEF Prior

(* Where an update goes: to its first addition, else to its first removal. *)
LEMMA ContinueFacts ==
  ASSUME NEW old, NEW adds \in SUBSET Nat, NEW removes \in SUBSET Nat
  PROVE  LET next == Continue(old, adds, removes)
         IN /\ next \in Operation
            /\ next.pc \in {"add", "remove", "read"}
            /\ next.pc = "add" =>
                 next.at \in adds /\ \A i \in adds : next.at <= i
            /\ next.pc = "remove" => adds = {} /\ next.at \in removes
<1>1. CASE adds # {}
  <2>1. Min(adds) \in adds /\ \A i \in adds : Min(adds) <= i
    BY <1>1, MinIsMember
  <2> QED BY <1>1, <2>1 DEF Continue, At, Operation
<1>2. CASE adds = {} /\ removes # {}
  <2>1. Min(removes) \in removes
    BY <1>2, MinIsMember
  <2> QED BY <1>2, <2>1 DEF Continue, At, Operation
<1>3. CASE adds = {} /\ removes = {}
  BY <1>3 DEF Continue, Operation
<1> QED BY <1>1, <1>2, <1>3

LEMMA ListFacts ==
  ASSUME TypeOK
  PROVE  /\ DOMAIN config \in SUBSET Nat /\ DOMAIN state \in SUBSET Nat
         /\ \A i \in DOMAIN config : config[i].cp \in Cp
         /\ \A i \in DOMAIN state : state[i] \in Entry
<1>1. state \in Seq(Entry) /\ config \in Seq(Block)
  BY ConfigsAssumption DEF TypeOK
<1>2. DOMAIN config \in SUBSET Nat /\ DOMAIN state \in SUBSET Nat
  BY <1>1, LenProperties
<1>3. /\ \A i \in DOMAIN config : config[i] \in Block
      /\ \A i \in DOMAIN state : state[i] \in Entry
  BY <1>1, LenProperties
<1> QED BY <1>2, <1>3 DEF Block

LEMMA WorkFacts ==
  ASSUME TypeOK, NEW list \in Seq(Entry)
  PROVE  ToAdd(list) \in SUBSET Nat /\ ToRemove(list) \in SUBSET Nat
<1>1. DOMAIN list \in SUBSET Nat
  BY LenProperties
<1> QED BY <1>1, ListFacts DEF ToAdd, ToRemove

LEMMA InitSound == Init => Sound
<1> SUFFICES ASSUME Init PROVE Sound
  OBVIOUS
<1> DEFINE n == Len(config)
<1>1. /\ config \in Configs /\ config \in Seq(Block)
      /\ n \in 1..MaxRegions /\ DOMAIN config = 1..n
      /\ n \in Nat
      /\ \A i \in DOMAIN config : config[i].cp \in Cp /\ config[i].idle \in BOOLEAN
  <2>1. config \in Configs /\ config \in Seq(Block) /\ n \in 1..MaxRegions
    BY ConfigsAssumption DEF Init
  <2>2. DOMAIN config = 1..n /\ n \in Nat
    BY <2>1, LenProperties
  <2>3. \A i \in DOMAIN config : config[i] \in Block
    BY <2>1, LenProperties
  <2>4. \A i \in DOMAIN config : config[i].cp \in Cp /\ config[i].idle \in BOOLEAN
    BY <2>3 DEF Block
  <2> HIDE DEF n
  <2> QED BY <2>1, <2>2, <2>4
<1>2. /\ tenant \in [1..n -> Region]
      /\ \A i \in 1..n : tenant[i].cp = config[i].cp
  <2>1. tenant \in [1..n -> [cp : Cp, name : Births, phase : {"live"}]]
    BY <1>1 DEF Init
  <2>2. [cp : Cp, name : Births, phase : {"live"}] \subseteq Region
    BY NamesAssumption DEF Region
  <2>3. \A i \in 1..n : tenant[i].cp = config[i].cp
    BY <1>1 DEF Init
  <2> QED BY <2>1, <2>2, <2>3
<1>3. /\ state \in [1..n -> Entry]
      /\ \A i \in 1..n : state[i].rid = i /\ state[i].cp = config[i].cp
  <2>1. 1..n \subseteq 0..MaxRegions
    BY <1>1, BoundsAssumption
  <2>2. CASE state = [i \in DOMAIN config |->
                       [rid |-> i, cp |-> config[i].cp, idle |-> config[i].idle]]
    BY <1>1, <2>1, <2>2 DEF Entry
  <2>3. CASE state = [i \in DOMAIN config |->
                       [rid |-> i, cp |-> config[i].cp, idle |-> FALSE]]
    BY <1>1, <2>1, <2>3 DEF Entry
  <2> QED BY <2>2, <2>3 DEF Init
<1>4. op = Idle /\ quiet = TRUE /\ faults = 0 /\ edits = 0
  BY DEF Init
<1> HIDE DEF n
<1>5. tenant \in Seq(Region) /\ Len(tenant) = n /\ state \in Seq(Entry)
  BY <1>1, <1>2, <1>3, SegmentIsList
<1>6. n <= MaxRegions
  BY <1>1, BoundsAssumption
<1>7. op \in Operation
  BY <1>4 DEF Idle, Operation
<1>8. TypeOK
  BY <1>1, <1>4, <1>5, <1>6, <1>7, BoundsAssumption DEF TypeOK
<1>9. Pointed
  BY <1>4 DEF Pointed, Idle
<1>10. Faithful
  BY <1>2, <1>3 DEF Faithful, cpRegionIdForRegionName
<1> QED BY <1>8, <1>9, <1>10 DEF Sound

-----------------------------------------------------------------------------
(* The steps                                                               *)

(* What a step may do to the tenant's list.                                *)
Tenancy ==
  /\ tenant' \in Seq(Region) /\ Len(tenant') <= MaxRegions
  /\ DOMAIN tenant \subseteq DOMAIN tenant'
  /\ \A r \in DOMAIN tenant :
       /\ tenant'[r].cp = tenant[r].cp
       /\ tenant'[r].name \in {tenant[r].name, "unknown"}

Counters ==
  quiet \in BOOLEAN /\ faults \in 0..MaxFaults /\ edits \in 0..MaxEdits

LEMMA CounterSteps ==
  ASSUME TypeOK
  PROVE  /\ NoFault => Counters'
         /\ Fault => Counters'
         /\ Edit /\ quiet' \in BOOLEAN => Counters'
<1>1. /\ quiet \in BOOLEAN /\ faults \in 0..MaxFaults /\ edits \in 0..MaxEdits
      /\ MaxFaults \in Nat /\ MaxEdits \in Nat
  BY BoundsAssumption DEF TypeOK
<1>2. ASSUME NoFault PROVE Counters'
  BY <1>1, <1>2 DEF NoFault, Counters
<1>3. ASSUME Fault PROVE Counters'
  <2>1. faults' \in 0..MaxFaults
    BY <1>1, <1>3 DEF Fault
  <2> QED BY <1>1, <1>3, <2>1 DEF Fault, Counters
<1>4. ASSUME Edit, quiet' \in BOOLEAN PROVE Counters'
  <2>1. edits' \in 0..MaxEdits
    BY <1>1, <1>4 DEF Edit
  <2> QED BY <1>1, <1>4, <2>1 DEF Edit, Counters
<1> QED BY <1>2, <1>3, <1>4

(* A tenant that gets a region.                                            *)
LEMMA NewRegionStep ==
  ASSUME TypeOK, ~Full, NEW cp \in Cp, NewRegion(cp)
  PROVE  /\ Tenancy
         /\ \A r \in DOMAIN tenant : tenant'[r] = tenant[r]
         /\ \A r \in DOMAIN tenant' \ DOMAIN tenant : tenant'[r].phase = "adding"
<1>1. PICK name \in Births :
        tenant' = Append(tenant, [cp |-> cp, name |-> name, phase |-> "adding"])
  BY DEF NewRegion
<1> DEFINE new == [cp |-> cp, name |-> name, phase |-> "adding"]
<1>2. new \in Region
  BY NamesAssumption DEF Region
<1>3. /\ tenant \in Seq(Region) /\ Len(tenant) \in Nat
      /\ MaxRegions \in Nat /\ Len(tenant) < MaxRegions
  <2>1. tenant \in Seq(Region) /\ Len(tenant) <= MaxRegions
    BY DEF TypeOK
  <2>2. Len(tenant) \in Nat /\ MaxRegions \in Nat
    BY <2>1, LenProperties, BoundsAssumption
  <2> QED BY <2>1, <2>2 DEF Full
<1>4. /\ tenant' \in Seq(Region)
      /\ Len(tenant') = Len(tenant) + 1
      /\ \A r \in 1..Len(tenant) : tenant'[r] = tenant[r]
      /\ tenant'[Len(tenant) + 1] = new
  <2> HIDE DEF new
  <2> QED BY <1>1, <1>2, <1>3, AppendProperties DEF new
<1>5. DOMAIN tenant = 1..Len(tenant) /\ DOMAIN tenant' = 1..(Len(tenant) + 1)
  BY <1>3, <1>4, LenProperties
<1>6. /\ Len(tenant') <= MaxRegions
      /\ DOMAIN tenant \subseteq DOMAIN tenant'
      /\ DOMAIN tenant' \ DOMAIN tenant = {Len(tenant) + 1}
  BY <1>3, <1>4, <1>5
<1>7. \A r \in DOMAIN tenant' \ DOMAIN tenant : tenant'[r].phase = "adding"
  BY <1>4, <1>6
<1> QED BY <1>4, <1>5, <1>6, <1>7 DEF Tenancy

(* A region that changes its phase or loses its name.                      *)
LEMMA PhaseStep ==
  ASSUME TypeOK, NEW x \in DOMAIN tenant,
         NEW to \in {"adding", "live", "removing", "gone"},
         tenant' = [tenant EXCEPT ![x].phase = to]
  PROVE  /\ Tenancy
         /\ DOMAIN tenant' = DOMAIN tenant
         /\ \A r \in DOMAIN tenant : r # x => tenant'[r] = tenant[r]
         /\ tenant'[x].phase = to
<1>1. tenant \in Seq(Region) /\ Len(tenant) <= MaxRegions
  BY DEF TypeOK
<1>2. tenant[x] \in Region
  BY TenantFacts
<1> DEFINE new == [tenant[x] EXCEPT !.phase = to]
<1>3. new \in Region
  BY <1>2 DEF Region
<1>4. tenant' = [tenant EXCEPT ![x] = new]
  OBVIOUS
<1>5. /\ tenant' \in Seq(Region) /\ Len(tenant') = Len(tenant)
      /\ DOMAIN tenant' = DOMAIN tenant
  <2>1. DOMAIN tenant = 1..Len(tenant) /\ Len(tenant) \in Nat
    BY <1>1, LenProperties
  <2>2. tenant' \in [1..Len(tenant) -> Region]
    <3>1. tenant \in [1..Len(tenant) -> Region]
      BY <1>1, LenProperties
    <3> HIDE DEF new
    <3> QED BY <1>3, <1>4, <3>1
  <2> DEFINE n == Len(tenant)
             s == tenant'
  <2>3. s \in Seq(Region) /\ Len(s) = n
    <3>1. n \in Nat /\ s \in [1..n -> Region]
      BY <2>1, <2>2
    <3> HIDE DEF n, s
    <3> QED BY <3>1, SegmentIsList
  <2> QED BY <2>1, <2>2, <2>3
<1>6. /\ \A r \in DOMAIN tenant : r # x => tenant'[r] = tenant[r]
      /\ tenant'[x] = [tenant[x] EXCEPT !.phase = to]
  BY <1>4
<1>7. /\ tenant'[x].phase = to
      /\ tenant'[x].cp = tenant[x].cp /\ tenant'[x].name = tenant[x].name
  BY <1>2, <1>6 DEF Region
<1> QED BY <1>1, <1>5, <1>6, <1>7 DEF Tenancy

LEMMA RenameStep ==
  ASSUME TypeOK, NEW x \in DOMAIN tenant,
         tenant' = [tenant EXCEPT ![x].name = "unknown"]
  PROVE  /\ Tenancy
         /\ DOMAIN tenant' = DOMAIN tenant
         /\ \A r \in DOMAIN tenant : tenant'[r].phase = tenant[r].phase
<1>1. tenant \in Seq(Region) /\ Len(tenant) <= MaxRegions
  BY DEF TypeOK
<1>2. tenant[x] \in Region
  BY TenantFacts
<1> DEFINE new == [tenant[x] EXCEPT !.name = "unknown"]
<1>3. new \in Region
  BY <1>2 DEF Region, Names
<1>4. tenant' = [tenant EXCEPT ![x] = new]
  OBVIOUS
<1>5. /\ tenant' \in Seq(Region) /\ Len(tenant') = Len(tenant)
      /\ DOMAIN tenant' = DOMAIN tenant
  <2>1. DOMAIN tenant = 1..Len(tenant) /\ Len(tenant) \in Nat
    BY <1>1, LenProperties
  <2>2. tenant' \in [1..Len(tenant) -> Region]
    <3>1. tenant \in [1..Len(tenant) -> Region]
      BY <1>1, LenProperties
    <3> HIDE DEF new
    <3> QED BY <1>3, <1>4, <3>1
  <2> DEFINE n == Len(tenant)
             s == tenant'
  <2>3. s \in Seq(Region) /\ Len(s) = n
    <3>1. n \in Nat /\ s \in [1..n -> Region]
      BY <2>1, <2>2
    <3> HIDE DEF n, s
    <3> QED BY <3>1, SegmentIsList
  <2> QED BY <2>1, <2>2, <2>3
<1>6. /\ \A r \in DOMAIN tenant : r # x => tenant'[r] = tenant[r]
      /\ tenant'[x] = [tenant[x] EXCEPT !.name = "unknown"]
  BY <1>4
<1>7. /\ tenant'[x].name = "unknown"
      /\ tenant'[x].cp = tenant[x].cp /\ tenant'[x].phase = tenant[x].phase
  BY <1>2, <1>6 DEF Region
<1> QED BY <1>1, <1>5, <1>6, <1>7 DEF Tenancy

LEMMA SameTenant ==
  ASSUME TypeOK, UNCHANGED tenant
  PROVE  Tenancy
BY DEF TypeOK, Tenancy

(* A step that leaves the two lists alone.                                 *)
LEMMA ListsStay ==
  ASSUME Sound, Tenancy, UNCHANGED <<state, config>>,
         op' \in Operation, Pointed', Counters'
  PROVE  Sound'
<1>1. TypeOK'
  BY DEF Sound, TypeOK, Tenancy, Counters
<1>2. Faithful'
  <2> SUFFICES ASSUME NEW i \in DOMAIN state
               PROVE  /\ state[i].rid \in DOMAIN tenant'
                      /\ cpRegionIdForRegionName(state[i].rid)'
                           \in {NoCp, state[i].cp}
    BY DEF Faithful
  <2>1. /\ state[i].rid \in DOMAIN tenant
        /\ cpRegionIdForRegionName(state[i].rid) \in {NoCp, state[i].cp}
    BY DEF Sound, Faithful
  <2> QED BY <2>1 DEF Tenancy, cpRegionIdForRegionName
<1> QED BY <1>1, <1>2 DEF Sound

(* The tenant and others: the operation stays where it is.                 *)
LEMMA ElsewhereIsSound ==
  ASSUME Sound, Tenancy, UNCHANGED <<state, config, op>>, Counters'
  PROVE  Sound'
<1>1. op' \in Operation
  BY DEF Sound, TypeOK
<1>2. Pointed'
  BY DEF Sound, Pointed, ToAdd, ToRemove, Cps
<1> QED BY <1>1, <1>2, ListsStay

(* An operation that fails.                                                *)
LEMMA FailingIsSound ==
  ASSUME Sound, Tenancy, Fails, Counters'
  PROVE  Sound'
<1>1. op' \in Operation /\ Pointed'
  BY DEF Fails, Idle, Operation, Pointed
<1> QED BY <1>1, ListsStay DEF Fails

(* An update that begins, or goes on, with these additions and removals.   *)
LEMMA ContinueIsPointed ==
  ASSUME UNCHANGED config, NEW old,
         NEW adds \in SUBSET Nat, adds \subseteq ToAdd(state'),
         NEW removes \in SUBSET Nat, removes \subseteq ToRemove(state'),
         op' = Continue(old, adds, removes)
  PROVE  op' \in Operation /\ Pointed'
<1>1. /\ op' \in Operation
      /\ op'.pc \in {"add", "remove", "read"}
      /\ op'.pc = "add" => op'.at \in adds
      /\ op'.pc = "remove" => op'.at \in removes
  BY ContinueFacts
<1>2. ToAdd(state)' = ToAdd(state') /\ ToRemove(state)' = ToRemove(state')
  BY DEF ToAdd, ToRemove, Cps
<1> QED BY <1>1, <1>2 DEF Pointed

LEMMA ReadIsSound ==
  ASSUME Sound, ReadSucceeds
  PROVE  /\ Sound'
         /\ {state'[i].rid : i \in DOMAIN state'} = Visible
         /\ Len(state') = Cardinality(Visible)
<1>1. PICK claim \in Claims(Prior) :
        state' \in reconcileNetworkRegions(Prior, claim)
  BY DEF ReadSucceeds
<1>2. TypeOK /\ Prior \in Seq(Entry)
  BY PriorIsList DEF Sound
<1>3. /\ state' \in Seq(Entry)
      /\ {state'[i].rid : i \in DOMAIN state'} = Visible
      /\ Len(state') = Cardinality(Visible)
      /\ \A i \in DOMAIN state' :
           cpRegionIdForRegionName(state'[i].rid) \in {NoCp, state'[i].cp}
  BY <1>1, <1>2, ReadBack
<1>4. UNCHANGED <<tenant, config>> /\ NoFault
  BY DEF ReadSucceeds
<1>5. op' \in Operation /\ Pointed'
  <2>1. CASE op' = Idle
    BY <2>1 DEF Idle, Operation, Pointed
  <2>2. CASE op' = StartUpdate(state')
    <3>1. ToAdd(state') \in SUBSET Nat /\ ToRemove(state') \in SUBSET Nat
      BY <1>2, <1>3, WorkFacts
    <3>2. op' = Continue(state', ToAdd(state'), ToRemove(state'))
      BY <2>2 DEF StartUpdate
    <3> QED BY <1>4, <3>1, <3>2, ContinueIsPointed
  <2> QED BY <2>1, <2>2 DEF ReadSucceeds
<1>6. Counters'
  BY <1>2, <1>4, CounterSteps
<1>7. TypeOK'
  BY <1>2, <1>3, <1>4, <1>5, <1>6 DEF TypeOK, Counters
<1>8. Faithful'
  <2>1. \A i \in DOMAIN state' : state'[i].rid \in DOMAIN tenant
    BY <1>2, <1>3, VisibleFacts
  <2> QED BY <1>3, <1>4, <2>1 DEF Faithful, cpRegionIdForRegionName
<1> QED BY <1>3, <1>5, <1>7, <1>8 DEF Sound

LEMMA AddIsSound ==
  ASSUME Sound, AddAccepted \/ AddReplyLost
  PROVE  Sound' /\ NewRegion(config[op.at].cp) /\ ~Full /\ config[op.at].cp \in Cp
<1>1. TypeOK /\ op.pc = "add" /\ ~Full /\ NewRegion(config[op.at].cp)
  BY DEF Sound, AddAccepted, AddReplyLost
<1>2. op.at \in ToAdd(state)
  BY <1>1 DEF Sound, Pointed
<1>3. config[op.at].cp \in Cp
  BY <1>1, <1>2, ListFacts DEF ToAdd
<1>4. Tenancy
  BY <1>1, <1>3, NewRegionStep
<1>5. CASE AddAccepted
  <2>1. op' \in Operation /\ op'.pc = "resolve" /\ op'.at = op.at
    BY <1>1, <1>5 DEF AddAccepted, TypeOK, Operation
  <2>2. UNCHANGED <<state, config>> /\ Counters'
    BY <1>1, <1>5, CounterSteps DEF AddAccepted
  <2>3. Pointed'
    BY <1>2, <2>1, <2>2 DEF Pointed, ToAdd, ToRemove, Cps
  <2> QED BY <1>1, <1>3, <1>4, <2>1, <2>2, <2>3, ListsStay
<1>6. CASE AddReplyLost
  BY <1>1, <1>3, <1>4, <1>6, CounterSteps, FailingIsSound DEF AddReplyLost
<1> QED BY <1>5, <1>6

LEMMA ResolveIsSound == ASSUME Sound, Resolve PROVE Sound'
<1>1. TypeOK /\ op.pc = "resolve" /\ op.at \in ToAdd(state)
  BY DEF Sound, Pointed, Resolve
<1>2. op' \in Operation /\ op'.pc = "appear" /\ op'.at = op.at
  BY <1>1 DEF Resolve, TypeOK, Operation
<1>3. UNCHANGED <<tenant, state, config>> /\ Counters'
  BY <1>1, CounterSteps DEF Resolve
<1>4. Pointed'
  BY <1>1, <1>2, <1>3 DEF Pointed, ToAdd, ToRemove, Cps
<1> QED BY <1>1, <1>2, <1>3, <1>4, SameTenant, ListsStay

(* An update that goes on after a region has come or gone.                 *)
LEMMA SeenIsSound ==
  ASSUME Sound, AppearSeen \/ VanishSeen
  PROVE  Sound'
<1>1. /\ TypeOK /\ UNCHANGED <<tenant, state, config>> /\ Counters'
      /\ state \in Seq(Entry)
  BY CounterSteps DEF Sound, AppearSeen, VanishSeen, TypeOK
<1>2. PICK adds \in SUBSET ToAdd(state), removes \in SUBSET ToRemove(state) :
        op' = Continue(state, adds, removes)
  <2>1. CASE AppearSeen
    BY <2>1 DEF AppearSeen
  <2>2. CASE VanishSeen
    BY <2>2 DEF VanishSeen
  <2> QED BY <2>1, <2>2
<1>3. adds \in SUBSET Nat /\ removes \in SUBSET Nat
  BY <1>1, WorkFacts
<1>4. op' \in Operation /\ Pointed'
  BY <1>1, <1>2, <1>3, ContinueIsPointed
<1> QED BY <1>1, <1>4, SameTenant, ListsStay

LEMMA RemoveIsSound ==
  ASSUME Sound, RemoveAccepted \/ RemoveReplyLost
  PROVE  /\ Sound'
         /\ Doomed \in Visible /\ op.at \in ToRemove(state)
         /\ tenant' = [tenant EXCEPT ![Doomed].phase = "removing"]
         /\ UNCHANGED <<state, config>>
<1>1. /\ TypeOK /\ op.pc = "remove" /\ Doomed \in Visible
      /\ op.at \in ToRemove(state)
      /\ tenant' = [tenant EXCEPT ![Doomed].phase = "removing"]
      /\ UNCHANGED <<state, config>>
  BY DEF Sound, Pointed, RemoveAccepted, RemoveReplyLost, Fails
<1>2. Tenancy
  BY <1>1, PhaseStep DEF Visible
<1>3. CASE RemoveAccepted
  <2>1. op' \in Operation /\ op'.pc = "vanish" /\ op'.at = op.at
    BY <1>1, <1>3 DEF RemoveAccepted, TypeOK, Operation
  <2>2. Counters'
    BY <1>1, <1>3, CounterSteps DEF RemoveAccepted
  <2>3. Pointed'
    BY <1>1, <2>1 DEF Pointed, ToAdd, ToRemove, Cps
  <2> QED BY <1>1, <1>2, <2>1, <2>2, <2>3, ListsStay
<1>4. CASE RemoveReplyLost
  BY <1>1, <1>2, <1>4, CounterSteps, FailingIsSound DEF RemoveReplyLost
<1> QED BY <1>3, <1>4

(* Operations that end, or do not begin, without having done anything.     *)
LEMMA RefusalIsSound ==
  ASSUME Sound, AddRefused \/ AppearTimesOut \/ RemoveRefused \/ Interrupted
  PROVE  Sound'
<1>1. TypeOK /\ Fails /\ UNCHANGED tenant
  BY DEF Sound, AddRefused, AppearTimesOut, RemoveRefused, Interrupted
<1>2. Counters'
  <2>1. CASE AppearTimesOut
    BY <1>1, <2>1 DEF AppearTimesOut, Counters, TypeOK
  <2>2. CASE AddRefused \/ RemoveRefused \/ Interrupted
    BY <1>1, <2>2, CounterSteps DEF AddRefused, RemoveRefused, Interrupted
  <2> QED BY <2>1, <2>2
<1> QED BY <1>1, <1>2, SameTenant, FailingIsSound

LEMMA OperatorIsSound ==
  ASSUME Sound, NEW kind \in {"apply", "refresh"},
         Refresh(kind) \/ ApplyStale \/ EditConfig
  PROVE  Sound'
<1>1. TypeOK /\ op = Idle /\ UNCHANGED <<tenant, state>>
  BY DEF Sound, Refresh, ApplyStale, EditConfig
<1>2. Tenancy
  BY <1>1, SameTenant
<1>3. CASE Refresh(kind)
  <2>1. quiet' \in BOOLEAN
    BY <1>3 DEF Refresh
  <2>2. Counters'
    BY <1>1, <1>3, <2>1 DEF Refresh, Counters, TypeOK
  <2>3. op' \in Operation /\ op'.pc = "read" /\ UNCHANGED config
    BY <1>3 DEF Refresh, Operation
  <2>4. Pointed'
    BY <2>3 DEF Pointed
  <2> QED BY <1>1, <1>2, <2>2, <2>3, <2>4, ListsStay
<1>4. CASE ApplyStale
  <2>1. /\ Edit /\ quiet' = FALSE /\ UNCHANGED <<state, config>>
        /\ op' = Continue(state, ToAdd(state), ToRemove(state))
        /\ state \in Seq(Entry)
    BY <1>1, <1>4 DEF ApplyStale, StartUpdate, TypeOK
  <2>2. Counters'
    BY <1>1, <2>1, CounterSteps
  <2>3. ToAdd(state) \in SUBSET Nat /\ ToRemove(state) \in SUBSET Nat
    BY <1>1, <2>1, WorkFacts
  <2>4. op' \in Operation /\ Pointed'
    BY <2>1, <2>3, ContinueIsPointed
  <2> QED BY <1>2, <2>1, <2>2, <2>4, ListsStay
<1>5. CASE EditConfig
  <2>1. config' \in Configs /\ UNCHANGED <<tenant, state, op, quiet>> /\ Edit
    BY <1>5 DEF EditConfig
  <2>2. Counters'
    BY <1>1, <2>1, CounterSteps DEF TypeOK
  <2>3. TypeOK'
    BY <1>1, <2>1, <2>2 DEF TypeOK, Counters
  <2>4. Pointed'
    BY <1>1, <2>1 DEF Pointed, Idle
  <2>5. Faithful'
    BY <2>1 DEF Sound, Faithful, cpRegionIdForRegionName
  <2> QED BY <2>3, <2>4, <2>5 DEF Sound
<1> QED BY <1>3, <1>4, <1>5

LEMMA OutsideIsSound ==
  ASSUME Sound, Backend \/ OthersAdd \/ OthersRemove \/ OthersRename
  PROVE  Sound'
<1>1. TypeOK /\ UNCHANGED <<state, config, op>>
  BY DEF Sound, Backend, OthersAdd, OthersRemove, OthersRename, MoveOn
<1>2. Tenancy
  <2>1. CASE Backend
    BY <1>1, <2>1, PhaseStep DEF Backend, MoveOn
  <2>2. CASE OthersAdd
    BY <1>1, <2>2, NewRegionStep DEF OthersAdd
  <2>3. CASE OthersRemove
    BY <1>1, <2>3, PhaseStep DEF OthersRemove, MoveOn
  <2>4. CASE OthersRename
    BY <1>1, <2>4, RenameStep DEF OthersRename, Visible
  <2> QED BY <2>1, <2>2, <2>3, <2>4
<1>3. Counters'
  BY <1>1, CounterSteps DEF Backend, OthersAdd, OthersRemove, OthersRename
<1> QED BY <1>1, <1>2, <1>3, ElsewhereIsSound

LEMMA StepSound == Sound /\ [Next]_vars => Sound'
<1> SUFFICES ASSUME Sound, [Next]_vars PROVE Sound'
  OBVIOUS
<1>1. CASE \E kind \in {"apply", "refresh"} :
             Refresh(kind) \/ ApplyStale \/ EditConfig
  BY <1>1, OperatorIsSound
<1>2. CASE ReadSucceeds
  BY <1>2, ReadIsSound
<1>3. CASE AddAccepted \/ AddReplyLost
  BY <1>3, AddIsSound
<1>4. CASE Resolve
  BY <1>4, ResolveIsSound
<1>5. CASE AppearSeen \/ VanishSeen
  BY <1>5, SeenIsSound
<1>6. CASE RemoveAccepted \/ RemoveReplyLost
  BY <1>6, RemoveIsSound
<1>7. CASE AddRefused \/ AppearTimesOut \/ RemoveRefused \/ Interrupted
  BY <1>7, RefusalIsSound
<1>8. CASE Backend \/ OthersAdd \/ OthersRemove \/ OthersRename
  BY <1>8, OutsideIsSound
<1>9. CASE UNCHANGED vars
  <2>1. TypeOK'
    BY <1>9 DEF Sound, TypeOK, vars
  <2>2. Pointed' /\ Faithful'
    BY <1>9 DEF Sound, Pointed, Faithful, ToAdd, ToRemove, Cps,
                cpRegionIdForRegionName, vars
  <2> QED BY <2>1, <2>2 DEF Sound
<1> QED BY <1>1, <1>2, <1>3, <1>4, <1>5, <1>6, <1>7, <1>8, <1>9 DEF Next, Handler

(* Every variable of NetworkRegions keeps its type, whoever acts and fails *)
(* when: the update never adds, waits for or removes a block that is not   *)
(* in its lists.                                                           *)
THEOREM TypeCorrect == Spec => []TypeOK
<1>1. Spec => []Sound
  BY InitSound, StepSound, PTL DEF Spec
<1>2. Sound => TypeOK
  BY DEF Sound
<1> QED BY <1>1, <1>2, PTL

(* A read of resourceNetworkRead lists the regions of the tenant, each     *)
(* once, whatever list it starts from and whatever happened out of band.   *)
THEOREM FootprintCorrect == Spec => FootprintIsReported
<1>1. Sound /\ [Next]_vars =>
        [ReadSucceeds =>
           /\ {state'[i].rid : i \in DOMAIN state'} = Visible
           /\ Len(state') = Cardinality(Visible)]_vars
  BY ReadIsSound
<1>2. Spec => []Sound
  BY InitSound, StepSound, PTL DEF Spec
<1> QED BY <1>1, <1>2, PTL DEF Spec, FootprintIsReported

-----------------------------------------------------------------------------
(* What an update may rely on when nobody else removes regions             *)

(* A step that starts no removal and disturbs none: the tenant's regions   *)
(* keep their phase, or get out of "adding" or of "removing".              *)
Undisturbed ==
  /\ \A r \in DOMAIN tenant :
       \/ tenant'[r].phase = tenant[r].phase
       \/ tenant[r].phase \in {"adding", "removing"} /\ tenant'[r].phase # "removing"
  /\ \A r \in DOMAIN tenant' \ DOMAIN tenant : tenant'[r].phase = "adding"

LEMMA StandingStays ==
  ASSUME Tenancy, Undisturbed, UNCHANGED <<state, config>>, NEW i, Standing(config[i].cp)
  PROVE  Standing(config[i].cp)'
<1>1. PICK r \in DOMAIN tenant \ Tracked :
        tenant[r].cp = config[i].cp /\ tenant[r].phase = "live"
  BY DEF Standing
<1>2. r \in DOMAIN tenant' \ Tracked'
  BY <1>1 DEF Tenancy, Tracked
<1>3. tenant'[r].cp = config'[i].cp /\ tenant'[r].phase = "live"
  BY <1>1 DEF Tenancy, Undisturbed
<1> QED BY <1>2, <1>3 DEF Standing

LEMMA TrackedStays ==
  ASSUME RemovalsAreTracked, Tenancy, Undisturbed, UNCHANGED <<state, config>>
  PROVE  RemovalsAreTracked'
<1> SUFFICES ASSUME NEW r \in DOMAIN tenant', tenant'[r].phase = "removing"
             PROVE  r \in Tracked'
  BY DEF RemovalsAreTracked
<1>1. r \in DOMAIN tenant /\ tenant[r].phase = "removing"
  BY DEF Undisturbed
<1> QED BY <1>1 DEF RemovalsAreTracked, Tracked

(* Steps after which the update is where it was, or has no work left.      *)
LEMMA ReplacedStays ==
  ASSUME Replaced, Tenancy, Undisturbed, UNCHANGED <<state, config>>,
         \/ op'.pc \in {"idle", "read"}
         \/ /\ op'.at = op.at
            /\ \/ {op.pc, op'.pc} \subseteq {"add", "resolve", "appear"}
               \/ {op.pc, op'.pc} \subseteq {"remove", "vanish"}
  PROVE  Replaced'
<1>1. ToAdd(state)' = ToAdd(state)
  BY DEF ToAdd, Cps
<1>2. CASE op'.pc \in {"idle", "read"}
  BY <1>2 DEF Replaced
<1>3. CASE /\ op'.at = op.at
           /\ {op.pc, op'.pc} \subseteq {"add", "resolve", "appear"}
  <2>1. \A i \in ToAdd(state) : i < op'.at => Standing(config[i].cp)'
    BY <1>3, StandingStays DEF Replaced
  <2> QED BY <1>1, <1>3, <2>1 DEF Replaced
<1>4. CASE {op.pc, op'.pc} \subseteq {"remove", "vanish"}
  <2>1. \A i \in ToAdd(state) : Standing(config[i].cp)'
    BY <1>4, StandingStays DEF Replaced
  <2> QED BY <1>1, <1>4, <2>1 DEF Replaced
<1> QED BY <1>2, <1>3, <1>4

(* The region whose appearance ends the wait is not one the state names:   *)
(* the update would not have added it.                                     *)
LEMMA AppearedStands ==
  ASSUME IInv, op.pc = "appear", Appeared(config[op.at].cp)
  PROVE  Standing(config[op.at].cp)
<1>1. /\ TypeOK /\ op.at \in ToAdd(state) /\ config[op.at].cp \in Cp
  BY ListFacts DEF IInv, Sound, Pointed, ToAdd
<1>2. PICK r \in Visible : tenant[r].cp = config[op.at].cp /\ tenant[r].name = "display"
  BY DEF Appeared
<1>3. r \in DOMAIN tenant /\ tenant[r].phase \in {"live", "removing"}
  BY DEF Visible
<1>4. r \notin Tracked
  <2> SUFFICES ASSUME NEW i \in DOMAIN state, state[i].rid = r PROVE FALSE
    BY DEF Tracked
  <2>1. cpRegionIdForRegionName(r) = config[op.at].cp
    BY <1>2 DEF cpRegionIdForRegionName
  <2>2. state[i].cp = config[op.at].cp
    BY <1>1, <2>1, CpAssumption DEF IInv, Sound, Faithful
  <2> QED BY <1>1, <2>2 DEF ToAdd, Cps
<1>5. tenant[r].phase = "live"
  BY <1>3, <1>4 DEF IInv, RemovalsAreTracked
<1> QED BY <1>2, <1>3, <1>4, <1>5 DEF Standing

(* An update begins: with the first addition, or nothing to add.           *)
LEMMA StartIsReplaced ==
  ASSUME TypeOK, UNCHANGED config, state' \in Seq(Entry), op' = StartUpdate(state')
  PROVE  Replaced'
<1>1. ToAdd(state') \in SUBSET Nat /\ ToRemove(state') \in SUBSET Nat
  BY WorkFacts
<1>2. op' = Continue(state', ToAdd(state'), ToRemove(state'))
  BY DEF StartUpdate
<1>3. /\ op'.pc \in {"add", "remove", "read"}
      /\ op'.pc = "add" =>
           op'.at \in ToAdd(state') /\ \A i \in ToAdd(state') : op'.at <= i
      /\ op'.pc = "remove" => ToAdd(state') = {}
  <2> DEFINE adds == ToAdd(state')
             removes == ToRemove(state')
  <2> HIDE DEF adds, removes
  <2>1. /\ adds \in SUBSET Nat /\ removes \in SUBSET Nat
        /\ op' = Continue(state', adds, removes)
    BY <1>1, <1>2 DEF adds, removes
  <2>2. /\ op'.pc \in {"add", "remove", "read"}
        /\ op'.pc = "add" => op'.at \in adds /\ \A i \in adds : op'.at <= i
        /\ op'.pc = "remove" => adds = {}
    BY <2>1, ContinueFacts
  <2> QED BY <2>2 DEF adds
<1>4. ToAdd(state)' = ToAdd(state')
  BY DEF ToAdd, Cps
<1>5. op'.pc = "add" => \A i \in ToAdd(state') : ~(i < op'.at)
  BY <1>1, <1>3
<1> QED BY <1>3, <1>4, <1>5 DEF Replaced

LEMMA AppearSeenIsReplaced ==
  ASSUME IInv, AppearSeen
  PROVE  Replaced'
<1> DEFINE left == {i \in ToAdd(state) : i > op.at}
<1>1. /\ TypeOK /\ op.pc = "appear" /\ UNCHANGED <<tenant, state, config>>
      /\ op' = Continue(state, left, ToRemove(state))
      /\ state \in Seq(Entry)
      /\ op.at \in ToAdd(state)
  BY DEF IInv, Sound, Pointed, TypeOK, AppearSeen
<1>2. ToAdd(state) \in SUBSET Nat /\ ToRemove(state) \in SUBSET Nat
  BY <1>1, WorkFacts
<1>3. \A i \in ToAdd(state) : i <= op.at => Standing(config[i].cp)
  <2> SUFFICES ASSUME NEW i \in ToAdd(state), i <= op.at PROVE Standing(config[i].cp)
    OBVIOUS
  <2>1. CASE i < op.at
    BY <1>1, <2>1 DEF IInv, Replaced
  <2>2. CASE i = op.at
    BY <1>1, <2>2, AppearedStands DEF AppearSeen
  <2>3. i \in Nat /\ op.at \in Nat
    BY <1>1, <1>2
  <2> QED BY <2>1, <2>2, <2>3
<1>4. /\ op'.pc \in {"add", "remove", "read"}
      /\ op'.pc = "add" => op'.at \in left /\ \A i \in left : op'.at <= i
      /\ op'.pc = "remove" => left = {}
  <2>1. left \in SUBSET Nat
    BY <1>2
  <2> HIDE DEF left
  <2> QED BY <1>1, <1>2, <2>1, ContinueFacts
<1>5. ASSUME NEW i \in ToAdd(state),
             op'.pc = "remove" \/ (op'.pc = "add" /\ i < op'.at)
      PROVE  Standing(config[i].cp)
  <2>1. i \in Nat /\ op.at \in Nat
    BY <1>1, <1>2
  <2>2. i \notin left
    <3>1. CASE op'.pc = "remove"
      BY <1>4, <3>1
    <3>2. CASE op'.pc = "add" /\ i < op'.at
      <4>1. op'.at \in Nat
        BY <1>2, <1>4, <3>2
      <4>2. i \in left => op'.at <= i
        BY <1>4, <3>2
      <4> QED BY <2>1, <3>2, <4>1, <4>2
    <3> QED BY <1>5, <3>1, <3>2
  <2>3. i <= op.at
    BY <2>1, <2>2
  <2> QED BY <1>3, <2>3
<1>6. /\ ToAdd(state)' = ToAdd(state)
      /\ \A i : Standing(config[i].cp)' = Standing(config[i].cp)
  BY <1>1 DEF ToAdd, Cps, Standing, Tracked
<1>7. \A i \in ToAdd(state)' :
        op'.pc = "remove" \/ (op'.pc = "add" /\ i < op'.at)
          => Standing(config[i].cp)'
  BY <1>5, <1>6
<1> HIDE DEF left
<1>8. op'.pc \in {"add", "remove", "read"}
  BY <1>4
<1> QED BY <1>7, <1>8 DEF Replaced

LEMMA VanishSeenIsReplaced ==
  ASSUME IInv, VanishSeen
  PROVE  Replaced'
<1> DEFINE left == {i \in ToRemove(state) : i > op.at}
<1>1. /\ TypeOK /\ op.pc = "vanish" /\ UNCHANGED <<tenant, state, config>>
      /\ op' = Continue(state, {}, left)
      /\ state \in Seq(Entry)
  BY DEF IInv, Sound, TypeOK, VanishSeen
<1>2. left \in SUBSET Nat
  BY <1>1, WorkFacts
<1>3. op'.pc \in {"add", "remove", "read"} /\ (op'.pc = "add" => op'.at \in {})
  <2> HIDE DEF left
  <2> QED BY <1>1, <1>2, ContinueFacts
<1>4. \A i \in ToAdd(state) : Standing(config[i].cp)
  BY <1>1 DEF IInv, Replaced
<1>5. /\ ToAdd(state)' = ToAdd(state)
      /\ \A i : Standing(config[i].cp)' = Standing(config[i].cp)
  BY <1>1 DEF ToAdd, Cps, Standing, Tracked
<1> QED BY <1>3, <1>4, <1>5 DEF Replaced

(* The region on its way out is one that the state names.                  *)
LEMMA RemoveIsReplaced ==
  ASSUME IInv, RemoveAccepted \/ RemoveReplyLost
  PROVE  RemovalsAreTracked' /\ Replaced'
<1>1. /\ TypeOK /\ Doomed \in Visible /\ op.at \in ToRemove(state)
      /\ tenant' = [tenant EXCEPT ![Doomed].phase = "removing"]
      /\ UNCHANGED <<state, config>>
      /\ op.pc = "remove"
  BY RemoveIsSound DEF IInv, Sound, RemoveAccepted, RemoveReplyLost
<1>2. Doomed \in Tracked
  BY <1>1 DEF ToRemove, Tracked, Doomed
<1>3. /\ Tenancy
      /\ DOMAIN tenant' = DOMAIN tenant
      /\ \A r \in DOMAIN tenant : r # Doomed => tenant'[r] = tenant[r]
  BY <1>1, PhaseStep DEF Visible
<1>4. Tracked' = Tracked
  BY <1>1 DEF Tracked
<1>5. RemovalsAreTracked'
  BY <1>2, <1>3, <1>4 DEF IInv, RemovalsAreTracked
<1>6. ASSUME NEW i \in ToAdd(state) PROVE Standing(config[i].cp)'
  <2>1. PICK r \in DOMAIN tenant \ Tracked :
          tenant[r].cp = config[i].cp /\ tenant[r].phase = "live"
    BY <1>1 DEF IInv, Replaced, Standing
  <2>2. tenant'[r] = tenant[r]
    BY <1>2, <1>3, <2>1
  <2> QED BY <1>1, <1>3, <1>4, <2>1, <2>2 DEF Standing
<1>7. ToAdd(state)' = ToAdd(state)
  BY <1>1 DEF ToAdd, Cps
<1>8. op'.pc \in {"vanish", "idle"}
  BY DEF RemoveAccepted, RemoveReplyLost, Fails, Idle, IInv, Sound, TypeOK, Operation
<1>9. Replaced'
  BY <1>6, <1>7, <1>8 DEF Replaced
<1> QED BY <1>5, <1>9

LEMMA ReadIsReplaced ==
  ASSUME IInv, ReadSucceeds
  PROVE  RemovalsAreTracked' /\ Replaced'
<1>1. /\ TypeOK /\ Sound' /\ UNCHANGED <<tenant, config>>
      /\ {state'[i].rid : i \in DOMAIN state'} = Visible
      /\ state' \in Seq(Entry)
  <2>1. Sound' /\ {state'[i].rid : i \in DOMAIN state'} = Visible
    BY ReadIsSound DEF IInv
  <2> QED BY <2>1 DEF IInv, Sound, TypeOK, ReadSucceeds
<1>2. RemovalsAreTracked'
  BY <1>1 DEF RemovalsAreTracked, Tracked, Visible
<1>3. CASE op' = Idle
  <2>1. op'.pc = "idle"
    BY <1>3 DEF Idle
  <2> QED BY <1>2, <2>1 DEF Replaced
<1>4. CASE op' = StartUpdate(state')
  <2>1. TypeOK /\ UNCHANGED config /\ state' \in Seq(Entry)
    BY <1>1
  <2> QED BY <1>2, <1>4, <2>1, StartIsReplaced
<1> QED BY <1>2, <1>3, <1>4 DEF ReadSucceeds

LEMMA OperatorIsReplaced ==
  ASSUME IInv, NEW kind \in {"apply", "refresh"},
         Refresh(kind) \/ ApplyStale \/ EditConfig
  PROVE  RemovalsAreTracked' /\ Replaced'
<1>1. TypeOK /\ op = Idle /\ UNCHANGED <<tenant, state>>
  BY DEF IInv, Sound, Refresh, ApplyStale, EditConfig
<1>2. RemovalsAreTracked'
  BY <1>1 DEF IInv, RemovalsAreTracked, Tracked
<1>3. CASE Refresh(kind)
  <2>1. op'.pc = "read"
    BY <1>3 DEF Refresh
  <2> QED BY <1>2, <2>1 DEF Replaced
<1>4. CASE ApplyStale
  <2>1. UNCHANGED config /\ op' = StartUpdate(state') /\ state' \in Seq(Entry)
    BY <1>1, <1>4 DEF ApplyStale, TypeOK, StartUpdate
  <2> QED BY <1>1, <1>2, <2>1, StartIsReplaced
<1>5. CASE EditConfig
  <2>1. op'.pc = "idle"
    BY <1>1, <1>5 DEF EditConfig, Idle
  <2> QED BY <1>2, <2>1 DEF Replaced
<1> QED BY <1>2, <1>3, <1>4, <1>5

LEMMA OutsideIsReplaced ==
  ASSUME IInv, Backend \/ OthersAdd \/ OthersRename
  PROVE  RemovalsAreTracked' /\ Replaced'
<1>1. TypeOK /\ UNCHANGED <<state, config, op>>
  BY DEF IInv, Sound, Backend, OthersAdd, OthersRename, MoveOn
<1>2. Tenancy /\ Undisturbed
  <2>1. CASE Backend
    <3>1. PICK r \in DOMAIN tenant :
            MoveOn(r, "adding", "live") \/ MoveOn(r, "removing", "gone")
      BY <2>1 DEF Backend
    <3>2. PICK to \in {"live", "gone"} :
            /\ tenant[r].phase \in {"adding", "removing"}
            /\ tenant' = [tenant EXCEPT ![r].phase = to]
      BY <3>1 DEF MoveOn
    <3>3. /\ Tenancy /\ DOMAIN tenant' = DOMAIN tenant
          /\ \A x \in DOMAIN tenant : x # r => tenant'[x] = tenant[x]
          /\ tenant'[r].phase = to
      BY <1>1, <3>2, PhaseStep
    <3> QED BY <3>2, <3>3 DEF Undisturbed
  <2>2. CASE OthersAdd
    BY <1>1, <2>2, NewRegionStep DEF OthersAdd, Undisturbed
  <2>3. CASE OthersRename
    <3>1. PICK r \in DOMAIN tenant : tenant' = [tenant EXCEPT ![r].name = "unknown"]
      BY <2>3 DEF OthersRename, Visible
    <3>2. /\ Tenancy /\ DOMAIN tenant' = DOMAIN tenant
          /\ \A x \in DOMAIN tenant : tenant'[x].phase = tenant[x].phase
      BY <1>1, <3>1, RenameStep
    <3> QED BY <3>2 DEF Undisturbed
  <2> QED BY <2>1, <2>2, <2>3
<1>3. RemovalsAreTracked'
  BY <1>1, <1>2, TrackedStays DEF IInv
<1>4. Replaced'
  <2>1. \/ op'.pc \in {"idle", "read"}
        \/ {op.pc, op'.pc} \subseteq {"add", "resolve", "appear"}
        \/ {op.pc, op'.pc} \subseteq {"remove", "vanish"}
    BY <1>1 DEF TypeOK, Operation
  <2> QED BY <1>1, <1>2, <2>1, ReplacedStays DEF IInv
<1> QED BY <1>3, <1>4

LEMMA CallIsReplaced ==
  ASSUME IInv,
         \/ AddAccepted \/ AddReplyLost \/ AddRefused \/ Resolve
         \/ AppearTimesOut \/ RemoveRefused \/ Interrupted
  PROVE  RemovalsAreTracked' /\ Replaced'
<1>1. TypeOK /\ Sound /\ Replaced /\ RemovalsAreTracked
  BY DEF IInv, Sound
<1>2. UNCHANGED <<state, config>>
  BY DEF AddAccepted, AddReplyLost, AddRefused, Resolve, AppearTimesOut,
         RemoveRefused, Interrupted, Fails
<1>3. Tenancy /\ Undisturbed
  <2>1. CASE AddAccepted \/ AddReplyLost
    <3>1. NewRegion(config[op.at].cp) /\ ~Full /\ config[op.at].cp \in Cp
      BY <1>1, <2>1, AddIsSound
    <3> QED BY <1>1, <3>1, NewRegionStep DEF Undisturbed
  <2>2. CASE UNCHANGED tenant
    BY <1>1, <2>2, SameTenant DEF Undisturbed
  <2> QED BY <2>1, <2>2 DEF AddRefused, Resolve, AppearTimesOut, RemoveRefused,
                            Interrupted
<1>4. \/ op'.pc \in {"idle", "read"}
      \/ /\ op'.at = op.at
         /\ {op.pc, op'.pc} \subseteq {"add", "resolve", "appear"}
  <2>1. CASE Fails
    BY <2>1 DEF Fails, Idle
  <2>2. CASE AddAccepted \/ Resolve
    BY <1>1, <2>2 DEF AddAccepted, Resolve, TypeOK, Operation
  <2> QED BY <2>1, <2>2 DEF AddReplyLost, AddRefused, AppearTimesOut,
                            RemoveRefused, Interrupted
<1> QED BY <1>1, <1>2, <1>3, <1>4, TrackedStays, ReplacedStays

LEMMA InitInv == Init => IInv
<1> SUFFICES ASSUME Init PROVE IInv
  OBVIOUS
<1>1. Sound /\ op.pc = "idle"
  BY InitSound DEF Init, Idle
<1>2. \A r \in DOMAIN tenant : tenant[r].phase # "removing"
  <2>1. \A r \in DOMAIN tenant : tenant[r].phase \in {"live"}
    BY DEF Init
  <2> QED BY <2>1
<1> QED BY <1>1, <1>2 DEF IInv, RemovalsAreTracked, Replaced

LEMMA StepInv ==
  ASSUME "remove" \notin Others
  PROVE  IInv /\ [Next]_vars => IInv'
<1> SUFFICES ASSUME IInv, [Next]_vars PROVE RemovalsAreTracked' /\ Replaced'
  BY StepSound DEF IInv
<1>1. CASE \E kind \in {"apply", "refresh"} :
             Refresh(kind) \/ ApplyStale \/ EditConfig
  BY <1>1, OperatorIsReplaced
<1>2. CASE ReadSucceeds
  BY <1>2, ReadIsReplaced
<1>3. CASE \/ AddAccepted \/ AddReplyLost \/ AddRefused \/ Resolve
           \/ AppearTimesOut \/ RemoveRefused \/ Interrupted
  BY <1>3, CallIsReplaced
<1>4. CASE AppearSeen
  <2>1. RemovalsAreTracked'
    BY <1>4 DEF AppearSeen, IInv, RemovalsAreTracked, Tracked
  <2> QED BY <1>4, <2>1, AppearSeenIsReplaced
<1>5. CASE VanishSeen
  <2>1. RemovalsAreTracked'
    BY <1>5 DEF VanishSeen, IInv, RemovalsAreTracked, Tracked
  <2> QED BY <1>5, <2>1, VanishSeenIsReplaced
<1>6. CASE RemoveAccepted \/ RemoveReplyLost
  BY <1>6, RemoveIsReplaced
<1>7. CASE Backend \/ OthersAdd \/ OthersRename
  BY <1>7, OutsideIsReplaced
<1>8. CASE OthersRemove
  BY <1>8 DEF OthersRemove
<1>9. CASE UNCHANGED vars
  BY <1>9 DEF vars, IInv, RemovalsAreTracked, Replaced, Tracked, Standing, ToAdd, Cps
<1> QED BY <1>1, <1>2, <1>3, <1>4, <1>5, <1>6, <1>7, <1>8, <1>9 DEF Next, Handler

(* When nobody else removes regions, resourceRegionDelete is called only   *)
(* after every region that resourceRegionCreate had to add is on the       *)
(* network: a region is never given up before its replacement is there,    *)
(* whatever fails, is renamed or is added by others.                       *)
THEOREM ReplacementsCorrect ==
  ASSUME "remove" \notin Others
  PROVE  Spec => ReplacementsComeFirst
<1>1. ASSUME IInv, RemoveAccepted \/ RemoveReplyLost, NEW i \in ToAdd(state)
      PROVE  config[i].cp \in VisibleCps
  <2>1. Standing(config[i].cp)
    BY <1>1 DEF IInv, Replaced, RemoveAccepted, RemoveReplyLost
  <2> QED BY <2>1 DEF Standing, VisibleCps, Visible
<1>2. IInv /\ [Next]_vars =>
        [RemoveAccepted \/ RemoveReplyLost =>
           \A i \in ToAdd(state) : config[i].cp \in VisibleCps]_vars
  BY <1>1
<1>3. Spec => []IInv
  BY InitInv, StepInv, PTL DEF Spec
<1> QED BY <1>2, <1>3, PTL DEF Spec, ReplacementsComeFirst

-----------------------------------------------------------------------------
(* What is removed                                                         *)

(* The catalogue knows the name of every region.                           *)
AllKnown == \A r \in DOMAIN tenant : tenant[r].name # "unknown"

LEMMA KnownStays ==
  ASSUME "unknown" \notin Births, "rename" \notin Others
  PROVE  (Init => AllKnown) /\ (Sound /\ AllKnown /\ [Next]_vars => AllKnown')
<1>1. Init => AllKnown
  <2> SUFFICES ASSUME Init, NEW r \in DOMAIN tenant PROVE tenant[r].name # "unknown"
    BY DEF AllKnown
  <2>1. tenant[r].name \in Births
    BY DEF Init
  <2> QED BY <2>1
<1>2. ASSUME Sound, AllKnown, [Next]_vars PROVE AllKnown'
  <2>1. TypeOK
    BY <1>2 DEF Sound
  <2>2. ASSUME NEW cp, NewRegion(cp) PROVE AllKnown'
    <3>1. PICK name \in Births :
            tenant' = Append(tenant, [cp |-> cp, name |-> name, phase |-> "adding"])
      BY <2>2 DEF NewRegion
    <3> DEFINE new == [cp |-> cp, name |-> name, phase |-> "adding"]
    <3>2. new.name # "unknown"
      OBVIOUS
    <3> HIDE DEF new
    <3>3. /\ DOMAIN tenant' = 1..(Len(tenant) + 1)
          /\ DOMAIN tenant = 1..Len(tenant) /\ Len(tenant) \in Nat
          /\ \A r \in 1..Len(tenant) : tenant'[r] = tenant[r]
          /\ tenant'[Len(tenant) + 1] = new
      <4>1. tenant \in Seq(Region)
        BY <2>1 DEF TypeOK
      <4> QED BY <3>1, <4>1, LenProperties DEF new
    <3>4. \A r \in DOMAIN tenant' : r \in DOMAIN tenant \/ r = Len(tenant) + 1
      BY <3>3
    <3> QED BY <1>2, <3>2, <3>3, <3>4 DEF AllKnown
  <2>3. ASSUME NEW x \in DOMAIN tenant, NEW to \in {"live", "removing", "gone"},
               tenant' = [tenant EXCEPT ![x].phase = to]
        PROVE  AllKnown'
    <3>1. DOMAIN tenant' = DOMAIN tenant
      BY <2>3
    <3>2. \A r \in DOMAIN tenant : tenant'[r].name = tenant[r].name
      BY <2>1, <2>3, TenantFacts DEF Region
    <3> QED BY <1>2, <3>1, <3>2 DEF AllKnown
  <2>4. CASE UNCHANGED tenant
    BY <1>2, <2>4 DEF AllKnown
  <2>5. CASE AddAccepted \/ AddReplyLost \/ OthersAdd
    BY <2>2, <2>5 DEF AddAccepted, AddReplyLost, OthersAdd
  <2>6. CASE RemoveAccepted \/ RemoveReplyLost
    BY <2>3, <2>6 DEF RemoveAccepted, RemoveReplyLost, Visible
  <2>7. CASE Backend \/ OthersRemove
    BY <2>3, <2>7 DEF Backend, OthersRemove, MoveOn
  <2>8. CASE OthersRename
    BY <2>8 DEF OthersRename
  <2> QED
    BY <1>2, <2>4, <2>5, <2>6, <2>7, <2>8
       DEF Next, Handler, vars, Refresh, ApplyStale, EditConfig, ReadSucceeds,
           AddRefused, Resolve, AppearSeen, AppearTimesOut, RemoveRefused,
           VanishSeen, Interrupted
<1> QED BY <1>1, <1>2

(* As long as the catalogue knows every region by its name, the region     *)
(* that resourceRegionDelete removes is in a cloud region that the         *)
(* configuration does not declare, whoever adds and removes what else.     *)
THEOREM UnwantedCorrect ==
  ASSUME "unknown" \notin Births, "rename" \notin Others
  PROVE  Spec => OnlyUnwantedAreRemoved
<1>1. ASSUME Sound, AllKnown, RemoveAccepted \/ RemoveReplyLost
      PROVE  tenant[Doomed].cp \notin Cps(config)
  <2>1. op.at \in ToRemove(state) /\ Doomed \in Visible
    BY <1>1, RemoveIsSound
  <2>2. op.at \in DOMAIN state /\ state[op.at].cp \notin Cps(config)
    BY <2>1 DEF ToRemove
  <2>3. cpRegionIdForRegionName(Doomed) \in {NoCp, state[op.at].cp}
    BY <1>1, <2>2 DEF Sound, Faithful, Doomed
  <2>4. Doomed \in DOMAIN tenant /\ tenant[Doomed].cp \in Cp
    BY <1>1, <2>1, TenantFacts DEF Sound, Visible, Region
  <2>5. cpRegionIdForRegionName(Doomed) = tenant[Doomed].cp
    BY <1>1, <2>4 DEF AllKnown, cpRegionIdForRegionName
  <2>6. tenant[Doomed].cp = state[op.at].cp
    BY <2>3, <2>4, <2>5, CpAssumption
  <2> QED BY <2>2, <2>6
<1>2. Sound /\ AllKnown /\ [Next]_vars =>
        [RemoveAccepted \/ RemoveReplyLost => tenant[Doomed].cp \notin Cps(config)]_vars
  BY <1>1
<1>3. Spec => [](Sound /\ AllKnown)
  <2>1. Init => Sound /\ AllKnown
    BY InitSound, KnownStays
  <2>2. Sound /\ AllKnown /\ [Next]_vars => (Sound /\ AllKnown)'
    BY StepSound, KnownStays
  <2> QED BY <2>1, <2>2, PTL DEF Spec
<1> QED BY <1>2, <1>3, PTL DEF Spec, OnlyUnwantedAreRemoved

-----------------------------------------------------------------------------
(* A read has one result                                                   *)

(* The n-th of the listing of a set has n of the set not above it.         *)
LEMMA ListedInOrder ==
  ASSUME NEW S \in SUBSET Nat, IsFiniteSet(S), NEW s \in Ascending(S),
         NEW n \in 1..Cardinality(S)
  PROVE  s[n] \in S /\ Cardinality(Below(S, s[n])) = n
<1> DEFINE c == Cardinality(S)
<1>1. c \in Nat
  BY FS_CardinalityType
<1>2. s \in [1..c -> S] /\ \A i, j \in 1..c : i < j => s[i] < s[j]
  BY DEF Ascending
<1>3. /\ \A i, j \in 1..c : s[i] = s[j] => i = j
      /\ \A x \in S : \E i \in 1..c : s[i] = x
  BY <1>2, AscendingLists
<1> HIDE DEF c
<1>4. n \in 1..c
  BY DEF c
<1>5. ASSUME NEW i \in 1..c PROVE i \in Nat /\ s[i] \in Nat
  <2>1. s[i] \in S
    BY <1>2
  <2>2. i \in Nat
    BY <1>1
  <2> QED BY <2>1, <2>2
<1>6. \A i \in 1..c : i <= n <=> s[i] <= s[n]
  <2> TAKE i \in 1..c
  <2>1. i \in Nat /\ n \in Nat /\ s[i] \in Nat /\ s[n] \in Nat
    BY <1>4, <1>5
  <2>2. (i < n => s[i] < s[n]) /\ (n < i => s[n] < s[i])
    BY <1>2, <1>4
  <2> QED BY <2>1, <2>2
<1>7. s[n] \in S
  BY <1>2, <1>4
<1> DEFINE B == Below(S, s[n])
           f == [i \in 1..n |-> s[i]]
<1>8. \A i \in 1..n : i \in 1..c /\ i <= n
  BY <1>1, <1>4
<1>9. f \in [1..n -> B]
  BY <1>2, <1>6, <1>8 DEF Below
<1>10. \A i, j \in 1..n : f[i] = f[j] => i = j
  BY <1>3, <1>8
<1>11. \A r \in B : \E i \in 1..n : f[i] = r
  <2> SUFFICES ASSUME NEW r \in B PROVE \E i \in 1..n : f[i] = r
    OBVIOUS
  <2>1. r \in S /\ r <= s[n]
    BY DEF Below
  <2>2. PICK i \in 1..c : s[i] = r
    BY <1>3, <2>1
  <2>3. i <= n
    BY <1>6, <2>1, <2>2
  <2>4. i \in 1..n
    BY <1>1, <1>4, <2>3
  <2> QED BY <2>2, <2>4
<1>12. n \in Nat /\ IsFiniteSet(1..n) /\ Cardinality(1..n) = n
  BY <1>4, FS_Interval
<1> HIDE DEF f, B
<1>13. Cardinality(B) = n
  BY <1>9, <1>10, <1>11, <1>12, AsMany
<1> QED BY <1>7, <1>13 DEF B

(* A finite set of numbers has one listing.                                *)
LEMMA OneListing ==
  ASSUME NEW S \in SUBSET Nat, IsFiniteSet(S)
  PROVE  \E s : Ascending(S) = {s}
<1> DEFINE c == Cardinality(S)
           s == [n \in 1..c |->
                   CHOOSE x \in S : Cardinality(Below(S, x)) = n]
<1>1. c \in Nat
  BY FS_CardinalityType
<1> HIDE DEF c
<1>2. ASSUME NEW n \in 1..c
      PROVE  s[n] \in S /\ Cardinality(Below(S, s[n])) = n
  <2>1. n \in Nat \ {0} /\ n <= Cardinality(S)
    BY <1>1, <1>2 DEF c
  <2>2. \E x \in S : Cardinality(Below(S, x)) = n
    BY <2>1, NthExists
  <2> QED BY <2>2
<1>3. s \in [1..c -> S]
  BY <1>2
<1>4. DOMAIN s = 1..c
  BY <1>3
<1> HIDE DEF s
<1>5. ASSUME NEW i \in 1..c, NEW j \in 1..c, i < j PROVE s[i] < s[j]
  <2>1. /\ s[i] \in S /\ s[j] \in S
        /\ Cardinality(Below(S, s[i])) = i /\ Cardinality(Below(S, s[j])) = j
    BY <1>2
  <2>2. i \in Nat /\ j \in Nat /\ s[i] \in Nat /\ s[j] \in Nat
    <3>1. i \in Nat /\ j \in Nat
      BY <1>1
    <3> QED BY <2>1, <3>1
  <2>3. s[i] # s[j]
    BY <1>5, <2>1, <2>2
  <2>4. ~(s[j] < s[i])
    <3>1. SUFFICES ASSUME s[j] < s[i] PROVE FALSE
      OBVIOUS
    <3>2. Cardinality(Below(S, s[j])) < Cardinality(Below(S, s[i]))
      BY <2>1, <3>1, BelowGrows
    <3> QED BY <1>5, <2>1, <2>2, <3>2
  <2> QED BY <2>2, <2>3, <2>4
<1>6. s \in Ascending(S)
  BY <1>3, <1>4, <1>5 DEF Ascending, c
<1>7. ASSUME NEW t \in Ascending(S) PROVE t = s
  <2>1. t \in [1..c -> S]
    BY DEF Ascending, c
  <2>2. ASSUME NEW n \in 1..c PROVE t[n] = s[n]
    <3>1. t[n] \in S /\ Cardinality(Below(S, t[n])) = n
      BY ListedInOrder DEF c
    <3>2. s[n] \in S /\ Cardinality(Below(S, s[n])) = n
      BY <1>2
    <3>3. Cardinality(Below(S, t[n])) = Cardinality(Below(S, s[n]))
      BY <3>1, <3>2
    <3>4. t[n] \in S /\ s[n] \in S
      BY <3>1, <3>2
    <3>5. \A x, z \in S :
            Cardinality(Below(S, x)) = Cardinality(Below(S, z)) => x = z
      BY BelowTells
    <3> QED BY <3>3, <3>4, <3>5
  <2>3. t = [n \in 1..c |-> t[n]] /\ s = [n \in 1..c |-> s[n]]
    BY <1>3, <2>1
  <2> QED BY <2>2, <2>3, Zenon
<1>8. Ascending(S) = {s}
  BY <1>6, <1>7
<1> QED BY <1>8

(* The first n blocks of the list prior have claimed as c says.            *)
Claimed(prior, n, c) ==
  /\ c \in [1..n -> Visible \cup {NoRid}]
  /\ \A i \in 1..n : c[i] = matchAPIRegion({c[j] : j \in 1..(i - 1)}, prior[i])

(* Block by block, every block of a list can claim, ...                    *)
LEMMA AllCanClaim ==
  ASSUME TypeOK, NEW prior, NEW n \in Nat
  PROVE  \E c : Claimed(prior, n, c)
<1> DEFINE G == {m \in Nat : \E c : Claimed(prior, m, c)}
<1>1. 0 \in G
  <2>1. Claimed(prior, 0, [i \in 1..0 |-> NoRid])
    BY DEF Claimed
  <2> QED BY <2>1
<1>2. ASSUME NEW m \in G PROVE m + 1 \in G
  <2>1. m \in Nat
    OBVIOUS
  <2>2. PICK c : Claimed(prior, m, c)
    OBVIOUS
  <2> DEFINE last == matchAPIRegion({c[j] : j \in 1..m}, prior[m + 1])
             d == [i \in 1..(m + 1) |-> IF i <= m THEN c[i] ELSE last]
  <2>3. last \in Visible \cup {NoRid}
    BY MatchIsFree
  <2>4. \A i \in 1..m : i \in 1..(m + 1) /\ i <= m
    BY <2>1
  <2>5. \A i \in 1..(m + 1) : i \in 1..m \/ (i = m + 1 /\ ~(i <= m))
    BY <2>1
  <2>6. \A i \in 1..m : d[i] = c[i] /\ c[i] \in Visible \cup {NoRid}
    BY <2>2, <2>4 DEF Claimed
  <2>7. m + 1 \in 1..(m + 1) /\ (m + 1) - 1 = m /\ ~(m + 1 <= m)
    BY <2>1
  <2>8. d[m + 1] = last
    BY <2>7
  <2>9. DOMAIN d = 1..(m + 1) /\ d = [i \in 1..(m + 1) |-> d[i]]
    OBVIOUS
  <2> HIDE DEF d, last
  <2>10. d \in [1..(m + 1) -> Visible \cup {NoRid}]
    BY <2>3, <2>5, <2>6, <2>8, <2>9
  <2>11. ASSUME NEW i \in 1..(m + 1)
         PROVE  d[i] = matchAPIRegion({d[j] : j \in 1..(i - 1)}, prior[i])
    <3>1. \A j \in 1..(i - 1) : j \in 1..m
      BY <2>1
    <3>2. {d[j] : j \in 1..(i - 1)} = {c[j] : j \in 1..(i - 1)}
      BY <2>6, <3>1
    <3>3. CASE i \in 1..m
      <4>1. c[i] = matchAPIRegion({c[j] : j \in 1..(i - 1)}, prior[i])
        BY <2>2, <3>3 DEF Claimed
      <4> QED BY <2>6, <3>2, <3>3, <4>1
    <3>4. CASE i = m + 1
      <4>1. i - 1 = m
        BY <2>7, <3>4
      <4> QED BY <2>8, <3>2, <3>4, <4>1 DEF last
    <3> QED BY <2>5, <3>3, <3>4
  <2>12. Claimed(prior, m + 1, d)
    BY <2>10, <2>11 DEF Claimed
  <2> QED BY <2>1, <2>12
<1> HIDE DEF G
<1>3. G = Nat
  <2>1. G \in SUBSET Nat
    BY DEF G
  <2> QED BY <1>1, <1>2, <2>1, SetInduction
<1> QED BY <1>3 DEF G

(* ... and can do so in one way.                                           *)
LEMMA OneClaim ==
  ASSUME TypeOK, NEW prior \in Seq(Entry)
  PROVE  \E claim : Claims(prior) = {claim}
<1> DEFINE n == Len(prior)
<1>1. n \in Nat /\ DOMAIN prior = 1..n
  BY LenProperties
<1> HIDE DEF n
<1>2. \A c : c \in Claims(prior) <=> Claimed(prior, n, c)
  BY <1>1 DEF Claims, Claimed
<1>3. PICK c : Claimed(prior, n, c)
  BY <1>1, AllCanClaim
<1>4. ASSUME NEW d, Claimed(prior, n, d) PROVE d = c
  <2> DEFINE T == {i \in 1..n : d[i] # c[i]}
  <2>1. SUFFICES ASSUME T # {} PROVE FALSE
    <3>1. SUFFICES ASSUME T = {} PROVE d = c
      OBVIOUS
    <3>2. \A i \in 1..n : d[i] = c[i]
      BY <3>1
    <3>3. d = [i \in 1..n |-> d[i]] /\ c = [i \in 1..n |-> c[i]]
      BY <1>3, <1>4 DEF Claimed
    <3> QED BY <3>2, <3>3, Zenon
  <2>2. T \in SUBSET Nat
    BY <1>1
  <2>3. PICK i \in T : \A j \in T : i <= j
    BY <2>1, <2>2, Least
  <2>4. i \in 1..n /\ d[i] # c[i]
    OBVIOUS
  <2>5. \A j \in 1..(i - 1) : j \in 1..n /\ ~(i <= j)
    BY <1>1, <2>4
  <2>6. \A j \in 1..(i - 1) : d[j] = c[j]
    BY <2>3, <2>5
  <2>7. {d[j] : j \in 1..(i - 1)} = {c[j] : j \in 1..(i - 1)}
    BY <2>6
  <2>8. /\ c[i] = matchAPIRegion({c[j] : j \in 1..(i - 1)}, prior[i])
        /\ d[i] = matchAPIRegion({d[j] : j \in 1..(i - 1)}, prior[i])
    BY <1>3, <1>4, <2>4 DEF Claimed
  <2> QED BY <2>4, <2>7, <2>8
<1>5. Claims(prior) = {c}
  BY <1>2, <1>3, <1>4
<1> QED BY <1>5

(* The list a read starts from, and the tenant, decide what it ends with.  *)
OneResult ==
  \E claim, list :
    /\ Claims(Prior) = {claim}
    /\ reconcileNetworkRegions(Prior, claim) = {list}

LEMMA ReadHasOneResult ==
  ASSUME Sound
  PROVE  OneResult
<1>1. TypeOK /\ Prior \in Seq(Entry)
  BY PriorIsList DEF Sound
<1>2. PICK claim : Claims(Prior) = {claim}
  BY <1>1, OneClaim
<1>3. claim \in Claims(Prior)
  BY <1>2
<1>4. claim \in [DOMAIN Prior -> Visible \cup {NoRid}]
  BY <1>1, <1>3, ClaimsAreDistinct
<1>5. Len(Prior) \in Nat /\ DOMAIN Prior = 1..Len(Prior)
  BY <1>1, LenProperties
<1>6. Kept(claim) \in SUBSET Nat /\ IsFiniteSet(Kept(claim))
  <2>1. IsFiniteSet(1..Len(Prior)) /\ Kept(claim) \in SUBSET (1..Len(Prior))
    BY <1>4, <1>5, FS_Interval DEF Kept
  <2>2. Kept(claim) \in SUBSET Nat
    BY <1>5, <2>1
  <2> QED BY <2>1, <2>2, FS_Subset
<1>7. Found(claim) \in SUBSET Nat /\ IsFiniteSet(Found(claim))
  <2>1. Found(claim) \in SUBSET Visible
    BY DEF Found
  <2>2. Visible \in SUBSET Nat
    BY <1>1, VisibleFacts, BoundsAssumption
  <2> QED BY <1>1, <2>1, <2>2, VisibleFacts, FS_Subset
<1>8. PICK k : Ascending(Kept(claim)) = {k}
  BY <1>6, OneListing
<1>9. PICK f : Ascending(Found(claim)) = {f}
  BY <1>7, OneListing
<1>10. reconcileNetworkRegions(Prior, claim) = {Listed(Prior, claim, k, f)}
  BY <1>8, <1>9 DEF reconcileNetworkRegions
<1> QED BY <1>2, <1>10 DEF OneResult

(* reconcileNetworkRegions is a function: whatever has become of the list  *)
(* and of the tenant, a read of the network has one result and no other,   *)
(* so that what holds of every result of the model holds of the code's.    *)
THEOREM ReadIsFunction ==
  Spec => []OneResult
<1>1. Init => Sound
  BY InitSound
<1>2. Sound /\ [Next]_vars => Sound'
  BY StepSound
<1>3. Sound => OneResult
  BY ReadHasOneResult
<1> QED BY <1>1, <1>2, <1>3, PTL DEF Spec

=============================================================================
