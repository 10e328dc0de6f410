----------------------- MODULE DirectoryObjects_proofs -----------------------
(***************************************************************************)
(* Theorems about DirectoryObjects, for every page size, any number of     *)
(* ids, values, faults and edits.                                          *)
(***************************************************************************)
EXTENDS DirectoryObjects, SequenceTheorems, TLAPS

-----------------------------------------------------------------------------
(* Lists                                                                   *)

(* Where an element goes when another is put in at a position.             *)
After(pos, i) == IF i < pos THEN i ELSE i + 1

(* What InsertAt returns.                                                  *)
LEMMA Inserted ==
  ASSUME NEW S, NEW s \in Seq(S), NEW o \in S, NEW pos \in 1..Len(s) + 1
  PROVE  /\ InsertAt(s, pos, o) \in Seq(S)
         /\ Len(InsertAt(s, pos, o)) = Len(s) + 1
         /\ InsertAt(s, pos, o)[pos] = o
         /\ \A i \in 1..Len(s) : InsertAt(s, pos, o)[After(pos, i)] = s[i]
<1> DEFINE a == SubSeq(s, 1, pos - 1)
           b == SubSeq(s, pos, Len(s))
           t == a \o <<o>>
<1>0. Len(s) \in Nat /\ pos \in Nat /\ pos >= 1 /\ pos <= Len(s) + 1
  OBVIOUS
<1>1. /\ a \in Seq(S) /\ Len(a) = pos - 1
      /\ \A i \in 1..pos - 1 : a[i] = s[i]
  <2>1. \A i \in 1..pos - 1 : s[i] \in S
    BY <1>0
  <2>2. 1 \in Int /\ pos - 1 \in Int
    BY <1>0
  <2> QED BY <2>1, <2>2, <1>0, SubSeqProperties
<1>2. /\ b \in Seq(S) /\ Len(b) = Len(s) + 1 - pos
      /\ \A i \in 1..Len(s) + 1 - pos : b[i] = s[pos + i - 1]
  <2>1. \A i \in pos..Len(s) : s[i] \in S
    BY <1>0
  <2>2. pos \in Int /\ Len(s) \in Int
    BY <1>0
  <2>3. /\ b \in Seq(S) /\ Len(b) = IF pos <= Len(s) THEN Len(s) - pos + 1 ELSE 0
        /\ \A i \in 1..Len(s) - pos + 1 : b[i] = s[pos + i - 1]
    BY <2>1, <2>2, SubSeqProperties
  <2> QED BY <2>3, <1>0
<1>3. <<o>> \in Seq(S) /\ Len(<<o>>) = 1 /\ <<o>>[1] = o
  OBVIOUS
<1>4. /\ t \in Seq(S) /\ Len(t) = pos
      /\ \A i \in 1..pos : t[i] = IF i <= pos - 1 THEN a[i] ELSE <<o>>[i - (pos - 1)]
  BY <1>0, <1>1, <1>3, ConcatProperties
<1>5. /\ t \o b \in Seq(S) /\ Len(t \o b) = Len(s) + 1
      /\ \A i \in 1..Len(s) + 1 :
           (t \o b)[i] = IF i <= pos THEN t[i] ELSE b[i - pos]
  <2>1. Len(t) + Len(b) = Len(s) + 1
    BY <1>0, <1>2, <1>4
  <2>2. /\ t \o b \in Seq(S) /\ Len(t \o b) = Len(t) + Len(b)
        /\ \A i \in 1..Len(t) + Len(b) :
             (t \o b)[i] = IF i <= Len(t) THEN t[i] ELSE b[i - Len(t)]
    BY <1>2, <1>4, ConcatProperties
  <2> HIDE DEF a, b, t
  <2> QED BY <2>1, <2>2, <1>4
<1>6. InsertAt(s, pos, o) = t \o b
  BY DEF InsertAt
<1> HIDE DEF a, b, t
<1>7. (t \o b)[pos] = o
  BY <1>0, <1>3, <1>4, <1>5
<1>8. ASSUME NEW i \in 1..Len(s) PROVE (t \o b)[After(pos, i)] = s[i]
  <2>1. CASE i < pos
    BY <1>0, <1>1, <1>4, <1>5, <2>1 DEF After
  <2>2. CASE i >= pos
    <3>1. After(pos, i) = i + 1
      BY <1>0, <2>2 DEF After
    <3>2. /\ i + 1 \in 1..Len(s) + 1 /\ ~(i + 1 <= pos)
          /\ i + 1 - pos \in 1..Len(s) + 1 - pos
          /\ pos + (i + 1 - pos) - 1 = i
      BY <1>0, <2>2
    <3>3. (t \o b)[i + 1] = b[i + 1 - pos]
      BY <3>2, <1>5
    <3>4. b[i + 1 - pos] = s[pos + (i + 1 - pos) - 1]
      BY <3>2, <1>2
    <3> QED BY <3>1, <3>2, <3>3, <3>4
  <2>3. i < pos \/ i >= pos
    BY <1>0
  <2> QED BY <2>1, <2>2, <2>3
<1> QED BY <1>5, <1>6, <1>7, <1>8

(* What RemoveAt returns.                                                  *)
LEMMA Removed ==
  ASSUME NEW S, NEW s \in Seq(S), NEW pos \in 1..Len(s)
  PROVE  /\ RemoveAt(s, pos) \in Seq(S)
         /\ Len(RemoveAt(s, pos)) = Len(s) - 1
         /\ \A i \in 1..Len(s) - 1 : RemoveAt(s, pos)[i] = s[After(pos, i)]
<1> DEFINE a == SubSeq(s, 1, pos - 1)
           b == SubSeq(s, pos + 1, Len(s))
<1>0. Len(s) \in Nat /\ pos \in Nat /\ pos >= 1 /\ pos <= Len(s)
  OBVIOUS
<1>1. /\ a \in Seq(S) /\ Len(a) = pos - 1
      /\ \A i \in 1..pos - 1 : a[i] = s[i]
  <2>1. \A i \in 1..pos - 1 : s[i] \in S
    BY <1>0
  <2>2. 1 \in Int /\ pos - 1 \in Int
    BY <1>0
  <2> QED BY <2>1, <2>2, <1>0, SubSeqProperties
<1>2. /\ b \in Seq(S) /\ Len(b) = Len(s) - pos
      /\ \A i \in 1..Len(s) - pos : b[i] = s[pos + i]
  <2>1. \A i \in pos + 1..Len(s) : s[i] \in S
    BY <1>0
  <2>2. pos + 1 \in Int /\ Len(s) \in Int
    BY <1>0
  <2>3. /\ b \in Seq(S)
        /\ Len(b) = IF pos + 1 <= Len(s) THEN Len(s) - (pos + 1) + 1 ELSE 0
        /\ \A i \in 1..Len(s) - (pos + 1) + 1 : b[i] = s[pos + 1 + i - 1]
    BY <2>1, <2>2, SubSeqProperties
  <2> QED BY <2>3, <1>0
<1>3. /\ a \o b \in Seq(S) /\ Len(a \o b) = Len(s) - 1
      /\ \A i \in 1..Len(s) - 1 :
           (a \o b)[i] = IF i <= pos - 1 THEN a[i] ELSE b[i - (pos - 1)]
  <2> HIDE DEF a, b
  <2>1. Len(a) + Len(b) = Len(s) - 1
    BY <1>0, <1>1, <1>2
  <2>2. /\ a \o b \in Seq(S) /\ Len(a \o b) = Len(a) + Len(b)
        /\ \A i \in 1..Len(a) + Len(b) :
             (a \o b)[i] = IF i <= Len(a) THEN a[i] ELSE b[i - Len(a)]
    BY <1>1, <1>2, ConcatProperties
  <2> QED BY <2>1, <2>2, <1>1
<1>4. RemoveAt(s, pos) = a \o b
  BY DEF RemoveAt
<1> HIDE DEF a, b
<1>5. ASSUME NEW i \in 1..Len(s) - 1 PROVE (a \o b)[i] = s[After(pos, i)]
  <2>1. CASE i < pos
    BY <1>0, <1>1, <1>3, <2>1 DEF After
  <2>2. CASE i >= pos
    <3>1. After(pos, i) = i + 1
      BY <1>0, <2>2 DEF After
    <3>2. /\ ~(i <= pos - 1) /\ i - (pos - 1) \in 1..Len(s) - pos
          /\ pos + (i - (pos - 1)) = i + 1
      BY <1>0, <2>2
    <3>3. (a \o b)[i] = b[i - (pos - 1)]
      BY <3>2, <1>3
    <3>4. b[i - (pos - 1)] = s[pos + (i - (pos - 1))]
      BY <3>2, <1>2
    <3> QED BY <3>1, <3>2, <3>3, <3>4
  <2>3. i < pos \/ i >= pos
    BY <1>0
  <2> QED BY <2>1, <2>2, <2>3
<1> QED BY <1>3, <1>4, <1>5

(* No two objects have the same id.                                        *)
Unique(s) == \A i, j \in DOMAIN s : s[i].id = s[j].id => i = j

(* An object with a new id goes in, and everything else goes on or stays.  *)
LEMMA InsertKeeps ==
  ASSUME NEW s \in Seq(Object), Unique(s), NEW o \in Object,
         \A i \in DOMAIN s : s[i].id # o.id,
         NEW pos \in 1..Len(s) + 1
  PROVE  /\ InsertAt(s, pos, o) \in Seq(Object)
         /\ Unique(InsertAt(s, pos, o))
         /\ \A k \in DOMAIN InsertAt(s, pos, o) :
              \/ InsertAt(s, pos, o)[k] = o
              \/ \E i \in DOMAIN s : i <= k /\ InsertAt(s, pos, o)[k] = s[i]
<1> DEFINE t == InsertAt(s, pos, o)
<1>1. /\ t \in Seq(Object) /\ Len(t) = Len(s) + 1 /\ t[pos] = o
      /\ \A i \in 1..Len(s) : t[After(pos, i)] = s[i]
  BY Inserted
<1> HIDE DEF t
<1>2. Len(s) \in Nat /\ DOMAIN s = 1..Len(s) /\ DOMAIN t = 1..Len(s) + 1
  BY <1>1
<1>3. \A k \in DOMAIN t : k = pos \/ \E i \in DOMAIN s : k = After(pos, i) /\ i <= k
  <2> SUFFICES ASSUME NEW k \in DOMAIN t, k # pos
               PROVE  \E i \in DOMAIN s : k = After(pos, i) /\ i <= k
    OBVIOUS
  <2>0. k \in Nat /\ k >= 1 /\ k <= Len(s) + 1 /\ pos \in Nat /\ pos >= 1
        /\ pos <= Len(s) + 1
    BY <1>2
  <2>1. CASE k < pos
    <3>1. k \in DOMAIN s /\ k = After(pos, k)
      BY <1>2, <2>0, <2>1 DEF After
    <3> QED BY <3>1, <2>0
  <2>2. CASE k > pos
    <3>1. k - 1 \in DOMAIN s /\ k = After(pos, k - 1) /\ k - 1 <= k
      BY <1>2, <2>0, <2>2 DEF After
    <3> QED BY <3>1
  <2> QED BY <2>0, <2>1, <2>2
<1>4. \A k \in DOMAIN t : t[k] = o \/ \E i \in DOMAIN s : i <= k /\ t[k] = s[i]
  BY <1>1, <1>2, <1>3
<1>5. Unique(t)
  <2> SUFFICES ASSUME NEW k \in DOMAIN t, NEW l \in DOMAIN t, t[k].id = t[l].id
               PROVE  k = l
    BY DEF Unique
  <2>1. CASE k = pos \/ l = pos
    BY <1>1, <1>2, <1>3, <2>1
  <2>2. CASE k # pos /\ l # pos
    <3>1. PICK i \in DOMAIN s : k = After(pos, i)
      BY <1>3, <2>2
    <3>2. PICK j \in DOMAIN s : l = After(pos, j)
      BY <1>3, <2>2
    <3>3. s[i].id = s[j].id
      BY <1>1, <1>2, <3>1, <3>2
    <3> QED BY <3>1, <3>2, <3>3 DEF Unique
  <2> QED BY <2>1, <2>2
<1> QED BY <1>1, <1>4, <1>5 DEF t

(* An object goes out, and nothing else changes.                           *)
LEMMA RemoveKeeps ==
  ASSUME NEW s \in Seq(Object), Unique(s), NEW pos \in DOMAIN s
  PROVE  /\ RemoveAt(s, pos) \in Seq(Object)
         /\ Unique(RemoveAt(s, pos))
         /\ \A k \in DOMAIN RemoveAt(s, pos) :
              \E i \in DOMAIN s : i # pos /\ RemoveAt(s, pos)[k] = s[i]
         /\ \A k \in DOMAIN RemoveAt(s, pos) :
              RemoveAt(s, pos)[k].id # s[pos].id
<1> DEFINE t == RemoveAt(s, pos)
<1>0. Len(s) \in Nat /\ DOMAIN s = 1..Len(s) /\ pos \in 1..Len(s)
  OBVIOUS
<1>1. /\ t \in Seq(Object) /\ Len(t) = Len(s) - 1
      /\ \A i \in 1..Len(s) - 1 : t[i] = s[After(pos, i)]
  BY <1>0, Removed
<1> HIDE DEF t
<1>2. DOMAIN t = 1..Len(s) - 1
  BY <1>0, <1>1
<1>3. \A k \in DOMAIN t : After(pos, k) \in DOMAIN s /\ After(pos, k) # pos
  BY <1>0, <1>2 DEF After
<1>4. \A k, l \in DOMAIN t : After(pos, k) = After(pos, l) => k = l
  BY <1>0, <1>2 DEF After
<1>5. Unique(t)
  BY <1>1, <1>2, <1>3, <1>4 DEF Unique
<1>6. \A k \in DOMAIN t : \E i \in DOMAIN s : i # pos /\ t[k] = s[i]
  BY <1>1, <1>2, <1>3
<1>7. \A k \in DOMAIN t : t[k].id # s[pos].id
  BY <1>6 DEF Unique
<1> QED BY <1>1, <1>5, <1>6, <1>7 DEF t

(* An object changes and keeps its id.                                     *)
LEMMA EditKeeps ==
  ASSUME NEW s \in Seq(Object), Unique(s), NEW pos \in DOMAIN s,
         NEW o \in Object, o.id = s[pos].id
  PROVE  /\ [s EXCEPT ![pos] = o] \in Seq(Object)
         /\ Unique([s EXCEPT ![pos] = o])
         /\ DOMAIN [s EXCEPT ![pos] = o] = DOMAIN s
         /\ \A k \in DOMAIN s :
              [s EXCEPT ![pos] = o][k] = IF k = pos THEN o ELSE s[k]
<1>1. [s EXCEPT ![pos] = o] \in Seq(Object)
  OBVIOUS
<1>2. /\ DOMAIN [s EXCEPT ![pos] = o] = DOMAIN s
      /\ \A k \in DOMAIN s :
           [s EXCEPT ![pos] = o][k] = IF k = pos THEN o ELSE s[k]
  OBVIOUS
<1>3. Unique([s EXCEPT ![pos] = o])
  BY <1>2 DEF Unique
<1> QED BY <1>1, <1>2, <1>3

-----------------------------------------------------------------------------
(* Pages                                                                   *)

(* The last page of a list ends with it.                                   *)
LEMMA PagesEnd ==
  ASSUME NEW n \in Nat, NEW size \in Nat \ {0}, NEW p \in Nat \ {0}
  PROVE  /\ (p - 1) * size + size = p * size
         /\ (p - 1) * size \in Nat
         /\ (n + size - 1) \div size <= p <=> n <= p * size
<1>1. (p - 1) * size + size = p * size
  OBVIOUS
<1>2. (p - 1) * size \in Nat
  OBVIOUS
<1>3. (n + size - 1) \div size <= p <=> n <= p * size
  OBVIOUS
<1> QED BY <1>1, <1>2, <1>3

(* How much of the list comes before a page.                               *)
Skipped(p) == (p - 1) * dialect.size

LEMMA SkippedFacts ==
  ASSUME list \in Seq(Object), dialect \in Dialect, NEW p \in Nat \ {0}
  PROVE  /\ dialect.size \in Nat \ {0}
         /\ Skipped(1) = 0
         /\ Skipped(p) \in Nat
         /\ Skipped(p + 1) = Skipped(p) + dialect.size
         /\ p >= TotalPage <=> Len(list) <= Skipped(p) + dialect.size
<1>1. dialect.size \in Nat \ {0}
  BY PagesAssumption DEF Dialect
<1>2. /\ Skipped(p) \in Nat
      /\ Skipped(p) + dialect.size = p * dialect.size
      /\ Skipped(p + 1) = p * dialect.size
  <2>1. Skipped(p) = (p - 1) * dialect.size
    BY DEF Skipped
  <2>2. (p + 1) - 1 = p
    OBVIOUS
  <2>3. Skipped(p + 1) = p * dialect.size
    BY <2>2 DEF Skipped
  <2> QED BY <1>1, <2>1, <2>3, PagesEnd
<1>3. Skipped(1) = 0
  BY <1>1 DEF Skipped
<1>4. Len(list) \in Nat
  OBVIOUS
<1>5. p >= TotalPage <=> Len(list) <= p * dialect.size
  <2>1. TotalPage = (Len(list) + dialect.size - 1) \div dialect.size
    BY DEF TotalPage
  <2>2. TotalPage <= p <=> Len(list) <= p * dialect.size
    BY <1>1, <1>4, <2>1, PagesEnd
  <2>3. TotalPage \in Int
    BY <1>1, <1>4, <2>1
  <2> QED BY <2>2, <2>3
<1> QED BY <1>1, <1>2, <1>3, <1>5

(* What a page shows of the list.                                          *)
LEMMA PageShows ==
  ASSUME list \in Seq(Object), dialect \in Dialect, NEW p \in Nat \ {0},
         dialect.pages \/ p = 1
  PROVE  /\ Page(p) \in Seq(Object)
         /\ Len(Page(p)) = IF Skipped(p) + dialect.size <= Len(list)
                           THEN dialect.size
                           ELSE IF Skipped(p) < Len(list)
                                THEN Len(list) - Skipped(p) ELSE 0
         /\ \A j \in DOMAIN Page(p) :
              /\ Skipped(p) + j \in DOMAIN list
              /\ Page(p)[j] = list[Skipped(p) + j]
<1>1. dialect.size \in Nat \ {0} /\ Skipped(p) \in Nat /\ Len(list) \in Nat
  BY SkippedFacts
<1>2. (IF dialect.pages THEN p ELSE 1) = p
  OBVIOUS
<1>3. PICK last \in Nat :
        /\ last = IF Skipped(p) + dialect.size <= Len(list)
                  THEN Skipped(p) + dialect.size ELSE Len(list)
        /\ last <= Len(list) /\ last <= Skipped(p) + dialect.size
        /\ Page(p) = SubSeq(list, Skipped(p) + 1, last)
  <2>1. Page(p) = SubSeq(list, Skipped(p) + 1,
                         IF Skipped(p) + 1 + dialect.size - 1 < Len(list)
                         THEN Skipped(p) + 1 + dialect.size - 1 ELSE Len(list))
    BY <1>2 DEF Page, Skipped
  <2> DEFINE l == IF Skipped(p) + dialect.size <= Len(list)
                  THEN Skipped(p) + dialect.size ELSE Len(list)
  <2>2. l \in Nat /\ l <= Len(list) /\ l <= Skipped(p) + dialect.size
    BY <1>1
  <2>3. (IF Skipped(p) + 1 + dialect.size - 1 < Len(list)
         THEN Skipped(p) + 1 + dialect.size - 1 ELSE Len(list)) = l
    BY <1>1
  <2>4. Page(p) = SubSeq(list, Skipped(p) + 1, l)
    BY <2>1, <2>3
  <2> QED BY <2>2, <2>4
<1>4. \A i \in Skipped(p) + 1..last : list[i] \in Object
  BY <1>1, <1>3
<1>5. /\ Page(p) \in Seq(Object)
      /\ Len(Page(p)) = IF Skipped(p) + 1 <= last
                        THEN last - (Skipped(p) + 1) + 1 ELSE 0
      /\ \A j \in 1..last - (Skipped(p) + 1) + 1 :
           Page(p)[j] = list[Skipped(p) + 1 + j - 1]
  <2>1. Skipped(p) + 1 \in Int /\ last \in Int
    BY <1>1
  <2> QED BY <1>3, <1>4, <2>1, SubSeqProperties
<1>6. Len(Page(p)) = IF Skipped(p) + dialect.size <= Len(list)
                     THEN dialect.size
                     ELSE IF Skipped(p) < Len(list)
                          THEN Len(list) - Skipped(p) ELSE 0
  BY <1>1, <1>3, <1>5
<1>7. ASSUME NEW j \in DOMAIN Page(p)
      PROVE  /\ Skipped(p) + j \in DOMAIN list
             /\ Page(p)[j] = list[Skipped(p) + j]
  <2>1. j \in 1..Len(Page(p))
    BY <1>5
  <2>2. /\ j \in 1..last - (Skipped(p) + 1) + 1
        /\ Skipped(p) + j \in 1..Len(list)
    <3>1. j \in Nat /\ j >= 1 /\ j <= last - (Skipped(p) + 1) + 1
      BY <1>1, <1>3, <1>5, <2>1
    <3> QED BY <1>1, <1>3, <3>1
  <2>3. Skipped(p) + 1 + j - 1 = Skipped(p) + j
    BY <1>1, <2>2
  <2> QED BY <1>5, <2>2, <2>3
<1> QED BY <1>5, <1>6, <1>7

(* An object that no page before this one has is on it, or on a later one. *)
LEMMA PageFinds ==
  ASSUME list \in Seq(Object), dialect \in Dialect, NEW p \in Nat \ {0},
         dialect.pages \/ p = 1,
         NEW i \in DOMAIN list, i > Skipped(p),
         \A j \in DOMAIN Page(p) : Page(p)[j] # list[i]
  PROVE  i > Skipped(p) + dialect.size
<1>1. /\ dialect.size \in Nat \ {0} /\ Skipped(p) \in Nat
      /\ Page(p) \in Seq(Object)
      /\ Len(Page(p)) = IF Skipped(p) + dialect.size <= Len(list)
                        THEN dialect.size
                        ELSE IF Skipped(p) < Len(list)
                             THEN Len(list) - Skipped(p) ELSE 0
      /\ \A j \in DOMAIN Page(p) : Page(p)[j] = list[Skipped(p) + j]
  BY SkippedFacts, PageShows
<1>2. i \in 1..Len(list) /\ Len(list) \in Nat
  OBVIOUS
<1>3. ASSUME i <= Skipped(p) + dialect.size PROVE FALSE
  <2>1. i - Skipped(p) \in 1..Len(Page(p)) /\ Skipped(p) + (i - Skipped(p)) = i
    BY <1>1, <1>2, <1>3
  <2>2. i - Skipped(p) \in DOMAIN Page(p)
    BY <1>1, <2>1
  <2> QED BY <1>1, <2>1, <2>2
<1> QED BY <1>1, <1>2, <1>3

(* After the last page nothing is left.                                    *)
LEMMA LastPageIsLast ==
  ASSUME list \in Seq(Object), dialect \in Dialect, NEW p \in Nat \ {0},
         dialect.pages \/ p = 1,
         Page(p) = <<>> \/ p >= TotalPage
  PROVE  Len(list) <= Skipped(p) + dialect.size
<1>1. dialect.size \in Nat \ {0} /\ Skipped(p) \in Nat /\ Len(list) \in Nat
  BY SkippedFacts
<1>2. CASE Page(p) = <<>>
  <2>1. Len(Page(p)) = 0
    BY <1>2
  <2> QED BY <1>1, <2>1, PageShows
<1>3. CASE p >= TotalPage
  BY <1>3, SkippedFacts
<1> QED BY <1>2, <1>3

-----------------------------------------------------------------------------
(* The inductive invariant                                                 *)

Walks ==
  [page : Nat, rows : Seq(Object), total : SUBSET Nat,
   moved : {"no", "grown", "shrunk"}]

(* Which calls belong to which operation, and what they work on.           *)
Calls ==
  /\ walk \in Walks
  /\ op.pc = "idle" => op = Idle
  /\ op.pc = "create" => op.kind = "create" /\ op.id = NoId
  /\ op.pc = "update" => op.kind = "update"
  /\ op.pc = "delete" => op.kind \in {"destroy", "replace"}
  /\ op.pc = "page" => op.kind \in {"create", "update", "plan", "import"}
  /\ op.pc = "page" /\ op.kind \in {"update", "plan"} =>
       op.id = state.id /\ op.id # NoId
  /\ op.pc \in {"page", "catalogue"} => walk.page # 0
  /\ op.pc \notin {"page", "catalogue"} => walk = NoWalk
  /\ op.pc \in {"create", "update"} => want.val # 0
  /\ op.pc = "catalogue" => kind = "updatable_objects" /\ op.id = NoId
  /\ kind = "updatable_objects" =>
       state = NoRecord /\ want.val = 0 /\ op.pc \in {"idle", "catalogue"}

(* Until the list becomes shorter, an object that a walk looks for is not  *)
(* behind it.                                                              *)
Seen ==
  op.pc = "page" /\ kind \in Directory /\ walk.moved # "shrunk" =>
    \A i \in DOMAIN list : list[i].id = op.id => i > Skipped(walk.page)

(* A user that is gone is in no group.                                     *)
Tied ==
  kind = "group_membership" /\ ~user => \A i \in DOMAIN list : ~list[i].tied

(* What the provider has made is in the record, in hand, or told.          *)
Orphans ==
  \/ op.pc = "page" /\ op.kind = "create" /\ op.id = NoId
  \/ Ours(list) \subseteq {state.id, op.id} \cup excused

(* A note in the record is the object's.                                   *)
Notes ==
  kind \in WriteOnly =>
    /\ state.note # 0 =>
         \A i \in DOMAIN list :
           list[i].id = state.id => list[i].note = state.note
    /\ op.pc = "page" /\ op.kind = "create" /\ op.id # NoId =>
         \A i \in DOMAIN list : list[i].id = op.id => list[i].note = want.note

(* While nobody changes the catalogue, the rows are its first pages.       *)
Gathered ==
  op.pc = "catalogue" /\ walk.moved = "no" =>
    /\ Len(walk.rows) = Skipped(walk.page)
    /\ Skipped(walk.page) <= Len(list)
    /\ \A i \in DOMAIN walk.rows : walk.rows[i] = list[i]
    /\ dialect.pages \/ walk.page \in {1, 2}
    /\ walk.page > 1 /\ dialect.itemsTotal => walk.total = {Len(list)}

IInv == TypeOK /\ Calls /\ Seen /\ Tied /\ Orphans /\ Notes /\ Gathered

-----------------------------------------------------------------------------
(* What a step of a handler makes of the list                              *)

(* Whose object it is and whether it is there.                             *)
LEMMA OursIs ==
  ASSUME NEW s, NEW id
  PROVE  id \in Ours(s) <=>
           \E i \in DOMAIN s : s[i].id = id /\ s[i].mine /\ Live(s[i])
BY DEF Ours, ToSet

LEMMA OnIs ==
  ASSUME NEW s, NEW id, NEW o
  PROVE  o \in On(s, id) <=> \E i \in DOMAIN s : s[i] = o /\ o.id = id
BY DEF On, ToSet

Same == UNCHANGED <<user, dialect, kind, want, result>>

Counted == faults' \in 0..MaxFaults /\ edits' \in 0..MaxEdits

(* The list stays well-formed, and an object that is known keeps its note. *)
Moves ==
  /\ list' \in Seq(Object) /\ Unique(list')
  /\ kind = "group_membership" /\ ~user' =>
       \A k \in DOMAIN list' : ~list'[k].tied
  /\ kind \in WriteOnly =>
       \A k \in DOMAIN list' :
         list'[k].id \in {state.id, op.id} =>
           \E i \in DOMAIN list :
             list[i].id = list'[k].id /\ list[i].note = list'[k].note

LEMMA StaysMoves ==
  ASSUME IInv, UNCHANGED <<list, user>>
  PROVE  Moves /\ Ours(list') = Ours(list)
BY DEF IInv, TypeOK, Unique, Tied, Moves

LEMMA NewIdIsNew ==
  ASSUME IdsLeft
  PROVE  /\ NewId \in 1..MaxId /\ NewId \notin {state.id, op.id}
         /\ \A i \in DOMAIN list : list[i].id # NewId
<1>1. NewId \in 1..MaxId /\ NewId \notin Used
  BY DEF IdsLeft, NewId
<1> QED BY <1>1 DEF Used, ToSet

LEMMA PostedMoves ==
  ASSUME IInv, Posted
  PROVE  /\ Same /\ Moves /\ NewId \in 1..MaxId
         /\ Ours(list') \subseteq Ours(list) \cup {NewId}
         /\ \A k \in DOMAIN list' :
              list'[k].id = NewId => list'[k].note = want.note
<1> DEFINE o == [id |-> NewId, val |-> want.val, note |-> want.note,
                 over |-> FALSE, tied |-> FALSE, mine |-> TRUE]
<1>1. /\ op.pc = "create" /\ IdsLeft
      /\ UNCHANGED <<user, dialect, kind, want, result>>
  BY DEF Posted
<1>2. PICK pos \in {1, Len(list) + 1} : list' = InsertAt(list, pos, o)
  BY DEF Posted
<1>3. /\ NewId \in 1..MaxId /\ NewId \notin {state.id, op.id}
      /\ \A i \in DOMAIN list : list[i].id # NewId
  BY <1>1, NewIdIsNew
<1>4. want.val \in 1..MaxVal /\ want.note \in 1..MaxVal
  BY <1>1 DEF IInv, TypeOK, Calls
<1>5. o \in Object
  BY <1>3, <1>4 DEF Object
<1>6. list \in Seq(Object) /\ Unique(list) /\ pos \in 1..Len(list) + 1
  BY DEF IInv, TypeOK, Unique
<1>7. o.id = NewId /\ o.note = want.note /\ o.tied = FALSE
  OBVIOUS
<1> HIDE DEF o
<1>8. /\ list' \in Seq(Object) /\ Unique(list')
      /\ \A k \in DOMAIN list' :
           list'[k] = o \/ \E i \in DOMAIN list : i <= k /\ list'[k] = list[i]
  BY <1>2, <1>3, <1>5, <1>6, <1>7, InsertKeeps
<1>9. Moves
  <2>1. kind = "group_membership" /\ ~user' =>
          \A k \in DOMAIN list' : ~list'[k].tied
    BY <1>1, <1>7, <1>8 DEF IInv, Tied
  <2>2. \A k \in DOMAIN list' :
          list'[k].id \in {state.id, op.id} =>
            \E i \in DOMAIN list :
              list[i].id = list'[k].id /\ list[i].note = list'[k].note
    BY <1>3, <1>7, <1>8
  <2> QED BY <1>8, <2>1, <2>2 DEF Moves
<1>10. Ours(list') \subseteq Ours(list) \cup {NewId}
  BY <1>7, <1>8, OursIs
<1>11. \A k \in DOMAIN list' : list'[k].id = NewId => list'[k].note = want.note
  BY <1>3, <1>7, <1>8
<1> QED BY <1>1, <1>3, <1>9, <1>10, <1>11 DEF Same

(* An object is edited in its place.                                       *)
LEMMA EditedMoves ==
  ASSUME IInv, NEW pos \in DOMAIN list, NEW o \in Object,
         list' = [list EXCEPT ![pos] = o],
         o.id = list[pos].id, o.note = list[pos].note,
         UNCHANGED user, user \/ kind # "group_membership" \/ ~o.tied
  PROVE  /\ Moves /\ DOMAIN list' = DOMAIN list
         /\ \A k \in DOMAIN list : list'[k] = IF k = pos THEN o ELSE list[k]
<1>1. list \in Seq(Object) /\ Unique(list)
  BY DEF IInv, TypeOK, Unique
<1>2. /\ list' \in Seq(Object) /\ Unique(list') /\ DOMAIN list' = DOMAIN list
      /\ \A k \in DOMAIN list : list'[k] = IF k = pos THEN o ELSE list[k]
  BY <1>1, EditKeeps
<1>3. kind = "group_membership" /\ ~user' =>
        \A k \in DOMAIN list' : ~list'[k].tied
  BY <1>2 DEF IInv, Tied
<1>4. \A k \in DOMAIN list' :
        list[k].id = list'[k].id /\ list[k].note = list'[k].note
  BY <1>2
<1> QED BY <1>2, <1>3, <1>4 DEF Moves

-----------------------------------------------------------------------------
(* The shapes of a handler's steps                                         *)

Base == Same /\ Counted

Fails ==
  /\ op.pc \in {"create", "page", "update", "delete"}
  /\ Base /\ Moves /\ Errs

(* A create that has an id, or none, and reads next.                       *)
Made ==
  \E id \in 0..MaxId :
    /\ op.pc = "create"
    /\ Base /\ Moves /\ ThenRead(id) /\ UNCHANGED <<state, excused>>
    /\ id # NoId => Ours(list') \subseteq Ours(list) \cup {id}
    /\ id # NoId /\ kind \in WriteOnly =>
         \A k \in DOMAIN list' : list'[k].id = id => list'[k].note = want.note

Changed ==
  /\ op.pc = "update"
  /\ Base /\ Moves /\ ThenRead(op.id) /\ UNCHANGED <<state, excused>>
  /\ Ours(list') \subseteq Ours(list)

GoesOn == op.pc = "page" /\ Base /\ UNCHANGED list /\ ReadsOn

(* A read that returns with the object, or without one because the object  *)
(* is gone or could not be seen.                                           *)
ReadBack ==
  \E i \in DOMAIN list :
    /\ op.pc = "page" /\ Base /\ UNCHANGED list
    /\ list[i].id = op.id /\ Returns(Shown(list[i]), {})

IsGone == \A i \in DOMAIN list : list[i].id = op.id => ~Live(list[i])

Lost ==
  \E missed \in SUBSET {op.id} :
    /\ op.pc = "page" /\ Base /\ UNCHANGED list
    /\ \/ IsGone
       \/ op.id \in missed /\ (walk.moved = "shrunk" \/ NullBody)
    /\ Returns(NoRecord, missed)

Gone ==
  /\ op.pc = "delete" /\ Base /\ Moves
  /\ Ours(list') \subseteq Ours(list)
  /\ \A k \in DOMAIN list' : list'[k].id = op.id => ~Live(list'[k])
  /\ Returns(NoRecord, {})

Shape == Fails \/ Made \/ Changed \/ GoesOn \/ ReadBack \/ Lost \/ Gone

LEMMA CountedSteps ==
  ASSUME IInv, Fault \/ Edit \/ UNCHANGED bounds
  PROVE  Counted
BY DirectoryAssumption DEF IInv, TypeOK, Fault, Edit, bounds, Counted

LEMMA CallFailsShape ==
  ASSUME IInv, NEW pc \in {"create", "page", "update", "delete"}, CallFails(pc)
  PROVE  Fails
<1>1. /\ op.pc = pc /\ UNCHANGED <<list, user>> /\ Same /\ Errs /\ Counted
  BY CountedSteps DEF CallFails, server, Same
<1>2. Moves
  BY <1>1, StaysMoves
<1> QED BY <1>1, <1>2 DEF Fails, Base

LEMMA RefusedShape ==
  ASSUME IInv, op.pc \in {"create", "update", "delete"},
         UNCHANGED <<server, dialect, kind, want, result>>,
         Fault \/ UNCHANGED bounds, Errs
  PROVE  Fails
<1>1. UNCHANGED <<list, user>> /\ Same /\ Counted
  BY CountedSteps DEF server, Same
<1>2. Moves
  BY <1>1, StaysMoves
<1> QED BY <1>1, <1>2 DEF Fails, Base

(* A POST, whatever becomes of its answer.                                 *)
LEMMA PostedShape ==
  ASSUME IInv, Posted, Fault \/ UNCHANGED bounds,
         \/ Errs
         \/ \E id \in {NewId, NoId} :
              ThenRead(id) /\ UNCHANGED <<state, excused>>
  PROVE  Shape
<1>1. /\ Same /\ Moves /\ NewId \in 1..MaxId /\ op.pc = "create" /\ Counted
      /\ Ours(list') \subseteq Ours(list) \cup {NewId}
      /\ \A k \in DOMAIN list' :
           list'[k].id = NewId => list'[k].note = want.note
  BY PostedMoves, CountedSteps DEF Posted
<1>2. CASE Errs
  BY <1>1, <1>2 DEF Shape, Fails, Base
<1>3. ASSUME NEW id \in {NewId, NoId},
             ThenRead(id), UNCHANGED <<state, excused>>
      PROVE  Made
  <2>1. id \in 0..MaxId
    BY <1>1, DirectoryAssumption DEF NoId
  <2> QED BY <1>1, <1>3, <2>1 DEF Made, Base
<1> QED BY <1>2, <1>3 DEF Shape

LEMMA CreateShape ==
  ASSUME IInv, Create \/ NoIdIsAnError \/ SetsWhateverId
  PROVE  Shape
<1>1. CASE CallFails("create")
  BY <1>1, CallFailsShape DEF Shape
<1>2. CASE ~CallFails("create")
  <2>1. Posted /\ (Fault \/ UNCHANGED bounds)
    BY <1>2 DEF Create, NoIdIsAnError, SetsWhateverId
  <2>2. \/ Errs
        \/ \E id \in {NewId, NoId} :
              ThenRead(id) /\ UNCHANGED <<state, excused>>
    BY <1>2 DEF Create, NoIdIsAnError, SetsWhateverId
  <2> QED BY <2>1, <2>2, PostedShape
<1> QED BY <1>1, <1>2

LEMMA PairedMoves ==
  ASSUME IInv, NEW id, NEW tied \in BOOLEAN, Paired(id, tied),
         UNCHANGED user, user \/ ~tied, kind = "group_membership"
  PROVE  /\ Moves /\ id \in 1..MaxId
         /\ Ours(list') \subseteq Ours(list) \cup {id}
         /\ ~tied => Ours(list') \subseteq Ours(list)
         /\ ~tied => \A k \in DOMAIN list' : list'[k].id = id => ~Live(list'[k])
<1>1. PICK pos \in DOMAIN list :
        /\ list[pos].id = id
        /\ list' = [list EXCEPT ![pos].tied = tied, ![pos].mine = tied]
  BY DEF Paired
<1> DEFINE o == [list[pos] EXCEPT !.tied = tied, !.mine = tied]
<1>2. list \in Seq(Object) /\ Unique(list) /\ list[pos] \in Object
  BY DEF IInv, TypeOK, Unique
<1>3. /\ o \in Object /\ o.id = id /\ o.note = list[pos].note
      /\ o.tied = tied /\ o.mine = tied
  BY <1>1, <1>2 DEF Object
<1>4. list' = [list EXCEPT ![pos] = o]
  BY <1>1, <1>2
<1>5. id \in 1..MaxId
  BY <1>1, <1>2 DEF Object
<1> HIDE DEF o
<1>6. /\ Moves /\ DOMAIN list' = DOMAIN list
      /\ \A k \in DOMAIN list : list'[k] = IF k = pos THEN o ELSE list[k]
  BY <1>1, <1>3, <1>4, EditedMoves
<1>7. Ours(list') \subseteq Ours(list) \cup {id}
  BY <1>3, <1>6, OursIs
<1>8. ASSUME ~tied PROVE Ours(list') \subseteq Ours(list)
  BY <1>3, <1>6, <1>8, OursIs
<1>9. ASSUME ~tied, NEW k \in DOMAIN list', list'[k].id = id
      PROVE  ~Live(list'[k])
  <2>1. k = pos
    BY <1>1, <1>2, <1>6, <1>9 DEF Unique
  <2> QED BY <1>3, <1>6, <1>9, <2>1 DEF Live
<1> QED BY <1>5, <1>6, <1>7, <1>8, <1>9

LEMMA MembershipCreateShape ==
  ASSUME IInv, resourceGroupMembershipCreate
  PROVE  Shape
<1>1. kind = "group_membership"
  BY DEF resourceGroupMembershipCreate
<1>2. CASE CallFails("create")
  BY <1>2, CallFailsShape DEF Shape
<1>3. CASE /\ op.pc = "create" /\ (~user \/ On(list, want.val) = {})
           /\ UNCHANGED <<server, dialect, kind, want, result, bounds>>
           /\ Errs
  BY <1>3, RefusedShape DEF Shape
<1>4. CASE AddGroupMember /\ (Fault \/ UNCHANGED bounds)
  <2>1. /\ op.pc = "create" /\ user /\ Paired(want.val, TRUE) /\ Same
        /\ UNCHANGED user
    BY <1>4 DEF AddGroupMember, Same
  <2>2. /\ Moves /\ want.val \in 1..MaxId /\ Counted
        /\ Ours(list') \subseteq Ours(list) \cup {want.val}
    BY <1>1, <1>4, <2>1, PairedMoves, CountedSteps
  <2>3. CASE Errs
    BY <2>1, <2>2, <2>3 DEF Shape, Fails, Base
  <2>4. CASE ThenRead(want.val) /\ UNCHANGED <<state, excused>>
    <3>1. want.val \in 0..MaxId /\ kind \notin WriteOnly
      BY <1>1, <2>2 DEF WriteOnly, Users
    <3> QED BY <2>1, <2>2, <2>4, <3>1 DEF Shape, Made, Base
  <2>5. Errs \/ (ThenRead(want.val) /\ UNCHANGED <<state, excused>>)
    <3>1. op.pc = "create" /\ user /\ On(list, want.val) # {}
      <4>1. \E i \in DOMAIN list : list[i].id = want.val
        BY <2>1 DEF Paired
      <4> QED BY <2>1, <4>1, OnIs
    <3> QED BY <3>1, <1>1 DEF resourceGroupMembershipCreate, CallFails, Errs
  <2> QED BY <2>3, <2>4, <2>5
<1> QED BY <1>1, <1>2, <1>3, <1>4 DEF resourceGroupMembershipCreate

(* What a read looks at is part of the list.                               *)
LEMMA DataShows ==
  ASSUME IInv, op.pc = "page", kind \in Objects \cup Directory,
         NEW o, o \in readByIDFromList
  PROVE  \E i \in DOMAIN list : list[i] = o /\ o.id = op.id
<1>1. CASE kind \in Objects
  BY <1>1, OnIs DEF readByIDFromList, Data
<1>2. CASE kind \in Directory
  <2>1. /\ list \in Seq(Object) /\ dialect = Documented
        /\ walk.page \in Nat \ {0}
    BY <1>2 DEF IInv, TypeOK, Calls, Walks, Directory, Users
  <2>2. dialect \in Dialect /\ dialect.pages
    BY <2>1 DEF Dialect, Documented
  <2>3. readByIDFromList = On(Page(walk.page), op.id)
    BY <1>2 DEF readByIDFromList, Data, Objects, Directory, Users
  <2>4. PICK j \in DOMAIN Page(walk.page) :
          Page(walk.page)[j] = o /\ o.id = op.id
    BY <2>3, OnIs
  <2>5. /\ Skipped(walk.page) + j \in DOMAIN list
        /\ Page(walk.page)[j] = list[Skipped(walk.page) + j]
    BY <2>1, <2>2, PageShows
  <2> QED BY <2>4, <2>5
<1> QED BY <1>1, <1>2

(* A walk that has not found the object by the last page could not, unless *)
(* the list became shorter.                                                *)
LEMMA NothingFound ==
  ASSUME IInv, op.pc = "page", kind \in Objects \cup Directory,
         readByIDFromList = {}
  PROVE  /\ walk.moved = "shrunk" \/ kind \in Objects \/
            \A i \in DOMAIN list :
              list[i].id = op.id => i > Skipped(walk.page) + dialect.size
         /\ NoMorePages => IsGone \/ walk.moved = "shrunk"
<1>1. CASE kind \in Objects
  <2>1. On(list, op.id) = {}
    BY <1>1 DEF readByIDFromList, Data
  <2>2. IsGone
    BY <2>1, OnIs DEF IsGone
  <2> QED BY <1>1, <2>2
<1>2. CASE kind \in Directory /\ walk.moved # "shrunk"
  <2>1. /\ list \in Seq(Object) /\ dialect = Documented
        /\ walk.page \in Nat \ {0}
    BY <1>2 DEF IInv, TypeOK, Calls, Walks, Directory, Users
  <2>2. dialect \in Dialect /\ dialect.pages
    BY <2>1 DEF Dialect, Documented
  <2>3. Data = Page(walk.page) /\ kind \notin Objects
    BY <1>2 DEF Data, Objects, Directory, Users
  <2>4. ASSUME NEW i \in DOMAIN list, list[i].id = op.id
        PROVE  i > Skipped(walk.page) + dialect.size
    <3>1. i > Skipped(walk.page)
      BY <1>2, <2>4 DEF IInv, Seen
    <3>2. \A j \in DOMAIN Page(walk.page) : Page(walk.page)[j] # list[i]
      BY <2>3, <2>4, OnIs DEF readByIDFromList
    <3> QED BY <2>1, <2>2, <3>1, <3>2, PageFinds
  <2>5. ASSUME NoMorePages PROVE IsGone
    <3>1. Page(walk.page) = <<>> \/ walk.page >= TotalPage
      BY <2>3, <2>5 DEF NoMorePages
    <3>2. Len(list) <= Skipped(walk.page) + dialect.size
      BY <2>1, <2>2, <3>1, LastPageIsLast
    <3>3. /\ Len(list) \in Nat /\ DOMAIN list = 1..Len(list)
          /\ Skipped(walk.page) \in Nat /\ dialect.size \in Nat
      <4>1. Len(list) \in Nat /\ DOMAIN list = 1..Len(list)
        BY <2>1
      <4>2. Skipped(walk.page) \in Nat /\ dialect.size \in Nat
        BY <2>1, <2>2, SkippedFacts
      <4> QED BY <4>1, <4>2
    <3>4. \A i \in DOMAIN list : list[i].id # op.id
      BY <2>4, <3>2, <3>3
    <3> QED BY <3>4 DEF IsGone
  <2> QED BY <2>4, <2>5
<1> QED BY <1>1, <1>2

LEMMA ReadShape ==
  ASSUME IInv, kind \in Objects \cup Directory, Walk
  PROVE  Shape
<1>1. CASE CallFails("page")
  BY <1>1, CallFailsShape DEF Shape
<1>2. CASE NullBody
  <2>1. /\ op.pc = "page" /\ UNCHANGED list /\ Same /\ Counted
        /\ Returns(NoRecord, {op.id})
    BY <1>2, CountedSteps DEF NullBody, PageAnswered, server, Same
  <2> QED BY <1>2, <2>1 DEF Shape, Lost, Base
<1>3. CASE PageAnswered /\ UNCHANGED bounds
  <2>1. op.pc = "page" /\ UNCHANGED list /\ Base
    BY <1>3, CountedSteps DEF PageAnswered, server, Same, Base
  <2>2. CASE ReadsOn
    BY <2>1, <2>2 DEF Shape, GoesOn
  <2>3. CASE ReadFinds
    <3>1. PICK o \in readByIDFromList :
            Returns(IF Present(o) THEN Shown(o) ELSE NoRecord, {})
      BY <2>3 DEF ReadFinds
    <3>2. PICK i \in DOMAIN list : list[i] = o /\ o.id = op.id
      BY <2>1, <3>1, DataShows
    <3>3. CASE Present(o)
      BY <2>1, <3>1, <3>2, <3>3 DEF Shape, ReadBack
    <3>4. CASE ~Present(o)
      <4>1. IsGone
        BY <3>2, <3>4 DEF IsGone, Present, IInv, TypeOK
      <4>2. Returns(NoRecord, {})
        BY <3>1, <3>4
      <4> QED BY <2>1, <4>1, <4>2 DEF Shape, Lost
    <3> QED BY <3>3, <3>4
  <2>4. CASE ReadFindsNothing
    <3>1. readByIDFromList = {} /\ NoMorePages /\ Returns(NoRecord, Missed)
      BY <2>4 DEF ReadFindsNothing
    <3>2. IsGone \/ walk.moved = "shrunk"
      BY <2>1, <3>1, NothingFound
    <3>3. /\ Missed \in SUBSET {op.id}
          /\ walk.moved = "shrunk" => op.id \in Missed
      BY DEF Missed
    <3> QED BY <2>1, <3>1, <3>2, <3>3 DEF Shape, Lost
  <2> QED BY <1>1, <1>2, <1>3, <2>2, <2>3, <2>4 DEF Walk
<1> QED BY <1>1, <1>2, <1>3 DEF Walk

LEMMA UpdateShape ==
  ASSUME IInv, Update
  PROVE  Shape
<1>1. CASE CallFails("update")
  BY <1>1, CallFailsShape DEF Shape
<1>2. CASE /\ op.pc = "update" /\ On(list, op.id) = {}
           /\ UNCHANGED <<server, dialect, kind, want, result, bounds>>
           /\ Errs
  BY <1>2, RefusedShape DEF Shape
<1>3. CASE Put /\ (Fault \/ UNCHANGED bounds)
  <2>1. PICK pos \in DOMAIN list :
          /\ op.pc = "update" /\ list[pos].id = op.id
          /\ list' = [list EXCEPT ![pos].val = want.val]
          /\ UNCHANGED <<user, dialect, kind, want, result>>
    BY <1>3 DEF Put
  <2> DEFINE o == [list[pos] EXCEPT !.val = want.val]
  <2>2. list \in Seq(Object) /\ list[pos] \in Object /\ want.val \in 1..MaxVal
    BY <2>1 DEF IInv, TypeOK, Calls
  <2>3. /\ o \in Object /\ o.id = list[pos].id /\ o.note = list[pos].note
        /\ o.tied = list[pos].tied /\ o.mine = list[pos].mine
        /\ o.over = list[pos].over
    BY <2>2 DEF Object
  <2>4. list' = [list EXCEPT ![pos] = o]
    BY <2>1, <2>2
  <2> HIDE DEF o
  <2>5. user \/ kind # "group_membership" \/ ~o.tied
    BY <2>3 DEF IInv, Tied
  <2>6. /\ Moves /\ DOMAIN list' = DOMAIN list
        /\ \A k \in DOMAIN list : list'[k] = IF k = pos THEN o ELSE list[k]
    BY <2>1, <2>3, <2>4, <2>5, EditedMoves
  <2>7. Ours(list') \subseteq Ours(list)
    BY <2>3, <2>6, OursIs DEF Live
  <2>8. Base
    BY <1>3, <2>1, CountedSteps DEF Base, Same
  <2>9. CASE Errs
    BY <2>1, <2>6, <2>8, <2>9 DEF Shape, Fails
  <2>10. CASE ThenRead(op.id) /\ UNCHANGED <<state, excused>>
    BY <2>1, <2>6, <2>7, <2>8, <2>10 DEF Shape, Changed
  <2>11. Errs \/ (ThenRead(op.id) /\ UNCHANGED <<state, excused>>)
    BY DEF Update, CallFails
  <2> QED BY <2>9, <2>10, <2>11
<1> QED BY <1>1, <1>2, <1>3 DEF Update

LEMMA DeletedMoves ==
  ASSUME IInv, op.pc = "delete", Deleted, UNCHANGED user
  PROVE  /\ Moves /\ Ours(list') \subseteq Ours(list)
         /\ \A k \in DOMAIN list' : list'[k].id = op.id => ~Live(list'[k])
<1>1. PICK pos \in DOMAIN list :
        /\ list[pos].id = op.id
        /\ list' = CASE kind \in Users -> [list EXCEPT ![pos].over = TRUE]
                     [] kind = "group_membership" ->
                          [list EXCEPT ![pos].tied = FALSE, ![pos].mine = FALSE]
                     [] OTHER -> RemoveAt(list, pos)
  BY DEF Deleted
<1>2. list \in Seq(Object) /\ Unique(list) /\ list[pos] \in Object
  BY DEF IInv, TypeOK, Unique
<1>3. CASE kind \in Users
  <2> DEFINE o == [list[pos] EXCEPT !.over = TRUE]
  <2>1. /\ o \in Object /\ o.id = list[pos].id /\ o.note = list[pos].note
        /\ o.over = TRUE
    BY <1>2 DEF Object
  <2>2. list' = [list EXCEPT ![pos] = o]
    BY <1>1, <1>2, <1>3 DEF Users
  <2> HIDE DEF o
  <2>3. /\ Moves /\ DOMAIN list' = DOMAIN list
        /\ \A k \in DOMAIN list : list'[k] = IF k = pos THEN o ELSE list[k]
    <3>1. kind # "group_membership"
      BY <1>3 DEF Users
    <3> QED BY <2>1, <2>2, <3>1, EditedMoves
  <2>4. Ours(list') \subseteq Ours(list)
    BY <2>1, <2>3, OursIs DEF Live
  <2>5. \A k \in DOMAIN list' : list'[k].id = op.id => ~Live(list'[k])
    BY <1>1, <1>2, <2>1, <2>3 DEF Unique, Live
  <2> QED BY <2>3, <2>4, <2>5
<1>4. CASE kind = "group_membership"
  <2>1. Paired(op.id, FALSE)
    BY <1>1, <1>4 DEF Paired, Users
  <2> QED BY <1>4, <2>1, PairedMoves
<1>5. CASE kind \notin Users \cup {"group_membership"}
  <2>1. list' = RemoveAt(list, pos)
    BY <1>1, <1>5
  <2>2. /\ list' \in Seq(Object) /\ Unique(list')
        /\ \A k \in DOMAIN list' :
             \E i \in DOMAIN list : i # pos /\ list'[k] = list[i]
        /\ \A k \in DOMAIN list' : list'[k].id # list[pos].id
    BY <1>2, <2>1, RemoveKeeps
  <2>3. Moves
    BY <1>5, <2>2 DEF Moves
  <2>4. Ours(list') \subseteq Ours(list)
    BY <2>2, OursIs
  <2> QED BY <1>1, <2>2, <2>3, <2>4
<1> QED BY <1>3, <1>4, <1>5

(* What a delete tolerates is gone.                                        *)
LEMMA ToleratedIsGone ==
  ASSUME IInv, op.pc = "delete", DeleteAnswer # "ok", DeleteTolerates(DeleteAnswer)
  PROVE  IsGone
<1>1. CASE On(list, op.id) = {}
  BY <1>1, OnIs DEF IsGone
<1>2. CASE kind = "group_membership" /\ ~user
  BY <1>2 DEF IInv, Tied, IsGone, Live
<1>3. CASE On(list, op.id) # {} /\ ~(kind = "group_membership" /\ ~user)
  <2>1. DeleteAnswer \notin {"ok", "not_found", "conflict"}
    BY <1>3 DEF DeleteAnswer, DeleteTolerates, isMembershipAlreadyAbsent
  <2>2. kind = "group_membership" /\ ~(\E o \in On(list, op.id) : o.tied)
    BY <1>3, <2>1 DEF DeleteAnswer
  <2> QED BY <2>2, OnIs DEF IsGone, Live
<1> QED BY <1>1, <1>2, <1>3

LEMMA DeleteShape ==
  ASSUME IInv, DeleteAny
  PROVE  Shape
<1>1. CASE \E answer \in {"conflict", "broken"} : DeleteRefused(answer)
  <2>1. PICK answer \in {"conflict", "broken"} : DeleteRefused(answer)
    BY <1>1
  <2>2. ~DeleteTolerates(answer)
    BY DEF DeleteTolerates, isMembershipAlreadyAbsent
  <2> QED BY <2>1, <2>2, RefusedShape DEF DeleteRefused, DeleteReturns, Shape
<1>2. CASE Delete
  <2>1. /\ op.pc = "delete" /\ UNCHANGED user /\ Base
    BY <1>2, CountedSteps DEF Delete, Base, Same
  <2>2. CASE DeleteAnswer = "ok"
    <3>1. Deleted
      BY <1>2, <2>2 DEF Delete
    <3>2. /\ Moves /\ Ours(list') \subseteq Ours(list)
          /\ \A k \in DOMAIN list' : list'[k].id = op.id => ~Live(list'[k])
      BY <2>1, <3>1, DeletedMoves
    <3>3. Errs \/ Returns(NoRecord, {})
      BY <1>2 DEF Delete, DeleteReturns
    <3> QED BY <2>1, <3>2, <3>3 DEF Shape, Fails, Gone
  <2>3. CASE DeleteAnswer # "ok"
    <3>1. UNCHANGED list
      BY <1>2, <2>3 DEF Delete
    <3>2. Moves /\ Ours(list') = Ours(list)
      BY <2>1, <3>1, StaysMoves
    <3>3. CASE Errs
      BY <2>1, <3>2, <3>3 DEF Shape, Fails
    <3>4. CASE ~Errs
      <4>1. DeleteTolerates(DeleteAnswer) /\ Returns(NoRecord, {})
        BY <1>2, <3>4 DEF Delete, DeleteReturns
      <4>2. IsGone
        BY <2>1, <2>3, <4>1, ToleratedIsGone
      <4> QED BY <2>1, <3>1, <3>2, <4>1, <4>2 DEF Shape, Gone, IsGone
    <3> QED BY <3>3, <3>4
  <2> QED BY <2>2, <2>3
<1> QED BY <1>1, <1>2 DEF DeleteAny

LEMMA HandlerShapes ==
  ASSUME IInv, Handler, ~dataSourceUpdatableObjectsRead
  PROVE  Shape /\ kind \in Objects \cup Directory
<1>1. CASE \/ resourceGroupCreate \/ resourceObjectAddressesCreate
           \/ resourceObjectServicesCreate
  BY <1>1, CreateShape DEF resourceGroupCreate, resourceObjectAddressesCreate,
     resourceObjectServicesCreate, Objects, Directory
<1>2. CASE resourceUserCreate
  <2>1. CASE Create \/ NoIdIsAnError
    BY <1>2, <2>1, CreateShape DEF resourceUserCreate, Directory, Users
  <2>2. CASE /\ op.pc = "create"
             /\ UNCHANGED <<server, dialect, kind, want, result, bounds>>
             /\ Errs
    BY <1>2, <2>2, RefusedShape DEF resourceUserCreate, Shape, Directory, Users
  <2> QED BY <1>2, <2>1, <2>2 DEF resourceUserCreate
<1>3. CASE resourceGroupMembershipCreate
  BY <1>3, MembershipCreateShape DEF resourceGroupMembershipCreate, Directory, Users
<1>4. CASE \/ resourceGroupRead \/ resourceUserRead
           \/ resourceGroupMembershipRead \/ resourceObjectAddressesRead
           \/ resourceObjectServicesRead
  BY <1>4, ReadShape DEF resourceGroupRead, resourceUserRead,
     resourceGroupMembershipRead, resourceObjectAddressesRead,
     resourceObjectServicesRead, Objects, Directory
<1>5. CASE resourceObjectAddressesUpdate \/ resourceObjectServicesUpdate
  BY <1>5, UpdateShape DEF resourceObjectAddressesUpdate,
     resourceObjectServicesUpdate, Objects
<1>6. CASE \/ resourceGroupDelete \/ resourceUserDelete
           \/ resourceGroupMembershipDelete \/ resourceObjectAddressesDelete
           \/ resourceObjectServicesDelete
  BY <1>6, DeleteShape DEF resourceGroupDelete, resourceUserDelete,
     resourceGroupMembershipDelete, resourceObjectAddressesDelete,
     resourceObjectServicesDelete, Objects, Directory
<1> QED BY <1>1, <1>2, <1>3, <1>4, <1>5, <1>6 DEF Handler

-----------------------------------------------------------------------------
(* Every shape keeps the invariant                                         *)

LEMMA PlannedIs ==
  ASSUME NEW s \in Record, want \in [val : 0..MaxVal, note : 1..MaxVal]
  PROVE  \/ Planned(s) = Idle
         \/ /\ s.id = NoId /\ want.val # 0
            /\ Planned(s) = Does("create", "create", NoId)
         \/ s.id # NoId /\ Planned(s) = Does("delete", "destroy", s.id)
         \/ /\ s.id # NoId /\ Replaced(s)
            /\ Planned(s) = Does("delete", "replace", s.id)
         \/ /\ s.id # NoId /\ want.val # 0
            /\ Planned(s) = Does("update", "update", s.id)
BY DEF Planned

LEMMA OursPrime ==
  ASSUME kind' = kind
  PROVE  Ours(list)' = Ours(list')
BY DEF Ours, Live, ToSet

LEMMA NoWalkIs ==
  NoWalk = [page |-> 0, rows |-> <<>>, total |-> {}, moved |-> "no"]
BY DEF NoWalk, AtPageOne

LEMMA OursAreIds ==
  ASSUME NEW s \in Seq(Object)
  PROVE  Ours(s) \subseteq 1..MaxId
<1>1. \A i \in DOMAIN s : s[i].id \in 1..MaxId
  <2> TAKE i \in DOMAIN s
  <2>1. s[i] \in Object
    OBVIOUS
  <2> QED BY <2>1 DEF Object
<1> QED BY <1>1, OursIs

(* An operation ends, or goes on with what is planned.                     *)
LEMMA Rests ==
  ASSUME IInv, Moves, Counted,
         UNCHANGED <<kind, want, dialect>>, user' \in BOOLEAN,
         state' \in Record, state'.id = NoId => state' = NoRecord,
         excused' \subseteq 1..MaxId, walk' = NoWalk,
         op' = Idle \/ op' = Planned(state'),
         kind = "updatable_objects" => state' = NoRecord,
         Ours(list') \subseteq {state'.id} \cup excused',
         kind \in WriteOnly /\ state'.note # 0 =>
           \A k \in DOMAIN list' :
             list'[k].id = state'.id => list'[k].note = state'.note
  PROVE  IInv'
<1>1. /\ op'.pc \in {"idle", "create", "update", "delete"}
      /\ op' \in Operation
      /\ op'.pc = "idle" => op' = Idle
      /\ op'.pc = "create" =>
           op'.kind = "create" /\ op'.id = NoId /\ state'.id = NoId
      /\ op'.pc = "update" => op'.kind = "update"
      /\ op'.pc = "delete" => op'.kind \in {"destroy", "replace"}
      /\ op'.pc \in {"update", "delete"} =>
           op'.id = state'.id /\ op'.id # NoId
      /\ op'.pc \in {"create", "update"} => want.val # 0
      /\ op'.kind \in {"create", "import"} => state'.id = NoId
  <2>1. want \in [val : 0..MaxVal, note : 1..MaxVal]
    BY DEF IInv, TypeOK
  <2>2. state'.id \in 0..MaxId /\ NoId \in 0..MaxId
    BY DirectoryAssumption, PagesAssumption DEF Record, NoId
  <2>3. CASE op' = Idle
    BY <2>2, <2>3 DEF Idle, Operation
  <2>4. CASE op' = Planned(state')
    BY <2>1, <2>2, <2>4, PlannedIs DEF Idle, Does, Operation
  <2> QED BY <2>3, <2>4
<1>2. NoWalk \in Walks /\ NoWalk.total = {} /\ NoWalk.rows = <<>>
  BY NoWalkIs DEF Walks
<1>3. TypeOK'
  <2>1. Walking(walk)' /\ ToSet(walk.rows)' \subseteq Object
    BY <1>2 DEF Walking, Walks, ToSet
  <2>2. /\ list' \in Seq(Object)
        /\ \A i, j \in DOMAIN list' : list'[i].id = list'[j].id => i = j
    BY DEF Moves, Unique
  <2>3. op'.kind \in {"create", "import"} => state' = NoRecord
    BY <1>1
  <2> QED BY <1>1, <2>1, <2>2, <2>3 DEF IInv, TypeOK, Counted
<1>4. Calls'
  <2>1. kind = "updatable_objects" => op'.pc = "idle" /\ want.val = 0
    BY <1>1 DEF IInv, Calls, NoRecord, NoId
  <2> QED BY <1>1, <1>2, <2>1 DEF Calls
<1>5. Seen' /\ Gathered'
  BY <1>1 DEF Seen, Gathered
<1>6. Tied'
  BY DEF Moves, Tied
<1>7. Orphans'
  BY OursPrime DEF Orphans
<1>8. Notes'
  BY <1>1 DEF Notes
<1> QED BY <1>3, <1>4, <1>5, <1>6, <1>7, <1>8 DEF IInv

(* A walk begins.                                                          *)
LEMMA Begins ==
  ASSUME IInv, Moves, Counted,
         UNCHANGED <<kind, want, dialect, user, state, excused>>,
         kind # "updatable_objects", walk' = AtPageOne,
         NEW name \in {"create", "update", "plan", "import"}, NEW id \in 0..MaxId,
         op' = Does("page", name, id),
         name \in {"create", "import"} => state = NoRecord,
         name \in {"update", "plan"} => id = state.id /\ id # NoId,
         \/ name = "create" /\ id = NoId
         \/ Ours(list') \subseteq {state.id, id} \cup excused,
         name = "create" /\ id # NoId /\ kind \in WriteOnly =>
           \A k \in DOMAIN list' : list'[k].id = id => list'[k].note = want.note
  PROVE  IInv'
<1>1. /\ op' \in Operation /\ op'.pc = "page"
      /\ op'.kind = name /\ op'.id = id
  BY DEF Does, Operation
<1>2. /\ AtPageOne \in Walks /\ AtPageOne.total = {} /\ AtPageOne.rows = <<>>
      /\ AtPageOne.page = 1
  BY DEF AtPageOne, Walks
<1>3. TypeOK'
  <2>1. Walking(walk)' /\ ToSet(walk.rows)' \subseteq Object
    BY <1>2 DEF Walking, Walks, ToSet
  <2>2. /\ list' \in Seq(Object)
        /\ \A i, j \in DOMAIN list' : list'[i].id = list'[j].id => i = j
    BY DEF Moves, Unique
  <2> QED BY <1>1, <2>1, <2>2 DEF IInv, TypeOK, Counted
<1>4. Calls'
  BY <1>1, <1>2 DEF Calls
<1>5. Seen' /\ Gathered'
  <2>1. list' \in Seq(Object) /\ dialect' \in Dialect
    BY DEF Moves, IInv, TypeOK
  <2>2. Skipped(walk.page)' = 0
    <3>1. dialect' \in [pages : BOOLEAN, size : {1, PageSize},
                        totalPage : BOOLEAN, itemsTotal : BOOLEAN]
      BY <2>1 DEF Dialect
    <3>2. dialect'.size \in Nat
      BY <3>1, PagesAssumption
    <3> QED BY <1>2, <3>2 DEF Skipped
  <2> QED BY <1>1, <2>1, <2>2 DEF Seen, Gathered
<1>6. Tied'
  BY DEF Moves, Tied
<1>7. Orphans'
  BY <1>1, OursPrime DEF Orphans
<1>8. Notes'
  <2>1. ASSUME kind \in WriteOnly, state.note # 0, NEW k \in DOMAIN list',
               list'[k].id = state.id
        PROVE  list'[k].note = state.note
    BY <2>1 DEF Moves, IInv, Notes
  <2> QED BY <1>1, <2>1 DEF Notes
<1> QED BY <1>3, <1>4, <1>5, <1>6, <1>7, <1>8 DEF IInv

(* An Error, in any call.                                                  *)
LEMMA FailsKeeps ==
  ASSUME IInv, Fails, kind \in Objects \cup Directory
  PROVE  IInv'
<1>1. /\ UNCHANGED <<user, dialect, kind, want, result>> /\ Counted /\ Moves
      /\ op.pc \in {"create", "page", "update", "delete"}
      /\ op' = Idle /\ walk' = NoWalk
      /\ state' = IF op.kind = "create" /\ op.id # NoId
                  THEN [NoRecord EXCEPT !.id = op.id, !.tainted = TRUE]
                  ELSE state
      /\ excused' = (excused \cup Ours(list')) \ {state'.id}
  BY DEF Fails, Base, Same, Errs, Told
<1>2. CASE op.kind = "create" /\ op.id # NoId
  <2>1. state' = [id |-> op.id, tainted |-> TRUE, val |-> 0, note |-> 0]
    BY <1>1, <1>2 DEF NoRecord
  <2>2. op.id \in 0..MaxId
    BY DEF IInv, TypeOK, Operation
  <2>3. state' \in Record /\ state'.id # NoId /\ state'.note = 0
    BY <1>2, <2>1, <2>2, DirectoryAssumption DEF Record
  <2>4. excused' \subseteq 1..MaxId
    BY <1>1, OursAreIds DEF IInv, TypeOK, Moves
  <2>5. Ours(list') \subseteq {state'.id} \cup excused'
    BY <1>1
  <2>6. kind # "updatable_objects" /\ user' \in BOOLEAN
    BY <1>1 DEF Objects, Directory, Users, IInv, TypeOK
  <2> QED BY <1>1, <2>3, <2>4, <2>5, <2>6, Rests
<1>3. CASE ~(op.kind = "create" /\ op.id # NoId)
  <2>1. /\ state' = state /\ state' \in Record
        /\ state'.id = NoId => state' = NoRecord
    BY <1>1, <1>3 DEF IInv, TypeOK
  <2>2. excused' \subseteq 1..MaxId
    BY <1>1, OursAreIds DEF IInv, TypeOK, Moves
  <2>3. Ours(list') \subseteq {state'.id} \cup excused'
    BY <1>1
  <2>4. kind # "updatable_objects" /\ user' \in BOOLEAN
    BY <1>1 DEF Objects, Directory, Users, IInv, TypeOK
  <2>5. kind \in WriteOnly /\ state'.note # 0 =>
          \A k \in DOMAIN list' :
            list'[k].id = state'.id => list'[k].note = state'.note
    BY <1>1, <2>1 DEF Moves, IInv, Notes
  <2> QED BY <1>1, <2>1, <2>2, <2>3, <2>4, <2>5, Rests
<1> QED BY <1>2, <1>3

LEMMA MadeKeeps ==
  ASSUME IInv, Made, kind \in Objects \cup Directory
  PROVE  IInv'
<1>1. PICK id \in 0..MaxId :
        /\ op.pc = "create"
        /\ Base /\ Moves /\ ThenRead(id) /\ UNCHANGED <<state, excused>>
        /\ id # NoId => Ours(list') \subseteq Ours(list) \cup {id}
        /\ id # NoId /\ kind \in WriteOnly =>
             \A k \in DOMAIN list' : list'[k].id = id => list'[k].note = want.note
  BY DEF Made
<1>2. op.kind = "create" /\ op.id = NoId /\ state = NoRecord
  BY <1>1 DEF IInv, TypeOK, Calls
<1>3. op' = Does("page", "create", id) /\ walk' = AtPageOne
  BY <1>1, <1>2 DEF ThenRead, Does, IInv, TypeOK, Operation
<1>4. id # NoId => Ours(list') \subseteq {state.id, id} \cup excused
  <2>1. NoId \notin Ours(list)
    BY OursAreIds DEF IInv, TypeOK, NoId
  <2>2. Ours(list) \subseteq {state.id, op.id} \cup excused
    BY <1>1 DEF IInv, Orphans
  <2> QED BY <1>1, <1>2, <2>1, <2>2 DEF NoRecord
<1>5. UNCHANGED <<kind, want, dialect, user, state, excused>> /\ Counted
  BY <1>1 DEF Base, Same
<1>6. kind # "updatable_objects"
  BY DEF Objects, Directory, Users
<1> QED BY <1>1, <1>2, <1>3, <1>4, <1>5, <1>6, Begins

LEMMA ChangedKeeps ==
  ASSUME IInv, Changed, kind \in Objects \cup Directory
  PROVE  IInv'
<1>1. op.kind = "update" /\ op.id = state.id /\ op.id # NoId
  BY DEF Changed, IInv, TypeOK, Calls
<1>2. op' = Does("page", "update", op.id) /\ walk' = AtPageOne
  BY <1>1 DEF Changed, ThenRead, Does, IInv, TypeOK, Operation
<1>3. Ours(list') \subseteq {state.id, op.id} \cup excused
  BY <1>1 DEF Changed, IInv, Orphans
<1>4. /\ UNCHANGED <<kind, want, dialect, user, state, excused>> /\ Counted
      /\ Moves /\ op.id \in 0..MaxId
  BY DEF Changed, Base, Same, IInv, TypeOK, Operation
<1>5. kind # "updatable_objects"
  BY DEF Objects, Directory, Users
<1> QED BY <1>1, <1>2, <1>3, <1>4, <1>5, Begins

LEMMA GoesOnKeeps ==
  ASSUME IInv, GoesOn, kind \in Objects \cup Directory
  PROVE  IInv'
<1>1. /\ UNCHANGED <<user, dialect, kind, want, result, list, state, op, excused>>
      /\ Counted /\ op.pc = "page"
      /\ readByIDFromList = {} /\ ~NoMorePages
      /\ walk' = [walk EXCEPT !.page = @ + 1]
  BY DEF GoesOn, Base, Same, ReadsOn
<1>2. /\ walk \in Walks /\ walk.page \in Nat \ {0}
      /\ \A m, n \in walk.total : m = n /\ n \in Nat
      /\ ToSet(walk.rows) \subseteq Object
  BY <1>1 DEF IInv, TypeOK, Calls, Walks, Walking
<1>3. /\ walk' \in Walks /\ walk'.page = walk.page + 1
      /\ walk'.rows = walk.rows /\ walk'.total = walk.total
      /\ walk'.moved = walk.moved
  BY <1>1, <1>2 DEF Walks
<1>4. TypeOK'
  <2>1. Walking(walk)' /\ ToSet(walk.rows)' \subseteq Object
    BY <1>2, <1>3 DEF Walking, Walks, ToSet
  <2> QED BY <1>1, <2>1 DEF IInv, TypeOK, Counted
<1>5. Calls'
  <2>1. walk'.page # 0
    BY <1>2, <1>3
  <2> QED BY <1>1, <1>3, <2>1 DEF IInv, Calls
<1>6. Seen'
  <2> SUFFICES ASSUME kind \in Directory, walk.moved # "shrunk",
                      NEW i \in DOMAIN list, list[i].id = op.id
               PROVE  i > Skipped(walk.page)'
    BY <1>1, <1>3 DEF Seen
  <2>1. i > Skipped(walk.page) + dialect.size
    BY <1>1, NothingFound DEF Objects, Directory, Users
  <2>2. Skipped(walk.page)' = Skipped(walk.page + 1)
    BY <1>1, <1>3 DEF Skipped
  <2>3. Skipped(walk.page + 1) = Skipped(walk.page) + dialect.size
    BY <1>2, SkippedFacts DEF IInv, TypeOK
  <2> QED BY <2>1, <2>2, <2>3
<1>7. Tied' /\ Notes' /\ Gathered'
  BY <1>1 DEF IInv, Tied, Notes, Gathered
<1>8. Orphans'
  BY <1>1, OursPrime DEF IInv, Orphans
<1> QED BY <1>4, <1>5, <1>6, <1>7, <1>8 DEF IInv

(* What the record shows of an object.                                     *)
LEMMA ShownIs ==
  ASSUME IInv, op.pc = "page", kind \in Objects \cup Directory,
         NEW i \in DOMAIN list
  PROVE  /\ Shown(list[i]) \in Record /\ Shown(list[i]).id = list[i].id
         /\ list[i].id \in 1..MaxId /\ list[i].id # NoId
         /\ Shown(list[i]).val = Val(list[i])
         /\ Shown(list[i]).tainted = (op.kind = "plan" /\ state.tainted)
         /\ op.kind = "import" => Shown(list[i]).note = 0
         /\ op.kind = "create" => Shown(list[i]).note = want.note
         /\ op.kind \in {"update", "plan"} => Shown(list[i]).note = state.note
<1>1. list[i] \in Object /\ state \in Record /\ want.note \in 1..MaxVal
  BY DEF IInv, TypeOK
<1>2. list[i].id \in 1..MaxId /\ list[i].id # NoId /\ Val(list[i]) \in Nat
  BY <1>1, DirectoryAssumption DEF Object, Val, NoId
<1>3. op.kind \in {"create", "update", "plan", "import"}
  BY DEF IInv, Calls
<1> DEFINE note == CASE op.kind = "import" -> 0
                     [] op.kind = "create" -> want.note
                     [] op.kind \notin {"import", "create"} -> state.note
<1>4. /\ op.kind = "import" => note = 0
      /\ op.kind = "create" => note = want.note
      /\ op.kind \in {"update", "plan"} => note = state.note
  BY <1>3
<1>5. note \in 0..MaxVal
  BY <1>1, <1>3, <1>4, DirectoryAssumption DEF Record
<1>6. Shown(list[i]) = [id |-> list[i].id,
                        tainted |-> op.kind = "plan" /\ state.tainted,
                        val |-> Val(list[i]), note |-> note]
  BY DEF Shown
<1> HIDE DEF note
<1>7. (op.kind = "plan" /\ state.tainted) \in BOOLEAN
  OBVIOUS
<1>8. Shown(list[i]) \in Record
  BY <1>2, <1>5, <1>6, <1>7, DirectoryAssumption DEF Record
<1> QED BY <1>2, <1>4, <1>6, <1>8

(* Nobody is left with an object that nobody knows of.                     *)
LEMMA KnownAre ==
  ASSUME IInv, op.pc # "page" \/ op.id # NoId
  PROVE  /\ Ours(list) \subseteq {state.id, op.id} \cup excused
         /\ NoId \notin Ours(list)
<1>1. Ours(list) \subseteq {state.id, op.id} \cup excused
  BY DEF IInv, Orphans
<1>2. list \in Seq(Object)
  BY DEF IInv, TypeOK
<1>3. Ours(list) \subseteq 1..MaxId
  BY <1>2, OursAreIds
<1> QED BY <1>1, <1>3 DEF NoId

LEMMA ReadBackKeeps ==
  ASSUME IInv, ReadBack, kind \in Objects \cup Directory
  PROVE  IInv'
<1>1. PICK i \in DOMAIN list :
        /\ op.pc = "page" /\ Base /\ UNCHANGED list
        /\ list[i].id = op.id /\ Returns(Shown(list[i]), {})
  BY DEF ReadBack
<1> DEFINE s == Shown(list[i])
<1>2. /\ s \in Record /\ s.id = op.id /\ op.id \in 1..MaxId /\ op.id # NoId
      /\ op.kind = "import" => s.note = 0
      /\ op.kind = "create" => s.note = want.note
      /\ op.kind \in {"update", "plan"} => s.note = state.note
  BY <1>1, ShownIs
<1> HIDE DEF s
<1>3. /\ state' = s /\ walk' = NoWalk
      /\ op' = Idle \/ op' = Planned(s)
      /\ excused' = excused \ {op.id}
  BY <1>1, <1>2 DEF Returns, s
<1>4. /\ UNCHANGED <<user, dialect, kind, want, result>> /\ Counted
      /\ UNCHANGED list
  BY <1>1 DEF Base, Same
<1>5. Moves /\ Ours(list') = Ours(list)
  BY <1>4, StaysMoves
<1>6. op.kind \in {"create", "update", "plan", "import"}
  BY <1>1 DEF IInv, Calls
<1>7. \/ op.kind \in {"create", "import"} /\ state = NoRecord
      \/ op.kind \in {"update", "plan"} /\ state.id = op.id
  BY <1>1, <1>6 DEF IInv, TypeOK, Calls
<1>8. Ours(list') \subseteq {op.id} \cup excused'
  <2>1. Ours(list) \subseteq {state.id, op.id} \cup excused /\ NoId \notin Ours(list)
    BY <1>2, KnownAre
  <2> QED BY <1>3, <1>5, <1>7, <2>1 DEF NoRecord
<1>9. ASSUME kind \in WriteOnly, s.note # 0, NEW k \in DOMAIN list',
             list'[k].id = op.id
      PROVE  list'[k].note = s.note
  <2>1. CASE op.kind = "create"
    BY <1>1, <1>2, <1>4, <1>9, <2>1 DEF IInv, Notes
  <2>2. CASE op.kind \in {"update", "plan"}
    BY <1>2, <1>4, <1>7, <1>9, <2>2 DEF IInv, Notes
  <2> QED BY <1>2, <1>6, <1>9, <2>1, <2>2
<1>10. excused' \subseteq 1..MaxId /\ user' \in BOOLEAN
  BY <1>3, <1>4 DEF IInv, TypeOK
<1>11. kind # "updatable_objects"
  BY DEF Objects, Directory, Users
<1> QED BY <1>2, <1>3, <1>4, <1>5, <1>8, <1>9, <1>10, <1>11, Rests

(* An operation that ends with no record.                                  *)
LEMMA NothingKeeps ==
  ASSUME IInv, Moves, Base, kind \in Objects \cup Directory,
         NEW missed \in SUBSET (1..MaxId), Returns(NoRecord, missed),
         op.kind \notin {"create", "update", "import"} =>
           Ours(list') \subseteq excused \cup missed
  PROVE  IInv'
<1>1. /\ UNCHANGED <<user, dialect, kind, want, result>> /\ Counted
      /\ state' = NoRecord /\ walk' = NoWalk
      /\ op' = Idle \/ op' = Planned(NoRecord)
  BY DEF Base, Same, Returns
<1>2. NoRecord \in Record /\ NoRecord.id = NoId /\ NoRecord.note = 0
  <2>1. 0 \in 0..MaxId /\ 0 \in 0..MaxVal
    BY DirectoryAssumption
  <2> QED BY <2>1 DEF NoRecord, Record, NoId
<1>3. Ours(list') \subseteq 1..MaxId /\ NoId \notin 1..MaxId
  BY OursAreIds DEF Moves, NoId
<1>4. excused \subseteq 1..MaxId /\ user' \in BOOLEAN
  BY <1>1 DEF IInv, TypeOK
<1>5. excused' \subseteq 1..MaxId /\ Ours(list') \subseteq {NoId} \cup excused'
  <2>1. CASE op.kind \in {"create", "update", "import"}
    <3>1. excused' = (excused \cup Ours(list')) \ {NoId}
      BY <1>2, <2>1 DEF Returns, Told
    <3> QED BY <1>3, <1>4, <3>1
  <2>2. CASE op.kind \notin {"create", "update", "import"}
    <3>1. excused' = (excused \cup missed) \ {NoId}
      BY <1>2, <2>2 DEF Returns
    <3> QED BY <1>3, <1>4, <2>2, <3>1
  <2> QED BY <2>1, <2>2
<1> QED BY <1>1, <1>2, <1>5, <1>4, Rests

LEMMA LostKeeps ==
  ASSUME IInv, Lost, kind \in Objects \cup Directory
  PROVE  IInv'
<1>1. PICK missed \in SUBSET {op.id} :
        /\ op.pc = "page" /\ Base /\ UNCHANGED list
        /\ IsGone \/ op.id \in missed
        /\ Returns(NoRecord, missed)
  BY DEF Lost
<1>2. Moves /\ Ours(list') = Ours(list)
  BY <1>1, StaysMoves DEF Base, Same
<1>3. CASE op.kind \in {"create", "update", "import"}
  <2>1. Returns(NoRecord, {})
    BY <1>1, <1>3 DEF Returns, NoRecord
  <2> QED BY <1>1, <1>2, <1>3, <2>1, NothingKeeps
<1>4. CASE op.kind \notin {"create", "update", "import"}
  <2>1. op.id = state.id /\ op.id # NoId /\ op.id \in 0..MaxId
    BY <1>1, <1>4 DEF IInv, TypeOK, Calls, Operation
  <2>2. missed \in SUBSET (1..MaxId)
    BY <2>1, DirectoryAssumption DEF NoId
  <2>3. Ours(list) \subseteq {op.id} \cup excused
    BY <2>1, KnownAre
  <2>4. IsGone => op.id \notin Ours(list)
    BY OursIs DEF IsGone
  <2>5. Ours(list') \subseteq excused \cup missed
    BY <1>1, <1>2, <2>3, <2>4
  <2> QED BY <1>1, <1>2, <2>2, <2>5, NothingKeeps
<1> QED BY <1>3, <1>4

LEMMA GoneKeeps ==
  ASSUME IInv, Gone, kind \in Objects \cup Directory
  PROVE  IInv'
<1>1. /\ op.pc = "delete" /\ Base /\ Moves /\ Returns(NoRecord, {})
      /\ Ours(list') \subseteq Ours(list)
      /\ \A k \in DOMAIN list' : list'[k].id = op.id => ~Live(list'[k])
  BY DEF Gone
<1>2. op.id = state.id
  BY <1>1 DEF IInv, TypeOK
<1>3. Ours(list) \subseteq {op.id} \cup excused
  BY <1>1, <1>2, KnownAre
<1>4. op.id \notin Ours(list')
  BY <1>1, OursIs
<1>5. Ours(list') \subseteq excused \cup {}
  BY <1>1, <1>3, <1>4
<1> QED BY <1>1, <1>5, NothingKeeps

LEMMA ShapeKeeps ==
  ASSUME IInv, Handler, ~dataSourceUpdatableObjectsRead
  PROVE  IInv'
<1>1. Shape /\ kind \in Objects \cup Directory
  BY HandlerShapes
<1> QED BY <1>1, FailsKeeps, MadeKeeps, ChangedKeeps, GoesOnKeeps, ReadBackKeeps,
           LostKeeps, GoneKeeps DEF Shape

-----------------------------------------------------------------------------
(* The data source gathers                                                 *)

(* A page that brings anything new is not the first one again.             *)
LEMMA ProgressPages ==
  ASSUME IInv, op.pc = "catalogue", walk.moved = "no",
         ~NoProgress(Page(walk.page))
  PROVE  dialect.pages \/ walk.page = 1
<1>1. /\ list \in Seq(Object) /\ dialect \in Dialect
      /\ walk.page \in Nat \ {0}
  BY DEF IInv, TypeOK, Calls, Walks
<1>2. /\ Len(walk.rows) = Skipped(walk.page)
      /\ Skipped(walk.page) <= Len(list)
      /\ \A i \in DOMAIN walk.rows : walk.rows[i] = list[i]
      /\ dialect.pages \/ walk.page \in {1, 2}
  BY DEF IInv, Gathered
<1> QED
  <2> SUFFICES ASSUME ~dialect.pages, walk.page = 2
               PROVE  FALSE
    BY <1>2
  <2>1. Page(2) = Page(1)
    BY DEF Page
  <2>2. /\ Page(1) \in Seq(Object) /\ Skipped(1) = 0
        /\ dialect.size \in Nat \ {0}
        /\ Len(Page(1)) <= dialect.size
        /\ dialect.size <= Len(list) => Len(Page(1)) = dialect.size
        /\ \A j \in DOMAIN Page(1) :
             Skipped(1) + j \in DOMAIN list /\ Page(1)[j] = list[Skipped(1) + j]
    <3>1. 1 \in Nat \ {0} /\ Len(list) \in Nat
      BY <1>1
    <3>2. /\ dialect.size \in Nat \ {0} /\ Skipped(1) = 0
      BY <1>1, <3>1, SkippedFacts
    <3>3. /\ Page(1) \in Seq(Object)
          /\ Len(Page(1)) = IF Skipped(1) + dialect.size <= Len(list)
                            THEN dialect.size
                            ELSE IF Skipped(1) < Len(list)
                                 THEN Len(list) - Skipped(1) ELSE 0
          /\ \A j \in DOMAIN Page(1) :
               Skipped(1) + j \in DOMAIN list /\ Page(1)[j] = list[Skipped(1) + j]
      BY <1>1, <3>1, PageShows
    <3>4. /\ Len(Page(1)) <= dialect.size
          /\ dialect.size <= Len(list) => Len(Page(1)) = dialect.size
      BY <3>1, <3>2, <3>3
    <3> QED BY <3>2, <3>3, <3>4
  <2>3. Skipped(2) = dialect.size
    <3>1. 1 \in Nat \ {0} /\ 1 + 1 = 2
      OBVIOUS
    <3>2. Skipped(1 + 1) = Skipped(1) + dialect.size
      BY <1>1, <3>1, SkippedFacts
    <3> QED BY <2>2, <3>1, <3>2
  <2>4. /\ walk.rows \in Seq(Object) /\ Len(walk.rows) = dialect.size
    BY <1>2, <2>3 DEF IInv, Calls, Walks
  <2>5. ASSUME NEW j \in DOMAIN Page(1) PROVE Page(1)[j] \in ToSet(walk.rows)
    <3>1. j \in 1..Len(Page(1)) /\ 0 + j = j
      BY <2>2
    <3>2. j \in DOMAIN walk.rows /\ Page(1)[j] = list[j]
      BY <2>2, <2>4, <3>1
    <3>3. walk.rows[j] = list[j]
      BY <1>2, <3>2
    <3> QED BY <3>2, <3>3 DEF ToSet
  <2>6. countNewUpdatableObjects(Page(2)) = {}
    BY <2>1, <2>5 DEF countNewUpdatableObjects, ToSet
  <2>7. Page(1) # <<>>
    <3>1. Len(Page(1)) = dialect.size
      BY <1>2, <2>2, <2>3
    <3> QED BY <2>2, <3>1
  <2>8. 2 > 1
    OBVIOUS
  <2> QED BY <2>1, <2>6, <2>7, <2>8 DEF NoProgress

(* How many rows a page has.                                               *)
LEMMA PageIsFull ==
  ASSUME IInv, op.pc = "catalogue", walk.moved = "no",
         Page(walk.page) # <<>>, ~NoProgress(Page(walk.page)),
         ~LastPage(Page(walk.page))
  PROVE  /\ dialect.pages \/ walk.page = 1
         /\ Skipped(walk.page) + dialect.size <= Len(list)
         /\ Len(Page(walk.page)) = dialect.size
<1>1. /\ list \in Seq(Object) /\ dialect \in Dialect
      /\ walk.page \in Nat \ {0}
  BY DEF IInv, TypeOK, Calls, Walks
<1>3. dialect.pages \/ walk.page = 1
  BY ProgressPages
<1>4. /\ dialect.size \in Nat \ {0} /\ Len(list) \in Nat
      /\ Skipped(walk.page) \in Nat
      /\ walk.page >= TotalPage <=>
           Len(list) <= Skipped(walk.page) + dialect.size
  <2>1. Len(list) \in Nat
    BY <1>1
  <2>2. dialect.size \in Nat \ {0}
    BY <1>1, SkippedFacts
  <2>3. Skipped(walk.page) \in Nat
    BY <1>1, SkippedFacts
  <2>4. walk.page >= TotalPage <=>
          Len(list) <= Skipped(walk.page) + dialect.size
    BY <1>1, SkippedFacts
  <2> QED BY <2>1, <2>2, <2>3, <2>4
<1>5. Len(Page(walk.page)) = IF Skipped(walk.page) + dialect.size <= Len(list)
                             THEN dialect.size
                             ELSE IF Skipped(walk.page) < Len(list)
                                  THEN Len(list) - Skipped(walk.page) ELSE 0
  BY <1>1, <1>3, PageShows
<1>6. Skipped(walk.page) + dialect.size <= Len(list)
  <2>1. CASE dialect.totalPage
    <3>1. ~(walk.page >= TotalPage)
      BY <2>1 DEF LastPage
    <3> QED BY <1>4, <3>1
  <2>2. CASE ~dialect.totalPage
    <3>1. ~(Len(Page(walk.page)) < PageSize)
      BY <2>2 DEF LastPage
    <3>2. dialect.size \in {1, PageSize} /\ PageSize \in Nat \ {0}
      BY <1>1, PagesAssumption DEF Dialect
    <3> QED BY <1>4, <1>5, <3>1, <3>2
  <2> QED BY <2>1, <2>2
<1> QED BY <1>3, <1>5, <1>6

(* The rows and a page are the pages up to it.                             *)
LEMMA RowsAndPage ==
  ASSUME IInv, op.pc = "catalogue", walk.moved = "no",
         dialect.pages \/ walk.page = 1
  PROVE  LET data == Page(walk.page) IN
         /\ walk.rows \o data \in Seq(Object)
         /\ Len(walk.rows \o data) = Skipped(walk.page) + Len(data)
         /\ Len(walk.rows \o data) <= Len(list)
         /\ \A i \in DOMAIN (walk.rows \o data) : (walk.rows \o data)[i] = list[i]
<1> DEFINE data == Page(walk.page)
<1>1. /\ list \in Seq(Object) /\ dialect \in Dialect
      /\ walk.page \in Nat \ {0} /\ walk.rows \in Seq(Object)
  BY DEF IInv, TypeOK, Calls, Walks
<1>2. /\ Len(walk.rows) = Skipped(walk.page)
      /\ Skipped(walk.page) <= Len(list)
      /\ \A i \in DOMAIN walk.rows : walk.rows[i] = list[i]
  BY DEF IInv, Gathered
<1>3. dialect.size \in Nat \ {0} /\ Skipped(walk.page) \in Nat /\ Len(list) \in Nat
  <2>1. Len(list) \in Nat
    BY <1>1
  <2>2. dialect.size \in Nat \ {0}
    BY <1>1, SkippedFacts
  <2>3. Skipped(walk.page) \in Nat
    BY <1>1, SkippedFacts
  <2> QED BY <2>1, <2>2, <2>3
<1>4. /\ data \in Seq(Object)
      /\ Len(data) = IF Skipped(walk.page) + dialect.size <= Len(list)
                     THEN dialect.size
                     ELSE IF Skipped(walk.page) < Len(list)
                          THEN Len(list) - Skipped(walk.page) ELSE 0
      /\ \A j \in DOMAIN data :
           /\ Skipped(walk.page) + j \in DOMAIN list
           /\ data[j] = list[Skipped(walk.page) + j]
  BY <1>1, PageShows
<1> HIDE DEF data
<1>5. Skipped(walk.page) + Len(data) <= Len(list) /\ Len(data) \in Nat
  BY <1>2, <1>3, <1>4
<1>6. /\ walk.rows \o data \in Seq(Object)
      /\ Len(walk.rows \o data) = Len(walk.rows) + Len(data)
      /\ \A i \in 1..Len(walk.rows) + Len(data) :
           (walk.rows \o data)[i] =
             IF i <= Len(walk.rows) THEN walk.rows[i] ELSE data[i - Len(walk.rows)]
  BY <1>1, <1>4, ConcatProperties
<1>7. ASSUME NEW i \in DOMAIN (walk.rows \o data)
      PROVE  (walk.rows \o data)[i] = list[i]
  <2>1. i \in 1..Skipped(walk.page) + Len(data)
    BY <1>2, <1>6
  <2>2. CASE i <= Skipped(walk.page)
    <3>1. i \in DOMAIN walk.rows
      BY <1>1, <1>2, <1>3, <2>1, <2>2
    <3> QED BY <1>2, <1>6, <2>1, <2>2, <3>1
  <2>3. CASE ~(i <= Skipped(walk.page))
    <3>1. /\ i - Skipped(walk.page) \in 1..Len(data)
          /\ Skipped(walk.page) + (i - Skipped(walk.page)) = i
      BY <1>3, <1>5, <2>1, <2>3
    <3>2. i - Skipped(walk.page) \in DOMAIN data
      BY <1>4, <3>1
    <3>3. (walk.rows \o data)[i] = data[i - Skipped(walk.page)]
      BY <1>2, <1>6, <2>1, <2>3
    <3>4. data[i - Skipped(walk.page)] = list[i]
      BY <1>4, <3>1, <3>2
    <3> QED BY <3>3, <3>4
  <2> QED BY <2>2, <2>3
<1> QED BY <1>2, <1>5, <1>6, <1>7 DEF data

LEMMA StartsKeeps ==
  ASSUME IInv, DataSourceStarts
  PROVE  IInv'
<1>1. /\ kind = "updatable_objects" /\ op = Idle
      /\ op' = Does("catalogue", "plan", NoId) /\ walk' = AtPageOne
      /\ UNCHANGED <<list, user, dialect, kind, state, want, excused, faults, edits>>
  BY DEF DataSourceStarts, server, bounds
<1>2. /\ op' \in Operation /\ op'.pc = "catalogue" /\ op'.kind = "plan"
      /\ op'.id = NoId
  <2>1. NoId \in 0..MaxId
    BY DirectoryAssumption DEF NoId
  <2> QED BY <1>1, <2>1 DEF Does, Operation
<1>3. /\ walk' \in Walks /\ walk'.total = {} /\ walk'.rows = <<>>
      /\ walk'.page = 1
  BY <1>1 DEF AtPageOne, Walks
<1>4. TypeOK'
  <2>1. Walking(walk)' /\ ToSet(walk.rows)' \subseteq Object
    BY <1>3 DEF Walking, Walks, ToSet
  <2> QED BY <1>1, <1>2, <2>1 DEF IInv, TypeOK
<1>5. Calls'
  BY <1>1, <1>2, <1>3 DEF IInv, Calls
<1>6. Seen' /\ Tied' /\ Notes'
  BY <1>1, <1>2 DEF Seen, IInv, Tied, Notes, Directory, WriteOnly, Users
<1>7. Orphans'
  <2>1. op.id = NoId /\ op'.id = NoId /\ op.pc # "page"
    BY <1>1 DEF Does, Idle
  <2> QED BY <1>1, <2>1, OursPrime DEF IInv, Orphans
<1>8. Gathered'
  <2>1. list \in Seq(Object) /\ dialect \in Dialect /\ 1 \in Nat \ {0}
    BY DEF IInv, TypeOK
  <2>2. Skipped(1) = 0
    BY <2>1, SkippedFacts
  <2>3. Skipped(walk.page)' = 0
    BY <1>1, <1>3, <2>2 DEF Skipped
  <2>4. 0 <= Len(list') /\ Len(walk'.rows) = 0 /\ DOMAIN walk'.rows = {}
    BY <1>1, <1>3, <2>1
  <2> QED BY <1>3, <2>3, <2>4 DEF Gathered
<1> QED BY <1>4, <1>5, <1>6, <1>7, <1>8 DEF IInv

LEMMA CatalogueGoesOnKeeps ==
  ASSUME IInv, op.pc = "catalogue", CatalogueGoesOn,
         UNCHANGED <<list, user, dialect, kind, state, want, op, excused,
                     faults, edits>>
  PROVE  IInv'
<1> DEFINE data == Page(walk.page)
<1>1. /\ data # <<>> /\ ~NoProgress(data) /\ ~LastPage(data)
      /\ walk' = [walk EXCEPT !.page = @ + 1, !.rows = @ \o data, !.total = Total]
  BY DEF CatalogueGoesOn
<1>2. /\ list \in Seq(Object) /\ dialect \in Dialect
      /\ walk \in Walks /\ walk.page \in Nat \ {0} /\ walk.rows \in Seq(Object)
      /\ kind = "updatable_objects"
  BY DEF IInv, TypeOK, Calls, Walks
<1>3. data \in Seq(Object)
  <2>1. CASE dialect.pages \/ walk.page = 1
    BY <1>2, <2>1, PageShows
  <2>2. CASE ~dialect.pages
    <3>1. data = Page(1)
      BY <2>2 DEF Page
    <3>2. 1 \in Nat \ {0}
      OBVIOUS
    <3>3. Page(1) \in Seq(Object)
      BY <1>2, <3>2, PageShows
    <3> QED BY <3>1, <3>3
  <2> QED BY <2>1, <2>2
<1> HIDE DEF data
<1>4. /\ Total \in SUBSET Nat /\ \A m, n \in Total : m = n /\ n \in Nat
  <2>1. Len(list) \in Nat
    BY <1>2
  <2>2. /\ walk.total \in SUBSET Nat
        /\ \A m, n \in walk.total : m = n /\ n \in Nat
    BY DEF IInv, TypeOK, Walking, Calls, Walks
  <2> QED BY <2>1, <2>2 DEF Total
<1>5. walk.rows \o data \in Seq(Object)
  BY <1>2, <1>3, ConcatProperties
<1>6. /\ walk' \in Walks /\ walk'.page = walk.page + 1 /\ walk'.page # 0
      /\ walk'.rows = walk.rows \o data /\ walk'.total = Total
      /\ walk'.moved = walk.moved
  <2>1. walk.page + 1 \in Nat /\ walk.page + 1 # 0
    BY <1>2
  <2> QED BY <1>1, <1>2, <1>4, <1>5, <2>1 DEF Walks
<1>7. TypeOK'
  <2>1. ToSet(walk'.rows) \subseteq Object
    BY <1>5, <1>6 DEF ToSet
  <2>2. walk'.moved \in {"no", "grown", "shrunk"} /\ walk'.page \in Nat
    BY <1>6 DEF Walks
  <2>3. Walking(walk)' /\ ToSet(walk.rows)' \subseteq Object
    BY <1>4, <1>6, <2>1, <2>2 DEF Walking, ToSet
  <2> QED BY <2>3 DEF IInv, TypeOK
<1>8. Calls'
  BY <1>6 DEF IInv, Calls
<1>9. Seen' /\ Tied' /\ Notes'
  BY <1>2 DEF Seen, Tied, Notes, Directory, WriteOnly, Users
<1>10. Orphans'
  BY OursPrime DEF IInv, Orphans
<1>11. Gathered'
  <2> SUFFICES ASSUME walk.moved = "no"
               PROVE  /\ Len(walk'.rows) = Skipped(walk.page)'
                      /\ Skipped(walk.page)' <= Len(list')
                      /\ \A i \in DOMAIN walk'.rows : walk'.rows[i] = list'[i]
                      /\ dialect.pages \/ walk'.page \in {1, 2}
                      /\ dialect.itemsTotal => walk'.total = {Len(list)}
    BY <1>6 DEF Gathered
  <2>1. /\ dialect.pages \/ walk.page = 1
        /\ Skipped(walk.page) + dialect.size <= Len(list)
        /\ Len(data) = dialect.size
    BY <1>1, PageIsFull DEF data
  <2>2. /\ Len(walk.rows \o data) = Skipped(walk.page) + Len(data)
        /\ \A i \in DOMAIN (walk.rows \o data) : (walk.rows \o data)[i] = list[i]
    BY <2>1, RowsAndPage DEF data
  <2>3. Skipped(walk.page)' = Skipped(walk.page + 1)
    BY <1>6 DEF Skipped
  <2>4. Skipped(walk.page + 1) = Skipped(walk.page) + dialect.size
    BY <1>2, SkippedFacts
  <2>5. dialect.pages \/ walk'.page \in {1, 2}
    BY <1>6, <2>1
  <2>6. ASSUME dialect.itemsTotal PROVE walk'.total = {Len(list)}
    <3>1. CASE walk.page = 1
      BY <1>6, <2>6, <3>1 DEF Total
    <3>2. CASE walk.page # 1
      <4>1. walk.page > 1
        BY <1>2, <3>2
      <4>2. walk.total = {Len(list)}
        BY <2>6, <4>1 DEF IInv, Gathered
      <4> QED BY <1>6, <3>2, <4>2 DEF Total
    <3> QED BY <3>1, <3>2
  <2> QED BY <1>6, <2>1, <2>2, <2>3, <2>4, <2>5, <2>6
<1> QED BY <1>7, <1>8, <1>9, <1>10, <1>11 DEF IInv

(* The read ends, with a result or an error.                               *)
LEMMA CatalogueStopsKeeps ==
  ASSUME IInv, op.pc = "catalogue", op' = Idle, walk' = NoWalk,
         UNCHANGED <<list, user, dialect, kind, state, want, excused>>,
         Fault \/ UNCHANGED bounds
  PROVE  IInv'
<1>1. Counted /\ UNCHANGED <<list, user>>
  BY CountedSteps
<1>2. Moves
  BY <1>1, StaysMoves
<1>3. kind = "updatable_objects" /\ state' = NoRecord /\ state = NoRecord
  BY DEF IInv, Calls
<1>4. Ours(list') \subseteq {state'.id} \cup excused'
  <2>1. op.id \in {NoId} \cup {op.id} /\ op.pc # "page"
    OBVIOUS
  <2>2. Ours(list) \subseteq {state.id, op.id} \cup excused
    BY <2>1, KnownAre
  <2>3. op.id = NoId
    BY DEF IInv, Calls
  <2> QED BY <2>2, <2>3, <1>3 DEF NoRecord
<1>5. /\ state' \in Record /\ excused' \subseteq 1..MaxId /\ user' \in BOOLEAN
  BY DEF IInv, TypeOK
<1>6. kind \notin WriteOnly
  BY <1>3 DEF WriteOnly, Users
<1> QED BY <1>1, <1>2, <1>3, <1>4, <1>5, <1>6, Rests

LEMMA DataSourceKeeps ==
  ASSUME IInv, dataSourceUpdatableObjectsRead
  PROVE  IInv'
<1>1. /\ op.pc = "catalogue"
      /\ UNCHANGED <<list, user, dialect, kind, state, want, excused>>
  BY DEF dataSourceUpdatableObjectsRead, server
<1>2. CASE UNCHANGED bounds /\ CatalogueGoesOn /\ UNCHANGED <<op, result>>
  BY <1>1, <1>2, CatalogueGoesOnKeeps DEF bounds
<1>3. CASE UNCHANGED bounds /\ op' = Idle /\ walk' = NoWalk
  BY <1>1, <1>3, CatalogueStopsKeeps
<1>4. CASE CatalogueFails
  BY <1>1, <1>4, CatalogueStopsKeeps DEF CatalogueFails
<1> QED BY <1>2, <1>3, <1>4 DEF dataSourceUpdatableObjectsRead, CataloguePage

LEMMA HandlerKeeps ==
  ASSUME IInv, Handler
  PROVE  IInv'
BY ShapeKeeps, DataSourceKeeps

-----------------------------------------------------------------------------
(* Core's steps                                                            *)

(* At rest nothing is in hand.                                             *)
LEMMA AtRest ==
  ASSUME IInv, op = Idle
  PROVE  /\ walk = NoWalk /\ op.pc = "idle" /\ op.kind = "none" /\ op.id = NoId
         /\ Ours(list) \subseteq {state.id} \cup excused
<1>1. op.pc = "idle" /\ op.kind = "none" /\ op.id = NoId
  BY DEF Idle
<1>2. walk = NoWalk
  BY <1>1 DEF IInv, Calls
<1>3. Ours(list) \subseteq {state.id, NoId} \cup excused /\ NoId \notin Ours(list)
  BY <1>1, KnownAre
<1> QED BY <1>1, <1>2, <1>3

LEMMA ApplyKeeps ==
  ASSUME IInv, Apply
  PROVE  IInv'
<1>1. /\ op = Idle /\ kind # "updatable_objects"
      /\ UNCHANGED <<list, user, dialect, kind, state, want, excused>>
      /\ UNCHANGED bounds
      /\ walk' = IF op'.pc = "page" THEN AtPageOne ELSE walk
  BY DEF Apply, server
<1>2. /\ walk = NoWalk /\ Ours(list) \subseteq {state.id} \cup excused
  BY <1>1, AtRest
<1>3. Moves /\ Ours(list') = Ours(list) /\ Counted
  BY <1>1, StaysMoves, CountedSteps
<1>4. /\ state \in Record /\ state.id \in 0..MaxId
      /\ state.id = NoId => state = NoRecord
      /\ want \in [val : 0..MaxVal, note : 1..MaxVal]
      /\ excused \subseteq 1..MaxId /\ user' \in BOOLEAN
  BY <1>1 DEF IInv, TypeOK, Record
<1>5. CASE state.id = NoId
  <2>1. op' = Planned(state)
    BY <1>5 DEF Apply
  <2>2. op'.pc # "page"
    BY <1>4, <2>1, PlannedIs DEF Does, Idle
  <2>3. state.note = 0
    BY <1>4, <1>5 DEF NoRecord
  <2> QED BY <1>1, <1>2, <1>3, <1>4, <2>1, <2>2, <2>3, Rests
<1>6. CASE state.id # NoId
  <2>1. op' = Does("page", "plan", state.id)
    BY <1>6 DEF Apply
  <2>2. op'.pc = "page"
    BY <2>1 DEF Does
  <2> QED BY <1>1, <1>2, <1>3, <1>4, <1>6, <2>1, <2>2, Begins
<1> QED BY <1>5, <1>6

LEMMA ApplyStaleKeeps ==
  ASSUME IInv, ApplyStale
  PROVE  IInv'
<1>1. /\ op = Idle /\ state.id # NoId /\ op' = Planned(state)
      /\ UNCHANGED <<list, user, dialect, walk, kind, state, want, excused>>
      /\ UNCHANGED bounds
  BY DEF ApplyStale, server
<1>2. walk = NoWalk /\ Ours(list) \subseteq {state.id} \cup excused
  BY <1>1, AtRest
<1>3. Moves /\ Ours(list') = Ours(list) /\ Counted
  BY <1>1, StaysMoves, CountedSteps
<1>4. /\ state \in Record /\ excused \subseteq 1..MaxId /\ user' \in BOOLEAN
  BY <1>1 DEF IInv, TypeOK
<1>5. kind = "updatable_objects" => state = NoRecord
  BY DEF IInv, Calls
<1>6. kind \in WriteOnly /\ state.note # 0 =>
        \A k \in DOMAIN list : list[k].id = state.id => list[k].note = state.note
  BY DEF IInv, Notes
<1> QED BY <1>1, <1>2, <1>3, <1>4, <1>5, <1>6, Rests

LEMMA EditConfigKeeps ==
  ASSUME IInv, EditConfig
  PROVE  IInv'
<1>1. /\ op = Idle /\ kind # "updatable_objects" /\ Counted
      /\ UNCHANGED <<list, user, dialect, walk, kind, state, op, excused, result>>
      /\ want' \in [val : 0..MaxVal,
                    note : IF kind \in WriteOnly THEN 1..MaxVal ELSE {1}]
  BY CountedSteps DEF EditConfig, server
<1>2. op.pc = "idle"
  BY <1>1 DEF Idle
<1>3. want' \in [val : 0..MaxVal, note : 1..MaxVal]
  BY <1>1, DirectoryAssumption
<1>4. TypeOK'
  <2>1. Walking(walk)' /\ ToSet(walk.rows)' \subseteq Object
    BY <1>1 DEF IInv, TypeOK, Walking, ToSet
  <2> QED BY <1>1, <1>3, <2>1 DEF IInv, TypeOK, Counted
<1>5. Calls'
  BY <1>1, <1>2 DEF IInv, Calls
<1>6. Seen' /\ Gathered' /\ Tied'
  BY <1>1, <1>2 DEF IInv, Seen, Gathered, Tied
<1>7. Orphans'
  BY <1>1, OursPrime DEF IInv, Orphans
<1>8. Notes'
  BY <1>1, <1>2 DEF IInv, Notes
<1> QED BY <1>4, <1>5, <1>6, <1>7, <1>8 DEF IInv

LEMMA ImportKeeps ==
  ASSUME IInv, Import
  PROVE  IInv'
<1>1. /\ op = Idle /\ kind # "updatable_objects" /\ state.id = NoId
      /\ UNCHANGED <<list, user, dialect, kind, state, want, excused>>
      /\ walk' = AtPageOne /\ Edit
  BY DEF Import, server
<1>2. PICK o \in ToSet(list) : op' = Does("page", "import", o.id)
  BY DEF Import
<1>3. o.id \in 0..MaxId
  <2>1. list \in Seq(Object)
    BY DEF IInv, TypeOK
  <2>2. PICK i \in DOMAIN list : o = list[i]
    BY <1>2 DEF ToSet
  <2>3. o \in Object
    BY <2>1, <2>2
  <2> QED BY <2>3, DirectoryAssumption DEF Object
<1>4. Ours(list) \subseteq {state.id} \cup excused
  BY <1>1, AtRest
<1>5. Moves /\ Ours(list') = Ours(list) /\ Counted
  BY <1>1, StaysMoves, CountedSteps
<1>6. state = NoRecord
  BY <1>1 DEF IInv, TypeOK
<1>7. Ours(list') \subseteq {state.id, o.id} \cup excused
  BY <1>4, <1>5
<1> QED BY <1>1, <1>2, <1>3, <1>5, <1>6, <1>7, Begins

LEMMA CrashKeeps ==
  ASSUME IInv, Crash
  PROVE  IInv'
<1>1. /\ UNCHANGED <<list, user, dialect, kind, state, want>>
      /\ op' = Idle /\ walk' = NoWalk /\ Fault
      /\ excused' = (excused \cup Ours(list')) \ {state.id}
  BY DEF Crash, server, Told
<1>2. Moves /\ Ours(list') = Ours(list) /\ Counted
  BY <1>1, StaysMoves, CountedSteps
<1>3. Ours(list') \subseteq 1..MaxId
  BY <1>2, OursAreIds DEF Moves
<1>4. /\ state \in Record
      /\ state.id = NoId => state = NoRecord
      /\ excused' \subseteq 1..MaxId /\ user' \in BOOLEAN
  BY <1>1, <1>3 DEF IInv, TypeOK
<1>5. kind = "updatable_objects" => state = NoRecord
  BY DEF IInv, Calls
<1>6. kind \in WriteOnly /\ state.note # 0 =>
        \A k \in DOMAIN list : list[k].id = state.id => list[k].note = state.note
  BY DEF IInv, Notes
<1>7. Ours(list') \subseteq {state'.id} \cup excused'
  BY <1>1
<1> QED BY <1>1, <1>2, <1>4, <1>5, <1>6, <1>7, Rests

LEMMA StutterKeeps ==
  ASSUME IInv, UNCHANGED vars
  PROVE  IInv'
<1>1. UNCHANGED <<list, dialect, walk, kind, user, state, want, op, excused,
                  result, faults, edits>>
  BY DEF vars
<1>2. TypeOK'
  <2>1. Walking(walk)' /\ ToSet(walk.rows)' \subseteq Object
    BY <1>1 DEF IInv, TypeOK, Walking, ToSet
  <2> QED BY <1>1, <2>1 DEF IInv, TypeOK
<1>3. Calls' /\ Tied' /\ Notes'
  BY <1>1 DEF IInv, Calls, Tied, Notes
<1>4. Seen' /\ Gathered'
  <2>1. Skipped(walk.page)' = Skipped(walk.page)
    BY <1>1 DEF Skipped
  <2> QED BY <1>1, <2>1 DEF IInv, Seen, Gathered
<1>5. Orphans'
  BY <1>1, OursPrime DEF IInv, Orphans
<1> QED BY <1>2, <1>3, <1>4, <1>5 DEF IInv

-----------------------------------------------------------------------------
(* Everybody else's steps                                                  *)

(* What a walk under way makes of a change of the list.                    *)
Noticed ==
  /\ walk' = walk \/ \E m \in {"grown", "shrunk"} :
                       walk.page # 0 /\ walk' = [walk EXCEPT !.moved = m]
  /\ walk.moved = "shrunk" => walk'.moved = "shrunk"
  /\ op.pc = "catalogue" => walk'.moved # "no"
  /\ op.pc = "page" /\ walk'.moved # "shrunk" /\ kind \in Directory =>
       \A k \in DOMAIN list' : list'[k].id = op.id =>
         \E i \in DOMAIN list : i <= k /\ list[i].id = op.id

LEMMA OthersKeep ==
  ASSUME IInv, Moves, Counted, Noticed, Ours(list') \subseteq Ours(list),
         UNCHANGED <<dialect, kind, state, want, op, excused, result>>,
         user' \in BOOLEAN
  PROVE  IInv'
<1>1. /\ walk \in Walks
      /\ \A m, n \in walk.total : m = n /\ n \in Nat
      /\ ToSet(walk.rows) \subseteq Object
  BY DEF IInv, TypeOK, Walking, Calls
<1>2. /\ walk' \in Walks /\ walk'.page = walk.page /\ walk'.rows = walk.rows
      /\ walk'.total = walk.total
  <2>1. CASE walk' = walk
    BY <1>1, <2>1
  <2>2. CASE \E m \in {"grown", "shrunk"} : walk' = [walk EXCEPT !.moved = m]
    BY <1>1, <2>2 DEF Walks
  <2> QED BY <2>1, <2>2 DEF Noticed
<1>3. walk.page = 0 => walk' = walk
  BY DEF Noticed
<1>4. TypeOK'
  <2>1. Walking(walk)' /\ ToSet(walk.rows)' \subseteq Object
    BY <1>1, <1>2 DEF Walking, Walks, ToSet
  <2>2. /\ list' \in Seq(Object)
        /\ \A i, j \in DOMAIN list' : list'[i].id = list'[j].id => i = j
    BY DEF Moves, Unique
  <2> QED BY <2>1, <2>2 DEF IInv, TypeOK, Counted
<1>5. Calls'
  <2>1. op.pc \notin {"page", "catalogue"} => walk' = NoWalk
    <3>1. NoWalk.page = 0
      BY NoWalkIs
    <3> QED BY <1>3, <3>1 DEF IInv, Calls
  <2>2. op.pc \in {"page", "catalogue"} => walk'.page # 0
    BY <1>2 DEF IInv, Calls
  <2> QED BY <1>2, <2>1, <2>2 DEF IInv, Calls
<1>6. Seen'
  <2> SUFFICES ASSUME op.pc = "page", kind \in Directory, walk'.moved # "shrunk",
                      NEW k \in DOMAIN list', list'[k].id = op.id
               PROVE  k > Skipped(walk.page)'
    BY DEF Seen
  <2>1. PICK i \in DOMAIN list : i <= k /\ list[i].id = op.id
    BY DEF Noticed
  <2>2. walk.moved # "shrunk"
    BY DEF Noticed
  <2>3. i > Skipped(walk.page)
    BY <2>1, <2>2 DEF IInv, Seen
  <2>4. Skipped(walk.page)' = Skipped(walk.page)
    BY <1>2 DEF Skipped
  <2>5. /\ list \in Seq(Object) /\ dialect \in Dialect
        /\ walk.page \in Nat \ {0}
    BY <1>1 DEF IInv, TypeOK, Calls, Walks
  <2>6. Skipped(walk.page) \in Nat
    BY <2>5, SkippedFacts
  <2>7. i \in Nat /\ k \in Nat
    <3>1. i \in 1..Len(list)
      BY <2>5
    <3>2. list' \in Seq(Object)
      BY DEF Moves
    <3>3. k \in 1..Len(list')
      BY <3>2
    <3> QED BY <3>1, <3>3
  <2> QED BY <2>1, <2>3, <2>4, <2>6, <2>7
<1>7. Gathered'
  BY DEF Gathered, Noticed
<1>8. Tied'
  BY DEF Moves, Tied
<1>9. Orphans'
  BY OursPrime DEF IInv, Orphans
<1>10. Notes'
  <2>1. ASSUME kind \in WriteOnly, state.note # 0, NEW k \in DOMAIN list',
               list'[k].id = state.id
        PROVE  list'[k].note = state.note
    BY <2>1 DEF Moves, IInv, Notes
  <2>2. ASSUME kind \in WriteOnly, op.pc = "page", op.kind = "create",
               op.id # NoId, NEW k \in DOMAIN list', list'[k].id = op.id
        PROVE  list'[k].note = want.note
    BY <2>2 DEF Moves, IInv, Notes
  <2> QED BY <2>1, <2>2 DEF Notes
<1> QED BY <1>4, <1>5, <1>6, <1>7, <1>8, <1>9, <1>10 DEF IInv

LEMMA WalkPage ==
  ASSUME IInv, op.pc \in {"page", "catalogue"}
  PROVE  walk.page # 0 /\ walk \in Walks
BY DEF IInv, Calls

LEMMA ConsoleAddsKeeps ==
  ASSUME IInv, ConsoleAdds
  PROVE  IInv'
<1>1. /\ IdsLeft /\ Edit
      /\ UNCHANGED <<user, dialect, kind, state, want, op, excused, result>>
  BY DEF ConsoleAdds
<1>2. PICK val \in 1..MaxVal :
        Grows([id |-> NewId, val |-> val, note |-> 1, over |-> FALSE,
               tied |-> FALSE, mine |-> FALSE])
  BY DEF ConsoleAdds
<1> DEFINE o == [id |-> NewId, val |-> val, note |-> 1, over |-> FALSE,
                 tied |-> FALSE, mine |-> FALSE]
<1>3. /\ NewId \in 1..MaxId /\ NewId \notin {state.id, op.id}
      /\ \A i \in DOMAIN list : list[i].id # NewId
  BY <1>1, NewIdIsNew
<1>4. o \in Object /\ o.id = NewId /\ ~o.tied /\ ~o.mine
  BY <1>3, DirectoryAssumption DEF Object
<1>5. PICK pos \in {1, Len(list) + 1} :
        /\ list' = InsertAt(list, pos, o)
        /\ walk' = IF walk.page = 0 \/ walk.moved = "shrunk" THEN walk
                   ELSE [walk EXCEPT !.moved = "grown"]
  BY <1>2 DEF Grows
<1> HIDE DEF o
<1>6. list \in Seq(Object) /\ Unique(list) /\ pos \in 1..Len(list) + 1
  BY DEF IInv, TypeOK, Unique
<1>7. /\ list' \in Seq(Object) /\ Unique(list')
      /\ \A k \in DOMAIN list' :
           list'[k] = o \/ \E i \in DOMAIN list : i <= k /\ list'[k] = list[i]
  BY <1>3, <1>4, <1>5, <1>6, InsertKeeps
<1>8. Moves
  <2>1. kind = "group_membership" /\ ~user' =>
          \A k \in DOMAIN list' : ~list'[k].tied
    BY <1>1, <1>4, <1>7 DEF IInv, Tied
  <2>2. \A k \in DOMAIN list' :
          list'[k].id \in {state.id, op.id} =>
            \E i \in DOMAIN list :
              list[i].id = list'[k].id /\ list[i].note = list'[k].note
    BY <1>3, <1>4, <1>7
  <2> QED BY <1>7, <2>1, <2>2 DEF Moves
<1>9. Ours(list') \subseteq Ours(list)
  BY <1>4, <1>7, OursIs
<1>10. Noticed
  <2>1. \A k \in DOMAIN list' : list'[k].id = op.id =>
          \E i \in DOMAIN list : i <= k /\ list[i].id = op.id
    BY <1>3, <1>4, <1>7
  <2>2. CASE walk.page = 0 \/ walk.moved = "shrunk"
    <3>1. walk' = walk
      BY <1>5, <2>2
    <3> QED BY <2>1, <2>2, <3>1, WalkPage DEF Noticed
  <2>3. CASE ~(walk.page = 0 \/ walk.moved = "shrunk")
    <3>1. walk' = [walk EXCEPT !.moved = "grown"]
      BY <1>5, <2>3
    <3>2. op.pc = "catalogue" => walk'.moved = "grown"
      BY <3>1, WalkPage DEF Walks
    <3> QED BY <2>1, <2>3, <3>1, <3>2 DEF Noticed
  <2> QED BY <2>2, <2>3
<1>11. Counted /\ user' \in BOOLEAN
  BY <1>1, CountedSteps DEF IInv, TypeOK
<1> QED BY <1>1, <1>8, <1>9, <1>10, <1>11, OthersKeep

(* An object is edited in its place by somebody else.                      *)
LEMMA EditedKeeps ==
  ASSUME IInv, Edit, NEW pos \in DOMAIN list, NEW o \in Object,
         list' = [list EXCEPT ![pos] = o],
         o.id = list[pos].id, o.note = list[pos].note,
         o.mine => list[pos].mine,
         Live(o) => ~o.mine \/ Live(list[pos]),
         user \/ kind # "group_membership" \/ ~o.tied,
         kind # "updatable_objects",
         UNCHANGED <<user, dialect, walk, kind, state, want, op, excused, result>>
  PROVE  IInv'
<1>1. /\ Moves /\ DOMAIN list' = DOMAIN list
      /\ \A k \in DOMAIN list : list'[k] = IF k = pos THEN o ELSE list[k]
  BY EditedMoves
<1>2. Ours(list') \subseteq Ours(list)
  BY <1>1, OursIs
<1>3. \A k \in DOMAIN list' : k <= k /\ list[k].id = list'[k].id
  <2>1. list \in Seq(Object)
    BY DEF IInv, TypeOK
  <2> QED BY <1>1, <2>1
<1>4. Noticed
  <2>1. op.pc # "catalogue"
    BY DEF IInv, Calls
  <2> QED BY <1>1, <1>3, <2>1 DEF Noticed
<1>5. Counted /\ user' \in BOOLEAN
  BY CountedSteps DEF IInv, TypeOK
<1> QED BY <1>1, <1>2, <1>4, <1>5, OthersKeep

LEMMA ConsoleRemovesKeeps ==
  ASSUME IInv, ConsoleRemoves
  PROVE  IInv'
<1>1. /\ Edit
      /\ UNCHANGED <<user, dialect, kind, state, want, op, excused, result>>
  BY DEF ConsoleRemoves
<1>2. PICK pos \in DOMAIN list :
        IF kind \in Users
        THEN list' = [list EXCEPT ![pos].over = TRUE] /\ UNCHANGED walk
        ELSE Shrinks(pos)
  BY DEF ConsoleRemoves
<1>3. list \in Seq(Object) /\ Unique(list) /\ list[pos] \in Object
  BY DEF IInv, TypeOK, Unique
<1>4. CASE kind \in Users
  <2> DEFINE o == [list[pos] EXCEPT !.over = TRUE]
  <2>1. /\ o \in Object /\ o.id = list[pos].id /\ o.note = list[pos].note
        /\ o.over = TRUE /\ o.mine = list[pos].mine
    BY <1>3 DEF Object
  <2>2. list' = [list EXCEPT ![pos] = o] /\ UNCHANGED walk
    BY <1>2, <1>3, <1>4
  <2> HIDE DEF o
  <2>3. ~Live(o)
    BY <2>1 DEF Live
  <2>4. kind \notin {"group_membership", "updatable_objects"}
    BY <1>4 DEF Users
  <2> QED BY <1>1, <2>1, <2>2, <2>3, <2>4, EditedKeeps
<1>5. CASE kind \notin Users
  <2>1. /\ list' = RemoveAt(list, pos)
        /\ walk' = IF walk.page = 0 THEN walk
                   ELSE [walk EXCEPT !.moved = "shrunk"]
    BY <1>2, <1>5 DEF Shrinks
  <2>2. /\ list' \in Seq(Object) /\ Unique(list')
        /\ \A k \in DOMAIN list' :
             \E i \in DOMAIN list : i # pos /\ list'[k] = list[i]
    BY <1>3, <2>1, RemoveKeeps
  <2>3. Moves
    <3>1. kind = "group_membership" /\ ~user' =>
            \A k \in DOMAIN list' : ~list'[k].tied
      BY <1>1, <2>2 DEF IInv, Tied
    <3> QED BY <2>2, <3>1 DEF Moves
  <2>4. Ours(list') \subseteq Ours(list)
    BY <2>2, OursIs
  <2>5. Noticed
    <3>1. CASE walk.page = 0
      <4>1. walk' = walk
        BY <2>1, <3>1
      <4> QED BY <3>1, <4>1, WalkPage DEF Noticed
    <3>2. CASE walk.page # 0
      <4>1. walk' = [walk EXCEPT !.moved = "shrunk"]
        BY <2>1, <3>2
      <4>2. walk'.moved = "shrunk"
        <5>1. walk \in Walks
          BY DEF IInv, Calls
        <5> QED BY <4>1, <5>1 DEF Walks
      <4> QED BY <3>2, <4>1, <4>2 DEF Noticed
    <3> QED BY <3>1, <3>2
  <2>6. Counted /\ user' \in BOOLEAN
    BY <1>1, CountedSteps DEF IInv, TypeOK
  <2> QED BY <1>1, <2>3, <2>4, <2>5, <2>6, OthersKeep
<1> QED BY <1>4, <1>5

LEMMA ConsoleEditsKeeps ==
  ASSUME IInv, ConsoleEdits
  PROVE  IInv'
<1>1. /\ Edit
      /\ UNCHANGED <<user, dialect, walk, kind, state, want, op, excused, result>>
  BY DEF ConsoleEdits
<1>2. PICK pos \in DOMAIN list :
        \/ /\ kind \in Objects \cup {"group"}
           /\ \E val \in 1..MaxVal \ {list[pos].val} :
                list' = [list EXCEPT ![pos].val = val]
        \/ /\ kind \in Objects
           /\ list' = [list EXCEPT ![pos].tied = ~@]
        \/ /\ kind = "group_membership" /\ user
           /\ list' = [list EXCEPT ![pos].tied = ~@, ![pos].mine = FALSE]
  BY DEF ConsoleEdits
<1>3. list \in Seq(Object) /\ list[pos] \in Object
  BY DEF IInv, TypeOK
<1>4. CASE /\ kind \in Objects \cup {"group"}
           /\ \E val \in 1..MaxVal \ {list[pos].val} :
                list' = [list EXCEPT ![pos].val = val]
  <2>1. PICK val \in 1..MaxVal : list' = [list EXCEPT ![pos].val = val]
    BY <1>4
  <2> DEFINE o == [list[pos] EXCEPT !.val = val]
  <2>2. /\ o \in Object /\ o.id = list[pos].id /\ o.note = list[pos].note
        /\ o.mine = list[pos].mine /\ o.over = list[pos].over
        /\ o.tied = list[pos].tied
    BY <1>3 DEF Object
  <2>3. list' = [list EXCEPT ![pos] = o]
    BY <1>3, <2>1
  <2> HIDE DEF o
  <2>4. Live(o) => Live(list[pos])
    BY <2>2 DEF Live
  <2>5. kind # "group_membership" /\ kind # "updatable_objects"
    BY <1>4 DEF Objects
  <2> QED BY <1>1, <2>2, <2>3, <2>4, <2>5, EditedKeeps
<1>5. CASE kind \in Objects /\ list' = [list EXCEPT ![pos].tied = ~@]
  <2> DEFINE o == [list[pos] EXCEPT !.tied = ~@]
  <2>1. /\ o \in Object /\ o.id = list[pos].id /\ o.note = list[pos].note
        /\ o.mine = list[pos].mine /\ o.over = list[pos].over
    BY <1>3 DEF Object
  <2>2. list' = [list EXCEPT ![pos] = o]
    BY <1>3, <1>5
  <2> HIDE DEF o
  <2>3. kind # "group_membership" /\ kind # "updatable_objects"
    BY <1>5 DEF Objects
  <2>4. Live(o) => Live(list[pos])
    BY <2>1, <2>3 DEF Live
  <2> QED BY <1>1, <2>1, <2>2, <2>3, <2>4, EditedKeeps
<1>6. CASE /\ kind = "group_membership" /\ user
           /\ list' = [list EXCEPT ![pos].tied = ~@, ![pos].mine = FALSE]
  <2> DEFINE o == [list[pos] EXCEPT !.tied = ~@, !.mine = FALSE]
  <2>1. /\ o \in Object /\ o.id = list[pos].id /\ o.note = list[pos].note
        /\ ~o.mine
    BY <1>3 DEF Object
  <2>2. list' = [list EXCEPT ![pos] = o]
    BY <1>3, <1>6
  <2> HIDE DEF o
  <2> QED BY <1>1, <1>6, <2>1, <2>2, EditedKeeps
<1> QED BY <1>2, <1>4, <1>5, <1>6

LEMMA ConsoleRemovesUserKeeps ==
  ASSUME IInv, ConsoleRemovesUser
  PROVE  IInv'
<1>1. /\ kind = "group_membership" /\ Edit /\ user' = FALSE
      /\ UNCHANGED <<dialect, walk, kind, state, want, op, excused, result>>
      /\ list' = [i \in DOMAIN list |->
                    [list[i] EXCEPT !.tied = FALSE, !.mine = FALSE]]
  BY DEF ConsoleRemovesUser
<1>2. list \in Seq(Object) /\ Unique(list)
  BY DEF IInv, TypeOK, Unique
<1>3. /\ DOMAIN list' = DOMAIN list
      /\ \A i \in DOMAIN list :
           /\ list'[i] \in Object /\ list'[i].id = list[i].id
           /\ ~list'[i].tied /\ ~list'[i].mine
  <2>1. DOMAIN list' = DOMAIN list
    BY <1>1
  <2>2. ASSUME NEW i \in DOMAIN list
        PROVE  /\ list'[i] \in Object /\ list'[i].id = list[i].id
               /\ ~list'[i].tied /\ ~list'[i].mine
    <3>1. list'[i] = [list[i] EXCEPT !.tied = FALSE, !.mine = FALSE]
      BY <1>1
    <3>2. list[i] \in Object
      BY <1>2
    <3> QED BY <3>1, <3>2 DEF Object
  <2> QED BY <2>1, <2>2
<1>4. list' \in Seq(Object)
  <2>1. DOMAIN list = 1..Len(list) /\ Len(list) \in Nat
    BY <1>2
  <2>2. list' \in [1..Len(list) -> Object]
    <3>1. list' = [i \in 1..Len(list) |->
                     [list[i] EXCEPT !.tied = FALSE, !.mine = FALSE]]
      BY <1>1, <2>1
    <3>2. \A i \in 1..Len(list) :
            [list[i] EXCEPT !.tied = FALSE, !.mine = FALSE] \in Object
      BY <1>3, <2>1, <3>1
    <3> QED BY <3>1, <3>2
  <2> QED BY <2>1, <2>2, SeqDef
<1>5. Unique(list')
  BY <1>2, <1>3 DEF Unique
<1>6. Moves
  BY <1>1, <1>3, <1>4, <1>5 DEF Moves, WriteOnly, Users
<1>7. Ours(list') \subseteq Ours(list)
  BY <1>3, OursIs
<1>8. Noticed
  <2>1. op.pc # "catalogue"
    BY <1>1 DEF IInv, Calls
  <2>2. \A k \in DOMAIN list' : k <= k /\ list[k].id = list'[k].id
    BY <1>2, <1>3
  <2> QED BY <1>1, <1>3, <2>1, <2>2 DEF Noticed
<1>9. Counted
  BY <1>1, CountedSteps
<1> QED BY <1>1, <1>6, <1>7, <1>8, <1>9, OthersKeep

-----------------------------------------------------------------------------
(* The invariant is inductive                                              *)

LEMMA FoundIs ==
  ASSUME NEW n \in 0..2 * PageSize, NEW tied \in BOOLEAN
  PROVE  /\ Found(n, tied) \in Seq(Object) /\ Unique(Found(n, tied))
         /\ \A i \in DOMAIN Found(n, tied) : ~Found(n, tied)[i].mine
<1> DEFINE o(i) == [id |-> i, val |-> MaxVal, note |-> 1, over |-> FALSE,
                    tied |-> tied, mine |-> FALSE]
<1>1. n \in Nat /\ n <= MaxId
  BY DirectoryAssumption, PagesAssumption
<1>2. ASSUME NEW i \in 1..n PROVE o(i) \in Object /\ o(i).id = i /\ ~o(i).mine
  BY <1>1, DirectoryAssumption DEF Object
<1>3. Found(n, tied) = [i \in 1..n |-> o(i)]
  BY DEF Found
<1> HIDE DEF o
<1>4. Found(n, tied) \in [1..n -> Object]
  BY <1>2, <1>3
<1>5. Found(n, tied) \in Seq(Object)
  BY <1>1, <1>4, SeqDef
<1>6. /\ DOMAIN Found(n, tied) = 1..n
      /\ \A i \in 1..n : Found(n, tied)[i] = o(i)
  BY <1>3
<1> QED BY <1>2, <1>5, <1>6 DEF Unique

LEMMA InitInv == Init => IInv
<1> SUFFICES ASSUME Init PROVE IInv
  OBVIOUS
<1>1. /\ walk = NoWalk /\ user = TRUE /\ state = NoRecord
      /\ op = Idle /\ excused = {} /\ faults = 0 /\ edits = 0
  BY DEF Init
<1>2. /\ kind \in Kind /\ dialect \in Dialect
      /\ kind # "updatable_objects" => dialect = Documented
      /\ want \in [val : 0..MaxVal, note : 1..MaxVal]
      /\ kind = "updatable_objects" => want.val = 0
      /\ \E n \in 0..2 * PageSize, tied \in BOOLEAN : list = Found(n, tied)
  <2>0. 1 \in 1..MaxVal /\ 0 \in 0..MaxVal
    BY DirectoryAssumption
  <2>1. CASE DataSource
    <3>1. /\ kind = "updatable_objects" /\ dialect \in Dialect
          /\ want = [val |-> 0, note |-> 1]
          /\ \E n \in 0..2 * PageSize : list = Found(n, FALSE)
      BY <2>1 DEF DataSource
    <3> QED BY <2>0, <3>1 DEF Kind
  <2>2. CASE \E k \in Objects \cup Directory : Resource(k)
    <3>1. PICK k \in Objects \cup Directory : Resource(k)
      BY <2>2
    <3>2. /\ kind = k /\ dialect = Documented
          /\ want \in [val : 0..MaxVal,
                      note : IF k = "user_extras" THEN 1..MaxVal ELSE {1}]
          /\ \E tied \in BOOLEAN : list = Found(2, tied)
      BY <3>1 DEF Resource, LeftOut
    <3>3. 2 \in 0..2 * PageSize
      BY PagesAssumption
    <3>4. kind \in Kind /\ kind # "updatable_objects"
      BY <3>1, <3>2 DEF Kind, Objects, Directory, Users
    <3>5. want \in [val : 0..MaxVal, note : 1..MaxVal]
      BY <2>0, <3>2
    <3>6. Documented \in Dialect
      BY DEF Documented, Dialect
    <3> QED BY <3>2, <3>3, <3>4, <3>5, <3>6
  <2> QED BY <2>1, <2>2 DEF Init
<1>3. PICK n \in 0..2 * PageSize, tied \in BOOLEAN : list = Found(n, tied)
  BY <1>2
<1>4. /\ list \in Seq(Object) /\ Unique(list)
      /\ \A i \in DOMAIN list : ~list[i].mine
  BY <1>3, FoundIs
<1>5. Ours(list) = {}
  BY <1>4, OursIs
<1>6. /\ NoWalk \in Walks /\ NoWalk.total = {} /\ NoWalk.rows = <<>>
      /\ NoWalk.page = 0
  BY NoWalkIs DEF Walks
<1>7. /\ state \in Record /\ state.note = 0
      /\ op \in Operation /\ op.pc = "idle" /\ op.kind = "none"
  <2>1. 0 \in 0..MaxId /\ 0 \in 0..MaxVal
    BY DirectoryAssumption
  <2> QED BY <1>1, <2>1 DEF NoRecord, Record, Idle, Operation, NoId
<1>8. TypeOK
  <2>1. Walking(walk) /\ ToSet(walk.rows) \subseteq Object
    BY <1>1, <1>6 DEF Walking, Walks, ToSet
  <2>2. faults \in 0..MaxFaults /\ edits \in 0..MaxEdits
    BY <1>1, DirectoryAssumption
  <2> QED BY <1>1, <1>2, <1>4, <1>7, <2>1, <2>2 DEF TypeOK, Unique
<1>9. Calls
  BY <1>1, <1>2, <1>6, <1>7 DEF Calls
<1>10. Seen /\ Gathered /\ Tied /\ Notes
  BY <1>1, <1>7 DEF Seen, Gathered, Tied, Notes
<1>11. Orphans
  BY <1>5 DEF Orphans
<1> QED BY <1>8, <1>9, <1>10, <1>11 DEF IInv

LEMMA NextKeeps == IInv /\ [Next]_vars => IInv'
<1> SUFFICES ASSUME IInv, [Next]_vars PROVE IInv'
  OBVIOUS
<1>1. CASE UNCHANGED vars \/ Rest
  BY <1>1, StutterKeeps DEF Rest
<1>2. CASE Apply \/ ApplyStale \/ EditConfig \/ Import \/ Crash
  BY <1>2, ApplyKeeps, ApplyStaleKeeps, EditConfigKeeps, ImportKeeps, CrashKeeps
<1>3. CASE DataSourceStarts \/ Handler
  BY <1>3, StartsKeeps, HandlerKeeps
<1>4. CASE Console
  BY <1>4, ConsoleAddsKeeps, ConsoleRemovesKeeps, ConsoleEditsKeeps,
     ConsoleRemovesUserKeeps DEF Console
<1> QED BY <1>1, <1>2, <1>3, <1>4 DEF Next

LEMMA Invariant == Spec => []IInv
BY InitInv, NextKeeps, PTL DEF Spec

(* The types, and that no two objects share an id, whatever is inserted,   *)
(* removed or edited.                                                      *)
THEOREM TypeCorrect == Spec => []TypeOK
<1>1. IInv => TypeOK
  BY DEF IInv
<1> QED BY <1>1, Invariant, PTL

(* Whenever no operation runs, every object the provider has created is in *)
(* the record, or the operator was told of it, or a walk could not see it. *)
THEOREM OrphansCorrect == Spec => []NoSilentOrphan
<1>1. IInv => NoSilentOrphan
  BY AtRest DEF NoSilentOrphan
<1> QED BY <1>1, Invariant, PTL


-----------------------------------------------------------------------------
(* What a step may do                                                      *)

(* Only the handlers of the resources change the record.                   *)
LEMMA OtherSteps ==
  ASSUME IInv, [Next]_vars, ~(Handler /\ ~dataSourceUpdatableObjectsRead)
  PROVE  /\ UNCHANGED state
         /\ op.kind = "plan" => op'.kind # "replace"
<1>1. CASE UNCHANGED vars \/ Rest
  BY <1>1 DEF Rest, vars
<1>2. CASE Apply \/ ApplyStale \/ EditConfig \/ Import
  BY <1>2 DEF Apply, ApplyStale, EditConfig, Import, Idle
<1>3. CASE Crash
  BY <1>3 DEF Crash, Idle
<1>4. CASE DataSourceStarts
  BY <1>4 DEF DataSourceStarts, Idle
<1>5. CASE dataSourceUpdatableObjectsRead
  BY <1>5 DEF dataSourceUpdatableObjectsRead, CataloguePage, CatalogueFails, Idle
<1>6. CASE Console
  BY <1>6 DEF Console, ConsoleAdds, ConsoleRemoves, ConsoleEdits,
     ConsoleRemovesUser
<1> QED BY <1>1, <1>2, <1>3, <1>4, <1>5, <1>6 DEF Next

(* The object of the record is not there, or could not be seen.            *)
Vanished ==
  \/ (\A o \in On(list', state.id) : ~Live(o))
  \/ walk.moved = "shrunk"
  \/ NullBody

LEMMA NotLiveIsVanished ==
  ASSUME \A k \in DOMAIN list' : list'[k].id = state.id => ~Live(list'[k])
  PROVE  Vanished
<1>1. ASSUME NEW o \in On(list', state.id) PROVE ~Live(o)
  BY <1>1, OnIs
<1> QED BY <1>1 DEF Vanished

LEMMA StepForgets ==
  ASSUME IInv, [Next]_vars, state.id # NoId, state'.id = NoId
  PROVE  Vanished
<1>1. Handler /\ ~dataSourceUpdatableObjectsRead
  BY OtherSteps
<1>2. Shape /\ kind \in Objects \cup Directory
  BY <1>1, HandlerShapes
<1>3. CASE Fails
  <2>1. state' = IF op.kind = "create" /\ op.id # NoId
                 THEN [NoRecord EXCEPT !.id = op.id, !.tainted = TRUE]
                 ELSE state
    BY <1>3 DEF Fails, Errs
  <2>2. [NoRecord EXCEPT !.id = op.id, !.tainted = TRUE].id = op.id
    BY DEF NoRecord
  <2> QED BY <2>1, <2>2
<1>4. CASE Made \/ Changed \/ GoesOn
  BY <1>4 DEF Made, Changed, GoesOn, ReadsOn
<1>5. CASE ReadBack
  <2>1. PICK i \in DOMAIN list :
          op.pc = "page" /\ list[i].id = op.id /\ state' = Shown(list[i])
    BY <1>5 DEF ReadBack, Returns
  <2> QED BY <1>2, <2>1, ShownIs
<1>6. CASE Lost
  <2>1. PICK missed \in SUBSET {op.id} :
          /\ op.pc = "page" /\ Base /\ UNCHANGED list
          /\ \/ IsGone
             \/ op.id \in missed /\ (walk.moved = "shrunk" \/ NullBody)
    BY <1>6 DEF Lost
  <2>2. op.kind \notin {"create", "import"}
    BY DEF IInv, TypeOK, NoRecord
  <2>3. op.id = state.id
    BY <2>1, <2>2 DEF IInv, Calls
  <2>4. CASE IsGone
    BY <2>1, <2>3, <2>4, NotLiveIsVanished DEF IsGone
  <2>5. CASE walk.moved = "shrunk" \/ NullBody
    BY <2>5 DEF Vanished
  <2> QED BY <2>1, <2>4, <2>5
<1>7. CASE Gone
  <2>1. op.id = state.id
    BY <1>7 DEF Gone, IInv, TypeOK
  <2> QED BY <1>7, <2>1, NotLiveIsVanished DEF Gone
<1> QED BY <1>2, <1>3, <1>4, <1>5, <1>6, <1>7 DEF Shape

(* An object leaves the state only once it is gone, or a walk could not    *)
(* see it.                                                                 *)
THEOREM ForgetsCorrect == Spec => ForgetsOnlyTheGone
<1> DEFINE A == state.id # NoId /\ state'.id = NoId
                => \/ (\A o \in On(list', state.id) : ~Live(o))
                   \/ walk.moved = "shrunk"
                   \/ NullBody
<1>1. IInv /\ [Next]_vars => A
  BY StepForgets DEF Vanished
<1> HIDE DEF A
<1>2. Spec => [][A]_vars
  BY Invariant, <1>1, PTL DEF Spec
<1> USE DEF A
<1> QED BY <1>2 DEF ForgetsOnlyTheGone

(* The object on the server is not the configured one, or an import left   *)
(* what is configured of it unknown.                                       *)
Differs ==
  \/ state.tainted
  \/ UnknownExtras(state) /\ want.note # LeftOut
  \/ \E o \in On(list, state.id) :
       Val(o) # want.val \/ (kind \in WriteOnly /\ o.note # want.note)

LEMMA StepReplaces ==
  ASSUME IInv, [Next]_vars, op.kind = "plan", op'.kind = "replace"
  PROVE  Differs
<1>1. Handler /\ ~dataSourceUpdatableObjectsRead
  BY OtherSteps
<1>2. Shape /\ kind \in Objects \cup Directory
  BY <1>1, HandlerShapes
<1>3. want \in [val : 0..MaxVal, note : 1..MaxVal] /\ op.pc # "create" /\ op.pc # "update"
  BY DEF IInv, TypeOK, Calls
<1>4. op.pc # "delete"
  BY DEF IInv, Calls
<1>5. CASE Fails
  BY <1>5 DEF Fails, Errs, Idle
<1>6. CASE GoesOn
  BY <1>6 DEF GoesOn, ReadsOn
<1>7. CASE ReadBack
  <2>1. PICK i \in DOMAIN list :
          op.pc = "page" /\ list[i].id = op.id /\ Returns(Shown(list[i]), {})
    BY <1>7 DEF ReadBack
  <2> DEFINE s == Shown(list[i])
  <2>2. /\ s \in Record /\ s.id = op.id /\ op.id # NoId
        /\ s.val = Val(list[i]) /\ s.note = state.note
        /\ s.tainted = state.tainted
    <3>1. state.tainted \in BOOLEAN
      BY DEF IInv, TypeOK, Record
    <3> QED BY <1>2, <2>1, <3>1, ShownIs
  <2>3. op' = Planned(s)
    BY <2>1 DEF Returns
  <2> HIDE DEF s
  <2>4. Replaced(s)
    BY <1>3, <2>2, <2>3, PlannedIs DEF Does, Idle
  <2>5. op.id = state.id
    BY <2>1 DEF IInv, Calls
  <2>6. list[i] \in On(list, state.id)
    BY <2>1, <2>5, OnIs
  <2>7. CASE s.tainted
    BY <2>2, <2>7 DEF Differs
  <2>8. CASE s.val # want.val
    BY <2>2, <2>6, <2>8 DEF Differs
  <2>9. CASE kind \in WriteOnly /\ NoteDiffers(s)
    <3>1. CASE state.note = 0
      <4>1. kind = "user_extras" /\ want.note # LeftOut
        BY <2>2, <2>9, <3>1 DEF NoteDiffers, suppressDiffOnEmptyOldValue
      <4> QED BY <3>1, <4>1 DEF Differs, UnknownExtras
    <3>2. CASE state.note # 0
      <4>1. list[i].note = state.note
        BY <2>1, <2>5, <2>9, <3>2 DEF IInv, Notes
      <4>2. state.note # want.note
        BY <2>2, <2>9, <3>2 DEF NoteDiffers
      <4> QED BY <2>6, <2>9, <4>1, <4>2 DEF Differs
    <3> QED BY <3>1, <3>2
  <2> QED BY <2>4, <2>7, <2>8, <2>9 DEF Replaced, ForcesNew
<1>8. CASE Lost
  <2>1. op' = Planned(NoRecord)
    BY <1>8 DEF Lost, Returns
  <2>2. NoRecord \in Record /\ NoRecord.id = NoId
    <3>1. 0 \in 0..MaxId /\ 0 \in 0..MaxVal
      BY DirectoryAssumption
    <3> QED BY <3>1 DEF NoRecord, Record, NoId
  <2> QED BY <1>3, <2>1, <2>2, PlannedIs DEF Does, Idle
<1> QED BY <1>2, <1>3, <1>4, <1>5, <1>6, <1>7, <1>8
       DEF Shape, Made, Changed, Gone

(* A refresh plans a replacement only of what is not as configured.        *)
THEOREM ReplacesCorrect == Spec => ReplacesOnlyWhatDiffers
<1> DEFINE A == op.kind = "plan" /\ op'.kind = "replace" => Differs
<1>1. IInv /\ [Next]_vars => A
  BY StepReplaces
<1> HIDE DEF A
<1>2. Spec => [][A]_vars
  BY Invariant, <1>1, PTL DEF Spec
<1> USE DEF A
<1> QED BY <1>2 DEF ReplacesOnlyWhatDiffers, Differs

(* The rows are the whole catalogue, or it changed during the read, or the *)
(* server counts nothing and serves shorter pages than it was asked for.   *)
Whole ==
  \/ ToSet(result'.rows) = ToSet(list) /\ Len(result'.rows) = Len(list)
  \/ walk.moved # "no"
  \/ /\ ~dialect.totalPage /\ ~dialect.itemsTotal
     /\ dialect.size < PageSize

(* As many rows as the list has, each in its place, are the list.          *)
LEMMA AllRows ==
  ASSUME list \in Seq(Object), NEW rows \in Seq(Object),
         \A i \in DOMAIN rows : rows[i] = list[i], Len(rows) = Len(list)
  PROVE  ToSet(rows) = ToSet(list)
<1>1. DOMAIN rows = DOMAIN list
  OBVIOUS
<1> QED BY <1>1 DEF ToSet

LEMMA StepEnds ==
  ASSUME IInv, [Next]_vars, op.pc = "catalogue", op' = Idle,
         result' # result, ~result'.warned
  PROVE  Whole
<1> SUFFICES ASSUME walk.moved = "no",
                    ~(/\ ~dialect.totalPage /\ ~dialect.itemsTotal
                      /\ dialect.size < PageSize)
             PROVE  ToSet(result'.rows) = ToSet(list) /\ Len(result'.rows) = Len(list)
  BY DEF Whole
<1>1. CatalogueEnds(result')
  <2>1. dataSourceUpdatableObjectsRead
    <3>1. UNCHANGED result
            \/ (Handler /\ ~dataSourceUpdatableObjectsRead)
            \/ DataSourceStarts \/ dataSourceUpdatableObjectsRead
      BY DEF Next, vars, Apply, ApplyStale, EditConfig, Import, Crash, Rest,
         Console, ConsoleAdds, ConsoleRemoves, ConsoleEdits, ConsoleRemovesUser
    <3>2. ~DataSourceStarts
      BY DEF DataSourceStarts, Idle
    <3>3. ASSUME Handler, ~dataSourceUpdatableObjectsRead PROVE FALSE
      <4>1. kind \in Objects \cup Directory
        BY <3>3, HandlerShapes
      <4> QED BY <4>1 DEF IInv, Calls, Objects, Directory, Users
    <3> QED BY <3>1, <3>2, <3>3
  <2>2. op' # op
    BY DEF Idle
  <2> QED BY <2>1, <2>2 DEF dataSourceUpdatableObjectsRead, CataloguePage,
             CatalogueFails
<1> DEFINE data == Page(walk.page)
<1>2. /\ list \in Seq(Object) /\ dialect \in Dialect
      /\ walk.page \in Nat \ {0} /\ walk.rows \in Seq(Object)
  BY DEF IInv, TypeOK, Calls, Walks
<1>3. /\ Len(walk.rows) = Skipped(walk.page)
      /\ Skipped(walk.page) <= Len(list)
      /\ \A i \in DOMAIN walk.rows : walk.rows[i] = list[i]
      /\ dialect.pages \/ walk.page \in {1, 2}
      /\ walk.page > 1 /\ dialect.itemsTotal => walk.total = {Len(list)}
  BY DEF IInv, Gathered
<1>4. /\ Len(list) \in Nat /\ dialect.size \in Nat \ {0}
      /\ Skipped(walk.page) \in Nat
  <2>1. Len(list) \in Nat
    BY <1>2
  <2>2. dialect.size \in Nat \ {0}
    BY <1>2, SkippedFacts
  <2>3. Skipped(walk.page) \in Nat
    BY <1>2, SkippedFacts
  <2> QED BY <2>1, <2>2, <2>3
<1>5. ~NoProgress(data)
  <2>1. CASE data = <<>>
    BY <2>1 DEF NoProgress
  <2>2. CASE NoProgress(data) /\ Ends(walk.rows, TRUE, result')
    BY <2>2 DEF Ends
  <2>3. data = <<>> \/ ~NoProgress(data)
          \/ (NoProgress(data) /\ Ends(walk.rows, TRUE, result'))
    BY <1>1 DEF CatalogueEnds
  <2> QED BY <2>1, <2>2, <2>3
<1>6. dialect.pages \/ walk.page = 1
  BY <1>5, ProgressPages
<1>7. /\ walk.rows \o data \in Seq(Object)
      /\ Len(walk.rows \o data) = Skipped(walk.page) + Len(data)
      /\ Len(walk.rows \o data) <= Len(list)
      /\ \A i \in DOMAIN (walk.rows \o data) : (walk.rows \o data)[i] = list[i]
  BY <1>6, RowsAndPage
<1>8. Len(data) = IF Skipped(walk.page) + dialect.size <= Len(list)
                  THEN dialect.size
                  ELSE IF Skipped(walk.page) < Len(list)
                       THEN Len(list) - Skipped(walk.page) ELSE 0
  BY <1>2, <1>6, PageShows
<1>9. dialect.itemsTotal => Total = {Len(list)}
  <2>1. walk.page = 1 \/ walk.page > 1
    BY <1>2
  <2> QED BY <1>3, <2>1 DEF Total
<1> HIDE DEF data
<1>10. CASE data = <<>> /\ Ends(walk.rows, FALSE, result')
  <2>1. result'.rows = walk.rows
    BY <1>10 DEF Ends
  <2>2. Len(data) = 0
    BY <1>10
  <2>3. Len(walk.rows) = Len(list)
    BY <1>3, <1>4, <1>8, <2>2
  <2> QED BY <1>2, <1>3, <2>1, <2>3, AllRows
<1>11. CASE /\ data # <<>> /\ ~NoProgress(data)
            /\ LastPage(data) \/ walk.page = MaxPages
            /\ Ends(walk.rows \o data, ~LastPage(data), result')
  <2>1. /\ result'.rows = walk.rows \o data
        /\ LastPage(data)
        /\ Total = {} \/ Total = {Len(walk.rows \o data)}
    BY <1>11 DEF Ends
  <2>2. Len(walk.rows \o data) = Len(list)
    <3>1. CASE dialect.totalPage
      <4>1. walk.page >= TotalPage
        BY <2>1, <3>1 DEF LastPage
      <4>2. Len(list) <= Skipped(walk.page) + dialect.size
        BY <1>2, <4>1, SkippedFacts
      <4> QED BY <1>3, <1>4, <1>7, <1>8, <4>2
    <3>2. CASE ~dialect.totalPage /\ dialect.itemsTotal
      BY <1>9, <2>1, <3>2
    <3>3. CASE ~dialect.totalPage /\ ~dialect.itemsTotal
      <4>1. Len(data) < PageSize
        BY <2>1, <3>3 DEF LastPage
      <4>2. dialect.size \in {1, PageSize} /\ PageSize \in Nat \ {0}
        BY <1>2, PagesAssumption DEF Dialect
      <4>3. dialect.size = PageSize
        BY <3>3, <4>2
      <4> QED BY <1>3, <1>4, <1>7, <1>8, <4>1, <4>3
    <3> QED BY <3>1, <3>2, <3>3
  <2> QED BY <1>2, <1>7, <2>1, <2>2, AllRows
<1> QED BY <1>1, <1>5, <1>10, <1>11 DEF CatalogueEnds, data

(* A result without a warning is the whole catalogue.                      *)
THEOREM WholeCorrect == Spec => WholeOrWarned
<1> DEFINE A == op.pc = "catalogue" /\ op' = Idle /\ result' # result
                  /\ ~result'.warned => Whole
<1>1. IInv /\ [Next]_vars => A
  BY StepEnds
<1> HIDE DEF A
<1>2. Spec => [][A]_vars
  BY Invariant, <1>1, PTL DEF Spec
<1> USE DEF A
<1> QED BY <1>2 DEF WholeOrWarned, Whole
=============================================================================
