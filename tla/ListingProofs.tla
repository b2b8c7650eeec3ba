--------------------------- MODULE ListingProofs ----------------------------
(***************************************************************************)
(* Proofs about Listing for every set of objects, sessions, requests and   *)
(* selectors, every page size and every number of replicas.                *)
(***************************************************************************)
EXTENDS Listing, StoreProofs, FiniteSetTheorems

-----------------------------------------------------------------------------
(***************************************************************************)
(* Initial segments of a finite set M that is ordered by f.                *)
(***************************************************************************)

\* The place of k in M, from 1.
Rank(M, f, k) == Cardinality({j \in M : f[j] <= f[k]})

\* The first n members of M.
Low(M, f, n) == {k \in M : Rank(M, f, k) <= n}

\* f orders M: no two members have the same value.
Orders(M, f) ==
    /\ \A k \in M : f[k] \in Nat
    /\ \A j, k \in M : f[j] = f[k] => j = k

\* A larger value means a larger rank.
LEMMA RankMonotone ==
    ASSUME NEW M, NEW f, IsFiniteSet(M), Orders(M, f)
    PROVE  /\ \A k \in M : Rank(M, f, k) \in 1..Cardinality(M)
           /\ \A j, k \in M : f[j] <= f[k] => Rank(M, f, j) <= Rank(M, f, k)
           /\ \A j, k \in M : f[j] < f[k] => Rank(M, f, j) < Rank(M, f, k)
<1> DEFINE Upto(k) == {j \in M : f[j] <= f[k]}
<1>1. ASSUME NEW k \in M
      PROVE  /\ IsFiniteSet(Upto(k)) /\ Rank(M, f, k) = Cardinality(Upto(k))
             /\ Rank(M, f, k) \in Nat /\ Rank(M, f, k) <= Cardinality(M)
             /\ k \in Upto(k)
  <2>1. Upto(k) \in SUBSET M
    OBVIOUS
  <2>2. IsFiniteSet(Upto(k)) /\ Cardinality(Upto(k)) <= Cardinality(M)
    BY <2>1, FS_Subset
  <2>3. Cardinality(Upto(k)) \in Nat
    BY <2>2, FS_CardinalityType
  <2>4. k \in Upto(k)
    BY DEF Orders
  <2> QED
    BY <2>2, <2>3, <2>4 DEF Rank
<1>2. ASSUME NEW k \in M PROVE Rank(M, f, k) # 0
  <2>1. Upto(k) # {}
    BY <1>1
  <2> QED
    BY <1>1, <2>1, FS_EmptySet
<1>3. ASSUME NEW j \in M, NEW k \in M, f[j] <= f[k]
      PROVE  Upto(j) \in SUBSET Upto(k) /\ Rank(M, f, j) <= Rank(M, f, k)
  <2>1. Upto(j) \in SUBSET Upto(k)
    BY <1>3 DEF Orders
  <2>2. Cardinality(Upto(j)) <= Cardinality(Upto(k))
    BY <1>1, <2>1, FS_Subset
  <2> QED
    BY <1>1, <2>1, <2>2
<1>4. ASSUME NEW j \in M, NEW k \in M, f[j] < f[k]
      PROVE  Rank(M, f, j) < Rank(M, f, k)
  <2>1. f[j] \in Nat /\ f[k] \in Nat /\ f[j] <= f[k] /\ ~(f[k] <= f[j])
    BY <1>4 DEF Orders
  <2>2. k \in Upto(k) /\ k \notin Upto(j)
    BY <1>1, <2>1
  <2>3. Upto(j) \in SUBSET Upto(k) /\ Rank(M, f, j) <= Rank(M, f, k)
    BY <1>3, <2>1
  <2>4. Cardinality(Upto(k)) # Cardinality(Upto(j))
    BY <1>1, <2>2, <2>3, FS_Subset
  <2>5. Rank(M, f, j) # Rank(M, f, k)
    BY <1>1, <2>4
  <2>6. Rank(M, f, j) \in Nat /\ Rank(M, f, k) \in Nat
    BY <1>1
  <2> QED
    BY <2>3, <2>5, <2>6
<1>5. Cardinality(M) \in Nat
  BY FS_CardinalityType
<1> HIDE DEF Upto
<1>6. \A k \in M : Rank(M, f, k) \in 1..Cardinality(M)
  BY <1>1, <1>2, <1>5
<1> QED
  BY <1>3, <1>4, <1>6

\* Ranks number the members of M from 1, without gaps.
LEMMA RankBijects ==
    ASSUME NEW M, NEW f, IsFiniteSet(M), Orders(M, f)
    PROVE  /\ \A j, k \in M : Rank(M, f, j) = Rank(M, f, k) => j = k
           /\ \A i \in 1..Cardinality(M) : \E k \in M : Rank(M, f, k) = i
<1> DEFINE n == Cardinality(M)
           r == [k \in M |-> Rank(M, f, k)]
<1>1. n \in Nat
  BY FS_CardinalityType
<1>2. \A k \in M : Rank(M, f, k) \in 1..n
  BY RankMonotone
<1>3. ASSUME NEW j \in M, NEW k \in M, j # k PROVE Rank(M, f, j) # Rank(M, f, k)
  <2>1. f[j] \in Nat /\ f[k] \in Nat /\ f[j] # f[k]
    BY <1>3 DEF Orders
  <2>2. f[j] < f[k] \/ f[k] < f[j]
    BY <2>1
  <2>3. Rank(M, f, j) < Rank(M, f, k) \/ Rank(M, f, k) < Rank(M, f, j)
    BY <2>2, RankMonotone
  <2>4. Rank(M, f, j) \in Int /\ Rank(M, f, k) \in Int
    BY <1>2
  <2> QED
    BY <2>3, <2>4
<1>4. r \in Injection(M, 1..n)
  BY <1>2, <1>3 DEF Injection, IsInjective
<1>5. IsFiniteSet(1..n) /\ Cardinality(1..n) = n
  BY <1>1, FS_Interval
<1>6. r \in Surjection(M, 1..n)
  <2> HIDE DEF r
  <2> QED BY <1>4, <1>5, FS_Injection
<1>7. \A i \in 1..n : \E k \in M : r[k] = i
  BY <1>6 DEF Surjection
<1> QED
  BY <1>3, <1>7

\* The members of M between two places of its order are as many as the places.
LEMMA RankInterval ==
    ASSUME NEW M, NEW f, IsFiniteSet(M), Orders(M, f), NEW a \in Nat, NEW b \in Nat, a <= b
    PROVE  LET T == {k \in M : a < Rank(M, f, k) /\ Rank(M, f, k) <= b}
           IN  /\ IsFiniteSet(T) /\ Cardinality(T) <= b - a
               /\ b <= Cardinality(M) => Cardinality(T) = b - a
<1> DEFINE T == {k \in M : a < Rank(M, f, k) /\ Rank(M, f, k) <= b}
           r == [k \in T |-> Rank(M, f, k)]
           I == (a + 1)..b
<1>1. IsFiniteSet(I) /\ Cardinality(I) = b - a
  <2>1. IsFiniteSet((a + 1)..b)
        /\ Cardinality((a + 1)..b) = IF a + 1 > b THEN 0 ELSE b - (a + 1) + 1
    BY FS_Interval
  <2> QED
    BY <2>1
<1>2. \A k \in M : Rank(M, f, k) \in Nat /\ Rank(M, f, k) <= Cardinality(M)
  BY RankMonotone, FS_CardinalityType
<1>3. r \in Injection(T, I)
  <2>1. \A k \in T : r[k] \in I
    BY <1>2
  <2>2. \A j, k \in T : r[j] = r[k] => j = k
    BY RankBijects
  <2> QED
    BY <2>1, <2>2 DEF Injection, IsInjective
<1>4. IsFiniteSet(T) /\ Cardinality(T) <= Cardinality(I)
  <2> HIDE DEF T, r, I
  <2> QED BY <1>1, <1>3, FS_Injection
<1>5. ASSUME b <= Cardinality(M) PROVE Cardinality(T) = Cardinality(I)
  <2>1. ASSUME NEW i \in I PROVE \E k \in T : r[k] = i
    <3>1. i \in 1..Cardinality(M) /\ a < i /\ i <= b
      BY <1>5, FS_CardinalityType
    <3>2. PICK k \in M : Rank(M, f, k) = i
      BY <3>1, RankBijects
    <3> QED
      BY <3>1, <3>2
  <2>2. r \in Surjection(T, I)
    BY <1>3, <2>1 DEF Injection, Surjection
  <2> HIDE DEF T, r, I
  <2> QED
    BY <1>1, <1>3, <2>2, FS_Injection
<1> QED
  BY <1>1, <1>4, <1>5

\* The first n members of M are n, unless they are all of M.
LEMMA LowSize ==
    ASSUME NEW M, NEW f, IsFiniteSet(M), Orders(M, f), NEW n \in Nat
    PROVE  /\ IsFiniteSet(Low(M, f, n)) /\ Cardinality(Low(M, f, n)) \in Nat
           /\ Cardinality(Low(M, f, n)) <= n
           /\ Low(M, f, n) # M => Cardinality(Low(M, f, n)) = n
<1> DEFINE T == {k \in M : 0 < Rank(M, f, k) /\ Rank(M, f, k) <= n}
<1>1. \A k \in M : /\ Rank(M, f, k) \in Nat /\ 0 < Rank(M, f, k)
                   /\ Rank(M, f, k) <= Cardinality(M)
  BY RankMonotone, FS_CardinalityType
<1>2. Low(M, f, n) = T
  BY <1>1 DEF Low
<1>3. /\ IsFiniteSet(T) /\ Cardinality(T) <= n - 0
      /\ n <= Cardinality(M) => Cardinality(T) = n - 0
  BY RankInterval
<1>4. Cardinality(T) \in Nat /\ Cardinality(M) \in Nat
  BY <1>3, FS_CardinalityType
<1>5. Low(M, f, n) # M => n <= Cardinality(M)
  BY <1>1, <1>4 DEF Low
<1> HIDE DEF T
<1> QED
  BY <1>2, <1>3, <1>4, <1>5

\* When the order of a table changes at the members of C only, what comes among
\* its first n without having been changed is at most what was changed among
\* the first n before.
LEMMA SegmentGrowth ==
    ASSUME NEW M, NEW f, IsFiniteSet(M), Orders(M, f),
           NEW N, NEW g, IsFiniteSet(N), Orders(N, g),
           NEW C, M \ C = N \ C, \A k \in M \ C : g[k] = f[k],
           NEW n \in Nat
    PROVE  /\ IsFiniteSet((Low(N, g, n) \ Low(M, f, n)) \ C)
           /\ IsFiniteSet(Low(M, f, n) \cap C)
           /\ Cardinality((Low(N, g, n) \ Low(M, f, n)) \ C)
                <= Cardinality(Low(M, f, n) \cap C)
<1> DEFINE P == Low(M, f, n)
           Q == Low(N, g, n)
           New == (Q \ P) \ C
<1>1. /\ IsFiniteSet(P) /\ Cardinality(P) \in Nat /\ Cardinality(P) <= n
      /\ P # M => Cardinality(P) = n
  BY LowSize
<1>2. IsFiniteSet(Q) /\ Cardinality(Q) \in Nat /\ Cardinality(Q) <= n
  BY LowSize
<1>3. P \subseteq M /\ Q \subseteq N
  BY DEF Low
<1>4. ASSUME NEW x \in New PROVE P \ C \subseteq Q /\ P # M
  <2>1. x \in N /\ x \in M /\ x \notin C /\ x \in Q /\ x \notin P /\ g[x] = f[x]
    BY <1>3, <1>4
  <2>2. ~(Rank(M, f, x) <= n) /\ Rank(N, g, x) <= n
    BY <2>1 DEF Low
  <2>3. ASSUME NEW j \in P \ C PROVE j \in Q
    <3>1. j \in M /\ j \in N /\ g[j] = f[j] /\ Rank(M, f, j) <= n
      BY <1>3, <2>3 DEF Low
    <3>2. Rank(M, f, j) \in Int /\ Rank(M, f, x) \in Int /\ Rank(N, g, j) \in Int
          /\ Rank(N, g, x) \in Int
      BY <2>1, <3>1, RankMonotone
    <3>3. f[j] \in Nat /\ f[x] \in Nat
      BY <2>1, <3>1 DEF Orders
    <3>4. ~(Rank(M, f, x) <= Rank(M, f, j))
      BY <2>2, <3>1, <3>2
    <3>5. ~(f[x] <= f[j])
      BY <2>1, <3>1, <3>4, RankMonotone
    <3>6. g[j] <= g[x]
      BY <2>1, <3>1, <3>3, <3>5
    <3>7. Rank(N, g, j) <= Rank(N, g, x)
      BY <2>1, <3>1, <3>6, RankMonotone
    <3>8. Rank(N, g, j) <= n
      BY <2>2, <3>2, <3>7
    <3> QED
      BY <3>1, <3>8 DEF Low
  <2> QED
    BY <2>1, <2>3
<1> HIDE DEF P, Q
<1>5. IsFiniteSet(P \cap C) /\ Cardinality(P \cap C) \in Nat
  <2>1. IsFiniteSet(P \cap C)
    BY <1>1, FS_Intersection
  <2> QED
    BY <2>1, FS_CardinalityType
<1>6. IsFiniteSet(New)
  BY <1>2, FS_Difference
<1>7. ASSUME New = {} PROVE Cardinality(New) <= Cardinality(P \cap C)
  BY <1>5, <1>7, FS_EmptySet
<1>8. ASSUME New # {} PROVE Cardinality(New) <= Cardinality(P \cap C)
  <2>1. P \ C \subseteq Q /\ P # M
    BY <1>4, <1>8
  <2>2. (Q \ C) \ (P \ C) = New /\ (Q \ C) \cap (P \ C) = P \ C
    BY <2>1
  <2>3. /\ IsFiniteSet(Q \ C) /\ Cardinality(Q \ C) = Cardinality(Q) - Cardinality(Q \cap C)
        /\ IsFiniteSet(P \ C) /\ Cardinality(P \ C) = Cardinality(P) - Cardinality(P \cap C)
    BY <1>1, <1>2, FS_Difference
  <2>4. Cardinality((Q \ C) \ (P \ C)) = Cardinality(Q \ C) - Cardinality((Q \ C) \cap (P \ C))
    BY <2>3, FS_Difference
  <2>5. Cardinality(Q \cap C) \in Nat
    <3>1. IsFiniteSet(Q \cap C)
      BY <1>2, FS_Intersection
    <3> QED
      BY <3>1, FS_CardinalityType
  <2>6. Cardinality(New) = Cardinality(Q \ C) - Cardinality(P \ C)
    BY <2>2, <2>4
  <2> QED
    BY <1>1, <1>2, <1>5, <2>1, <2>3, <2>5, <2>6
<1> QED
  BY <1>5, <1>6, <1>7, <1>8 DEF P, Q

-----------------------------------------------------------------------------
(***************************************************************************)
(* The order in which List scans a table.                                  *)
(***************************************************************************)

\* The rows of table t that List's WHERE clause lets through, and their stamps.
Match(t) == {k \in Keys : Where(k, t[k])}
Stamps(t) == [k \in Keys |-> t[k].stamp]

\* A table in which stamps order the rows.
Table(t) ==
    /\ t \in [Keys -> Row \cup {NoRow}]
    /\ \A j, k \in Keys : t[j] # NoRow /\ t[k] # NoRow /\ t[j].stamp = t[k].stamp => j = k

\* Stamps order what List scans, and what it scans are objects.
LEMMA MatchOrdered ==
    ASSUME NEW t, Table(t)
    PROVE  /\ IsFiniteSet(Match(t)) /\ Orders(Match(t), Stamps(t))
           /\ \A k \in Match(t) :
                /\ t[k] \in Row /\ t[k] # NoRow /\ ~Tombstone(t[k])
                /\ Rank(Match(t), Stamps(t), k)
                     = Cardinality({j \in Match(t) : t[j].stamp <= t[k].stamp})
<1>1. Match(t) \in SUBSET Keys
  BY DEF Match
<1>2. IsFiniteSet(Match(t))
  BY <1>1, FS_Subset, ListingAssumption
<1>3. \A k \in Match(t) : t[k] \in Row /\ t[k] # NoRow /\ ~Tombstone(t[k])
  BY RowAssumption DEF Match, Where, Shown, Table
<1>4. \A k \in Match(t) : Stamps(t)[k] = t[k].stamp /\ t[k].stamp \in Nat
  BY <1>1, <1>3 DEF Stamps, Row
<1>5. Orders(Match(t), Stamps(t))
  BY <1>1, <1>3, <1>4 DEF Orders, Table
<1>6. ASSUME NEW k \in Match(t)
      PROVE  Rank(Match(t), Stamps(t), k)
               = Cardinality({j \in Match(t) : t[j].stamp <= t[k].stamp})
  <2>1. {j \in Match(t) : Stamps(t)[j] <= Stamps(t)[k]}
          = {j \in Match(t) : t[j].stamp <= t[k].stamp}
    BY <1>4
  <2> QED
    BY <2>1 DEF Rank
<1> QED
  BY <1>2, <1>3, <1>5, <1>6

\* The invariants make the table such a table.
LEMMA StoreTable == StoreInv /\ StampsDistinct => Table(rows)
  BY DEF StoreInv, StoreTypeOK, StampsDistinct, Table

\* Place, Scan and Prefix in terms of ranks.
LEMMA Places ==
    ASSUME StoreInv, StampsDistinct
    PROVE  /\ Matching = Match(rows)
           /\ \A k \in Matching : Place(k) = Rank(Match(rows), Stamps(rows), k)
           /\ \A k \in Matching : Place(k) \in Nat \ {0}
<1>1. Matching = Match(rows)
  BY DEF Matching, Match
<1>2. \A k \in Matching : Place(k) = Rank(Match(rows), Stamps(rows), k)
  BY <1>1, StoreTable, MatchOrdered DEF Place
<1>3. \A k \in Match(rows) : Rank(Match(rows), Stamps(rows), k) \in 1..Cardinality(Match(rows))
  BY StoreTable, MatchOrdered, RankMonotone
<1> QED
  BY <1>1, <1>2, <1>3

\* What has been paged over is an initial segment of the order, also after a step.
LEMMA PrefixIsLow ==
    ASSUME StoreInv, StampsDistinct, lpc = "more"
    PROVE  Prefix = Low(Match(rows), Stamps(rows), DecodeContinue(token))
  BY Places DEF Prefix, Low

\* The same in the next state.
LEMMA PrefixIsLowAfter ==
    ASSUME Table(rows'), lpc' = "more"
    PROVE  Prefix' = Low(Match(rows'), Stamps(rows'), DecodeContinue(token)')
<1>1. Matching' = Match(rows')
  BY DEF Matching, Match
<1>2. \A k \in Match(rows') : Rank(Match(rows'), Stamps(rows'), k)
         = Cardinality({j \in Match(rows') : rows'[j].stamp <= rows'[k].stamp})
  BY MatchOrdered
<1>3. Prefix' = {k \in Match(rows') :
           Cardinality({j \in Match(rows') : rows'[j].stamp <= rows'[k].stamp})
             <= DecodeContinue(token)'}
  BY <1>1 DEF Prefix, Place
<1> QED
  BY <1>2, <1>3 DEF Low

\* A page holds as many rows as the limit says, unless it is the last one.
LEMMA ScanFull ==
    ASSUME StoreInv, StampsDistinct, NEW offset \in Nat
    PROVE  /\ IsFiniteSet(Scan(offset))
           /\ Cardinality(Scan(offset)) # Limit
                => \A k \in Matching : Place(k) <= offset + Limit
<1> DEFINE M == Match(rows)
           f == Stamps(rows)
<1>1. IsFiniteSet(M) /\ Orders(M, f)
  BY StoreTable, MatchOrdered
<1>2. Limit \in Nat /\ offset + Limit \in Nat /\ offset <= offset + Limit
  BY ListingAssumption
<1>3. Scan(offset) = {k \in M : offset < Rank(M, f, k) /\ Rank(M, f, k) <= offset + Limit}
  BY Places DEF Scan
<1> HIDE DEF M, f
<1>4. /\ IsFiniteSet(Scan(offset))
      /\ offset + Limit <= Cardinality(M) => Cardinality(Scan(offset)) = (offset + Limit) - offset
  BY <1>1, <1>2, <1>3, RankInterval
<1>5. Cardinality(M) \in Nat
  BY <1>1, FS_CardinalityType
<1>6. \A k \in M : Rank(M, f, k) \in 1..Cardinality(M)
  BY <1>1, RankMonotone
<1>7. Cardinality(Scan(offset)) # Limit => Cardinality(M) < offset + Limit
  BY <1>2, <1>4, <1>5
<1>8. \A k \in Matching : k \in M /\ Place(k) = Rank(M, f, k)
  BY Places DEF M, f
<1>9. Cardinality(Scan(offset)) # Limit => \A k \in M : Rank(M, f, k) <= offset + Limit
  BY <1>2, <1>5, <1>6, <1>7
<1> QED
  BY <1>4, <1>8, <1>9

-----------------------------------------------------------------------------
(***************************************************************************)
(* The resourceVersion of the first page.                                  *)
(***************************************************************************)

\* What String writes, Parse reads.
LEMMA ParseCollection ==
    ASSUME NEW n \in Nat
    PROVE  /\ R!String(R!RV(0, n)) \in Seq(R!Token)
           /\ R!Parse(R!String(R!RV(0, n))).watermark = n
<1> DEFINE s == R!String(R!RV(0, n))
<1>1. s = <<R!Number(n)>>
  BY DEF R!String, R!RV
<1>2. R!Number(n) \in R!Token /\ R!Number(n).kind = "number" /\ R!Number(n).value = n
  BY DEF R!Number, R!Token
<1>3. R!Number(n) # R!Letter
  BY DEF R!Number, R!Letter
<1> HIDE DEF s
<1>4. s \in Seq(R!Token) /\ Len(s) = 1 /\ s # <<>> /\ s[1] = R!Number(n)
  BY <1>1, <1>2
<1>5. R!Parse(s) = R!Watermark(0, s)
  BY <1>3, <1>4 DEF R!Parse
<1>6. R!Watermark(0, s) = R!RV(0, n)
  BY <1>2, <1>4 DEF R!Watermark, R!IsNumber
<1> QED
  BY <1>4, <1>5, <1>6 DEF s, R!RV

\* The empty resourceVersion is watermark 0.
LEMMA ParseEmpty == R!Parse(<<>>).watermark = 0
  BY DEF R!Parse, R!RV

-----------------------------------------------------------------------------

\* The rows that were there before are rows, stamped in the order of Seeds.
LEMMA SeedRows ==
    ASSUME ListingInit
    PROVE  /\ nextXid = Len(Seeds) + 1 /\ Len(Seeds) \in Nat
           /\ rows \in [Keys -> Row \cup {NoRow}]
           /\ \A k \in Keys : rows[k] # NoRow =>
                \E i \in 1..Len(Seeds) : Seeds[i].key = k /\ rows[k].stamp = i
<1>1. Len(Seeds) \in Nat /\ DOMAIN Seeds = 1..Len(Seeds)
  BY ListingAssumption
<1>2. Cardinality(1..Len(Seeds)) = Len(Seeds)
  <2>1. Cardinality(1..Len(Seeds)) = IF 1 > Len(Seeds) THEN 0 ELSE Len(Seeds) - 1 + 1
    BY <1>1, FS_Interval
  <2> QED
    BY <1>1, <2>1
<1>3. \A i \in 1..Len(Seeds) : Inserted(Seeds[i], i) \in Row /\ Inserted(Seeds[i], i).stamp = i
  <2> SUFFICES ASSUME NEW i \in 1..Len(Seeds)
               PROVE  Inserted(Seeds[i], i) \in Row /\ Inserted(Seeds[i], i).stamp = i
    OBVIOUS
  <2>1. Seeds[i] \in Request /\ Seeds[i].expected = 0 /\ Admitted(Seeds[i])
    BY ListingAssumption
  <2>2. Seeds[i].spec \in Vals /\ Seeds[i].status \in Vals /\ Seeds[i].fin \in BOOLEAN
        /\ Seeds[i].del \in Nat
    BY <2>1 DEF Request, Admitted
  <2> QED
    BY <1>1, <2>2 DEF Inserted, Row
<1>4. ASSUME NEW k \in Keys
      PROVE  \/ rows[k] = NoRow
             \/ \E i \in 1..Len(Seeds) : Seeds[i].key = k /\ rows[k] = Inserted(Seeds[i], i)
  <2>1. CASE \E i \in DOMAIN Seeds : Seeds[i].key = k
    <3> DEFINE i == CHOOSE i \in DOMAIN Seeds : Seeds[i].key = k
    <3>1. i \in DOMAIN Seeds /\ Seeds[i].key = k
      BY <2>1
    <3>2. rows[k] = Inserted(Seeds[i], i)
      BY <2>1 DEF ListingInit
    <3> HIDE DEF i
    <3> QED
      BY <1>1, <3>1, <3>2
  <2>2. CASE ~\E i \in DOMAIN Seeds : Seeds[i].key = k
    BY <2>2 DEF ListingInit
  <2> QED
    BY <2>1, <2>2
<1>5. \A k \in Keys : rows[k] \in Row \cup {NoRow}
  BY <1>3, <1>4
<1>6. rows \in [Keys -> Row \cup {NoRow}]
  BY <1>5 DEF ListingInit
<1>7. nextXid = Len(Seeds) + 1
  BY <1>1, <1>2 DEF ListingInit
<1>8. \A k \in Keys : rows[k] # NoRow =>
         \E i \in 1..Len(Seeds) : Seeds[i].key = k /\ rows[k].stamp = i
  BY <1>3, <1>4
<1> QED
  BY <1>1, <1>6, <1>7, <1>8

\* The inductive invariant holds before the first page.
LEMMA ListingInitInv == ListingInit => ListingInv
<1> SUFFICES ASSUME ListingInit PROVE ListingInv
  OBVIOUS
<1>1. StoreInv
  <2>1. StoreTypeOK
    BY SeedRows, NoReqFact DEF ListingInit, StoreTypeOK
  <2>2. XidInv
    BY SeedRows DEF ListingInit, XidInv, InFlight
  <2>3. LockExclusion /\ ReviveIsCreate
    BY DEF ListingInit, LockExclusion, Holds, ReviveIsCreate
  <2>4. PendingFits
    BY DEF ListingInit, PendingFits
  <2> QED
    BY <2>1, <2>2, <2>3, <2>4 DEF StoreInv
<1>2. StampsDistinct
  <2>1. \A c \in Clients : ~InFlight(c)
    BY DEF ListingInit, InFlight
  <2>2. \A j, k \in Keys :
          rows[j] # NoRow /\ rows[k] # NoRow /\ rows[j].stamp = rows[k].stamp => j = k
    BY SeedRows
  <2> QED
    BY <2>1, <2>2 DEF StampsDistinct
<1>3. ListingTypeOK
  BY DEF ListingInit, ListingTypeOK
<1>4. From = 0
  BY ParseEmpty DEF From, ListingInit
<1>5. PageInv
  BY <1>4, SeedRows DEF ListingInit, PageInv, Tombstone, InFlight
<1>6. FirstPageCovers
  BY DEF ListingInit, FirstPageCovers
<1>7. stable = {} /\ left = 0 /\ entered = 0
  BY DEF ListingInit
<1>8. Missed = {} /\ Repeats = {} /\ PushedOut = {}
  BY <1>7 DEF Missed, Returned, Repeats, PushedOut
<1>9. SkipsExplained /\ RepeatBudget
  BY <1>7, <1>8, FS_EmptySet DEF SkipsExplained, RepeatBudget
<1> QED
  BY <1>1, <1>2, <1>3, <1>5, <1>6, <1>9 DEF ListingInv

-----------------------------------------------------------------------------
(***************************************************************************)
(* The sets that the bounds count are finite.                              *)
(***************************************************************************)

\* Each page adds at most one repetition of an object, so there are finitely many.
LEMMA CountsFinite ==
    ASSUME ListingTypeOK
    PROVE  /\ IsFiniteSet(stable) /\ IsFiniteSet(Missed) /\ IsFiniteSet(PushedOut)
           /\ IsFiniteSet(Repeats)
<1>1. IsFiniteSet(stable)
  <2>1. stable \in SUBSET Keys
    BY DEF ListingTypeOK
  <2> QED
    BY <2>1, FS_Subset, ListingAssumption
<1>2. Missed \in SUBSET stable /\ PushedOut \in SUBSET stable
  BY DEF Missed, Returned, PushedOut
<1>3. IsFiniteSet(Missed) /\ IsFiniteSet(PushedOut)
  BY <1>1, <1>2, FS_Subset
<1>4. IsFiniteSet(Repeats)
  <2> DEFINE B(k) == {k} \X (2..times[k])
             F == {B(k) : k \in stable}
             b == [k \in stable |-> B(k)]
  <2>1. ASSUME NEW k \in stable PROVE IsFiniteSet(B(k))
    <3>1. times[k] \in Nat
      BY DEF ListingTypeOK
    <3>2. IsFiniteSet(2..times[k])
      BY <3>1, FS_Interval
    <3>3. IsFiniteSet({k})
      BY FS_Singleton
    <3> QED
      BY <3>2, <3>3, FS_Product
  <2>2. b \in Surjection(stable, F)
    BY DEF Surjection
  <2>3. IsFiniteSet(F)
    <3> HIDE DEF F, b
    <3> QED BY <1>1, <2>2, FS_Surjection
  <2>4. \A T \in F : IsFiniteSet(T)
    BY <2>1
  <2>5. IsFiniteSet(UNION F)
    <3> HIDE DEF F
    <3> QED BY <2>3, <2>4, FS_UNION
  <2> QED
    BY <2>5 DEF Repeats
<1> QED
  BY <1>1, <1>3, <1>4

\* What two sets cover is no more than both.
LEMMA CoverSize ==
    ASSUME NEW A, NEW B, NEW T, IsFiniteSet(A), IsFiniteSet(B), T \subseteq A \cup B
    PROVE  /\ Cardinality(A) \in Nat /\ Cardinality(B) \in Nat /\ Cardinality(T) \in Nat
           /\ IsFiniteSet(T) /\ Cardinality(T) <= Cardinality(A) + Cardinality(B)
<1>1. /\ IsFiniteSet(A \cup B)
      /\ Cardinality(A \cup B) = Cardinality(A) + Cardinality(B) - Cardinality(A \cap B)
  BY FS_Union
<1>2. IsFiniteSet(T) /\ Cardinality(T) <= Cardinality(A \cup B)
  BY <1>1, FS_Subset
<1>3. IsFiniteSet(A \cap B)
  BY FS_Intersection
<1>4. Cardinality(A) \in Nat /\ Cardinality(B) \in Nat /\ Cardinality(T) \in Nat
      /\ Cardinality(A \cap B) \in Nat
  BY <1>2, <1>3, FS_CardinalityType
<1> QED
  BY <1>1, <1>2, <1>4

\* A continue token skips at least one row, and no token skips none.
LEMMA OffsetType ==
    ASSUME ListingTypeOK
    PROVE  /\ DecodeContinue(token) \in Nat
           /\ token # NoToken => DecodeContinue(token) \in Nat \ {0}
           /\ token = NoToken => DecodeContinue(token) = 0
  BY DEF ListingTypeOK, DecodeContinue

-----------------------------------------------------------------------------
(***************************************************************************)
(* Steps of the writers and of Compact, between two pages.                 *)
(***************************************************************************)

\* The rows a step changes.
Changed == {k \in Keys : rows'[k] # rows[k]}

\* The invariants of the store survive a step between two pages.
LEMMA StoreStepStore ==
    ASSUME ListingInv, StoreStep
    PROVE  /\ StoreNext /\ StoreInv /\ StoreInv' /\ StampsDistinct /\ StampsDistinct'
           /\ Table(rows) /\ Table(rows')
<1>1. StoreNext /\ StoreInv /\ StampsDistinct
  BY DEF StoreStep, ListingInv
<1>2. StoreInv'
  BY <1>1, StoreNextKeepsInv
<1>3. StampsDistinct'
  BY <1>1, StampsStayDistinct
<1>4. Table(rows)
  BY <1>1, StoreTable
<1>5. Table(rows')
  BY <1>2, <1>3 DEF StoreInv, StoreTypeOK, StampsDistinct, Table
<1> QED
  BY <1>1, <1>2, <1>3, <1>4, <1>5

\* Unchanged rows cross the end of the part already paged over in either
\* direction only as far as changed ones have left it or entered it.
LEMMA PrefixMoves ==
    ASSUME ListingInv, StoreStep
    PROVE  /\ IsFiniteSet(Changed \cap Prefix) /\ IsFiniteSet(Changed \cap Prefix')
           /\ IsFiniteSet((Prefix' \ Prefix) \ Changed)
           /\ IsFiniteSet((Prefix \ Prefix') \ Changed)
           /\ Cardinality((Prefix' \ Prefix) \ Changed) <= Cardinality(Changed \cap Prefix)
           /\ Cardinality((Prefix \ Prefix') \ Changed) <= Cardinality(Changed \cap Prefix')
<1> DEFINE M == Match(rows)
           f == Stamps(rows)
           N == Match(rows')
           g == Stamps(rows')
           C == Changed
           n == DecodeContinue(token)
<1>1. UNCHANGED <<lpc, token>>
  BY DEF StoreStep
<1>2. CASE lpc # "more"
  <2>1. Prefix = {} /\ Prefix' = {}
    BY <1>1, <1>2 DEF Prefix
  <2>2. /\ Changed \cap Prefix = {} /\ Changed \cap Prefix' = {}
        /\ (Prefix' \ Prefix) \ Changed = {} /\ (Prefix \ Prefix') \ Changed = {}
    BY <2>1
  <2> QED
    BY <2>2, FS_EmptySet
<1>3. CASE lpc = "more"
  <2>1. n \in Nat
    BY OffsetType DEF ListingInv
  <2>2. /\ IsFiniteSet(M) /\ Orders(M, f)
        /\ IsFiniteSet(N) /\ Orders(N, g)
    BY StoreStepStore, MatchOrdered
  <2>3. M \ C = N \ C
    BY DEF Match, Changed
  <2>4. \A k \in M \ C : g[k] = f[k]
    BY DEF Match, Changed, Stamps
  <2>5. \A k \in N \ C : f[k] = g[k]
    BY <2>3, <2>4
  <2>6. Prefix = Low(M, f, n)
    BY <1>3, StoreStepStore, PrefixIsLow
  <2>7. DecodeContinue(token)' = n
    BY <1>1 DEF DecodeContinue
  <2>8. Prefix' = Low(N, g, n)
    BY <1>1, <1>3, <2>7, StoreStepStore, PrefixIsLowAfter
  <2> HIDE DEF M, f, N, g, C, n
  <2>9. /\ IsFiniteSet((Low(N, g, n) \ Low(M, f, n)) \ C)
        /\ IsFiniteSet(Low(M, f, n) \cap C)
        /\ Cardinality((Low(N, g, n) \ Low(M, f, n)) \ C) <= Cardinality(Low(M, f, n) \cap C)
    BY <2>1, <2>2, <2>3, <2>4, SegmentGrowth
  <2>10. /\ IsFiniteSet((Low(M, f, n) \ Low(N, g, n)) \ C)
         /\ IsFiniteSet(Low(N, g, n) \cap C)
         /\ Cardinality((Low(M, f, n) \ Low(N, g, n)) \ C) <= Cardinality(Low(N, g, n) \cap C)
    BY <2>1, <2>2, <2>3, <2>5, SegmentGrowth
  <2>11. Prefix \cap C = C \cap Prefix /\ Prefix' \cap C = C \cap Prefix'
    OBVIOUS
  <2>12. C = Changed
    BY DEF C
  <2> QED
    BY <2>6, <2>8, <2>9, <2>10, <2>11, <2>12
<1> QED
  BY <1>2, <1>3

\* A step between two pages keeps what the types and PageInv say.
LEMMA StoreStepKeepsPages ==
    ASSUME ListingInv, StoreStep
    PROVE  ListingTypeOK' /\ PageInv' /\ FirstPageCovers'
<1>1. /\ UNCHANGED <<lpc, token, rv, times, copy>>
      /\ stable' = stable \ Changed
      /\ left' = left + Cardinality(Changed \cap Prefix)
      /\ entered' = entered + Cardinality(Changed \cap Prefix')
  BY DEF StoreStep, Changed
<1>2. ListingTypeOK /\ PageInv /\ FirstPageCovers /\ StoreInv /\ StoreNext
  BY StoreStepStore DEF ListingInv
<1>3. ListingTypeOK'
  <2>1. Cardinality(Changed \cap Prefix) \in Nat /\ Cardinality(Changed \cap Prefix') \in Nat
    BY PrefixMoves, FS_CardinalityType
  <2> QED
    BY <1>1, <1>2, <2>1 DEF ListingTypeOK
<1>4. From' = From /\ From \in Nat /\ From < nextXid /\ nextXid \in Nat
      /\ \A c \in Clients : InFlight(c) => From < xid[c]
  BY <1>1, <1>2 DEF From, PageInv, StoreInv, StoreTypeOK
<1>5. From < nextXid' /\ \A c \in Clients : InFlight(c)' => From < xid'[c]
  <2>1. nextXid' >= nextXid /\ \A c \in Clients : InFlight(c)' => From < xid'[c]
    BY <1>2, <1>4, StoreStepBounds
  <2>2. nextXid' \in Nat
    BY StoreStepStore DEF StoreInv, StoreTypeOK
  <2> QED
    BY <1>4, <2>1, <2>2
<1>6. stable' \subseteq Matching'
  BY <1>1, <1>2 DEF PageInv, Matching, Changed
<1>7. PageInv'
  <2>1. /\ lpc' = "first" =>
             /\ token' = NoToken /\ rv' = <<>> /\ stable' = {}
             /\ \A k \in Keys : times'[k] = 0 /\ copy'[k] = NoRow
        /\ lpc' = "more" => token' # NoToken
        /\ \A k \in Keys : ~Tombstone(copy'[k])
    BY <1>1, <1>2 DEF PageInv
  <2> QED
    BY <1>4, <1>5, <1>6, <2>1 DEF PageInv
<1>8. FirstPageCovers'
  <2> SUFFICES ASSUME NEW k \in Keys, copy[k] # NoRow
               PROVE  \/ rows'[k] = copy[k]
                      \/ rows'[k] # NoRow /\ rows'[k].stamp > From
                      \/ rows'[k] = NoRow /\ horizon' > From
    BY <1>1, <1>4 DEF FirstPageCovers
  <2>1. \/ rows[k] = copy[k]
        \/ rows[k] # NoRow /\ rows[k].stamp > From
        \/ rows[k] = NoRow /\ horizon > From
    BY <1>2 DEF FirstPageCovers
  <2>2. horizon' \in Nat /\ horizon \in Nat /\ horizon' >= horizon
    BY <1>2, HorizonGrows DEF StoreInv, StoreTypeOK
  <2>3. CASE rows'[k] = rows[k]
    BY <1>4, <2>1, <2>2, <2>3
  <2>4. CASE rows'[k] # rows[k]
    <3>1. From + 1 \in Nat /\ \A c \in Clients : InFlight(c) => From + 1 <= xid[c]
      BY <1>2, <1>4 DEF StoreInv, StoreTypeOK
    <3>2. \/ rows'[k] # NoRow /\ rows'[k].stamp >= From + 1
          \/ rows'[k] = NoRow /\ Tombstone(rows[k]) /\ horizon' >= rows[k].stamp
      BY <1>2, <2>4, <3>1, StoreStepRow
    <3>3. ~Tombstone(copy[k])
      BY <1>2 DEF PageInv
    <3>4. rows[k] # NoRow => rows[k].stamp \in Nat
      BY <1>2 DEF StoreInv, StoreTypeOK, Row
    <3>5. rows'[k] # NoRow => rows'[k].stamp \in Nat
      BY StoreStepStore DEF Table, Row
    <3> QED
      BY <1>4, <2>1, <2>2, <3>2, <3>3, <3>4, <3>5 DEF Tombstone
  <2> QED
    BY <2>3, <2>4
<1> QED
  BY <1>3, <1>7, <1>8

\* A step between two pages adds no more skips and repetitions than it explains.
LEMMA StoreStepKeepsCounts ==
    ASSUME ListingInv, StoreStep
    PROVE  SkipsExplained' /\ RepeatBudget'
<1>1. /\ UNCHANGED <<lpc, token, times>>
      /\ stable' = stable \ Changed
      /\ left' = left + Cardinality(Changed \cap Prefix)
      /\ entered' = entered + Cardinality(Changed \cap Prefix')
  BY DEF StoreStep, Changed
<1>2. ListingTypeOK /\ SkipsExplained /\ RepeatBudget /\ stable \subseteq Keys
  BY DEF ListingInv, ListingTypeOK
<1>3. /\ IsFiniteSet(Missed) /\ IsFiniteSet(PushedOut) /\ IsFiniteSet(Repeats)
      /\ left \in Nat /\ entered \in Nat
  BY <1>2, CountsFinite DEF ListingTypeOK
<1>4. Cardinality(Changed \cap Prefix) \in Nat /\ Cardinality(Changed \cap Prefix') \in Nat
  BY PrefixMoves, FS_CardinalityType
<1>5. SkipsExplained'
  <2> DEFINE New == (Prefix' \ Prefix) \ Changed
  <2>1. Missed' \subseteq Missed \cup New
    BY <1>1, <1>2 DEF Missed, Returned, Changed
  <2>2. IsFiniteSet(New) /\ Cardinality(New) <= Cardinality(Changed \cap Prefix)
    BY PrefixMoves
  <2> HIDE DEF New
  <2>3. /\ Cardinality(Missed) \in Nat /\ Cardinality(New) \in Nat /\ Cardinality(Missed') \in Nat
        /\ Cardinality(Missed') <= Cardinality(Missed) + Cardinality(New)
    BY <1>3, <2>1, <2>2, CoverSize
  <2>4. Cardinality(Missed') <= left'
    BY <1>1, <1>2, <1>3, <1>4, <2>2, <2>3 DEF SkipsExplained
  <2> QED
    BY <2>4 DEF SkipsExplained
<1>6. RepeatBudget'
  <2> DEFINE New == (Prefix \ Prefix') \ Changed
  <2>1. PushedOut' \subseteq PushedOut \cup New
    BY <1>1, <1>2 DEF PushedOut, Changed
  <2>2. IsFiniteSet(New) /\ Cardinality(New) <= Cardinality(Changed \cap Prefix')
    BY PrefixMoves
  <2> HIDE DEF New
  <2>3. /\ Cardinality(PushedOut) \in Nat /\ Cardinality(New) \in Nat
        /\ Cardinality(PushedOut') \in Nat
        /\ Cardinality(PushedOut') <= Cardinality(PushedOut) + Cardinality(New)
    BY <1>3, <2>1, <2>2, CoverSize
  <2>4. Repeats' \subseteq Repeats
    BY <1>1 DEF Repeats
  <2>5. Cardinality(Repeats') \in Nat /\ Cardinality(Repeats) \in Nat
        /\ Cardinality(Repeats') <= Cardinality(Repeats)
    <3>1. IsFiniteSet(Repeats') /\ Cardinality(Repeats') <= Cardinality(Repeats)
      BY <1>3, <2>4, FS_Subset
    <3> QED
      BY <1>3, <3>1, FS_CardinalityType
  <2>6. Cardinality(Repeats') + Cardinality(PushedOut') <= entered'
    BY <1>1, <1>2, <1>3, <1>4, <2>2, <2>3, <2>5 DEF RepeatBudget
  <2> QED
    BY <2>6 DEF RepeatBudget
<1> QED
  BY <1>5, <1>6

-----------------------------------------------------------------------------
(***************************************************************************)
(* A page.                                                                 *)
(***************************************************************************)

\* What every page does, the first one or a later one.
LEMMA PageFacts ==
    ASSUME ListingInv, Page, UNCHANGED storeVars
    PROVE  LET offset == DecodeContinue(token)
               scanned == Scan(offset)
           IN  /\ offset \in Nat /\ IsFiniteSet(scanned) /\ scanned \subseteq Matching
               /\ lpc \in {"first", "more"} /\ lpc' \in {"more", "done"}
               /\ Matching' = Matching /\ rows' = rows
               /\ \A k \in Matching : Place(k) \in Nat \ {0}
               /\ lpc = "first" => offset = 0 /\ Prefix = {}
               /\ lpc' = "more" => /\ token' = EncodeContinue(offset + Limit)
                                   /\ Prefix' = {k \in Matching : Place(k) <= offset + Limit}
               /\ lpc' = "done" => /\ token' = token
                                   /\ \A k \in Matching : Place(k) <= offset + Limit
               /\ lpc = "more" => Prefix = {k \in Matching : Place(k) <= offset}
               /\ lpc' = "done" => Prefix' = {}
               /\ \A k \in Keys :
                    times'[k] = IF k \in scanned /\ rows[k].spec \in Labels
                                THEN times[k] + 1 ELSE times[k]
<1> DEFINE offset == DecodeContinue(token)
           scanned == Scan(offset)
<1>1. StoreInv /\ StampsDistinct /\ ListingTypeOK /\ PageInv
  BY DEF ListingInv
<1>2. offset \in Nat /\ Limit \in Nat \ {0}
  BY <1>1, OffsetType, ListingAssumption
<1>3. /\ IsFiniteSet(scanned)
      /\ Cardinality(scanned) # Limit => \A k \in Matching : Place(k) <= offset + Limit
  BY <1>1, <1>2, ScanFull
<1>4. /\ lpc \in {"first", "more"}
      /\ Continue(scanned) /\ Collect(Returned(scanned))
  BY <1>1 DEF Page, ListingTypeOK
<1>5. scanned \subseteq Matching
  BY DEF Scan
<1>6. rows' = rows
  BY DEF storeVars
<1>7. Matching' = Matching /\ \A k \in Keys : Place(k)' = Place(k)
  BY <1>6 DEF Matching, Place
<1>8. \A k \in Matching : Place(k) \in Nat \ {0}
  BY <1>1, Places
<1>9. lpc = "first" => offset = 0 /\ Prefix = {}
  BY <1>1, OffsetType DEF PageInv, Prefix
<1>10. lpc = "more" => Prefix = {k \in Matching : Place(k) <= offset}
  BY DEF Prefix
<1>11. \A k \in Keys : times'[k] = IF k \in scanned /\ rows[k].spec \in Labels
                                   THEN times[k] + 1 ELSE times[k]
  BY <1>4 DEF Collect, Returned
<1> HIDE DEF scanned
<1>12. \/ lpc' = "more" /\ token' = EncodeContinue(offset + Limit)
       \/ lpc' = "done" /\ token' = token /\ Cardinality(scanned) # Limit
  BY <1>4 DEF Continue
<1>13. lpc' = "more" => Prefix' = {k \in Matching : Place(k) <= offset + Limit}
  <2> HAVE lpc' = "more"
  <2>1. DecodeContinue(token)' = offset + Limit
    BY <1>2, <1>12 DEF DecodeContinue, EncodeContinue, NoToken
  <2>2. Prefix' = {k \in Matching' : Place(k)' <= DecodeContinue(token)'}
    BY DEF Prefix
  <2>3. Matching \subseteq Keys
    BY DEF Matching
  <2> HIDE DEF offset
  <2> QED
    BY <1>7, <2>1, <2>2, <2>3
<1>14. lpc' = "done" => Prefix' = {}
  BY DEF Prefix
<1>15. lpc' = "done" => token' = token /\ \A k \in Matching : Place(k) <= offset + Limit
  BY <1>3, <1>12
<1> QED
  BY <1>2, <1>3, <1>4, <1>5, <1>6, <1>7, <1>8, <1>9, <1>10, <1>11, <1>12, <1>13, <1>14, <1>15
     DEF scanned

\* A page keeps what the types, PageInv and FirstPageCovers say.
LEMMA PageKeepsPages ==
    ASSUME ListingInv, Page, UNCHANGED storeVars
    PROVE  ListingTypeOK' /\ PageInv' /\ FirstPageCovers'
<1> DEFINE offset == DecodeContinue(token)
           scanned == Scan(offset)
<1>1. StoreInv /\ StampsDistinct /\ ListingTypeOK /\ PageInv /\ FirstPageCovers
  BY DEF ListingInv
<1>2. /\ offset \in Nat /\ scanned \subseteq Matching
      /\ lpc \in {"first", "more"} /\ lpc' \in {"more", "done"}
      /\ Matching' = Matching /\ rows' = rows
      /\ lpc' = "more" => token' = EncodeContinue(offset + Limit)
      /\ lpc' = "done" => token' = token
  BY PageFacts
<1>3. /\ times' = [k \in Keys |-> IF k \in Returned(scanned) THEN times[k] + 1 ELSE times[k]]
      /\ copy' = [k \in Keys |-> IF k \in Returned(scanned) THEN rows[k] ELSE copy[k]]
      /\ left' = left /\ entered' = entered
      /\ lpc # "first" => rv' = rv /\ stable' = stable
      /\ lpc = "first" => /\ stable' = Matching
                          /\ \E x \in 1..nextXid : IsXmin(x) /\ rv' = R!String(R!RV(0, x - 1))
  BY DEF Page, Collect
<1>4. Returned(scanned) \subseteq Matching /\ Matching \subseteq Keys
  BY <1>2 DEF Returned, Matching
<1>5. \A k \in Matching : rows[k] \in Row /\ rows[k] # NoRow /\ ~Tombstone(rows[k])
  <2>1. Matching = Match(rows)
    BY <1>1, Places
  <2> QED
    BY <1>1, <2>1, StoreTable, MatchOrdered
<1>6. Limit \in Nat \ {0}
  BY ListingAssumption
<1> HIDE DEF scanned, offset
<1>7. lpc' = "more" => /\ token' \in [kind : {"token"}, offset : Nat \ {0}]
                       /\ token' # NoToken
  BY <1>2, <1>6 DEF EncodeContinue, NoToken
<1>8. /\ rv' \in Seq(R!Token)
      /\ From' \in Nat /\ From' < nextXid
      /\ \A c \in Clients : InFlight(c) => From' < xid[c]
  <2>1. CASE lpc # "first"
    <3>1. rv' = rv /\ From' = From
      BY <1>3, <2>1 DEF From
    <3> QED
      BY <1>1, <3>1 DEF ListingTypeOK, PageInv
  <2>2. CASE lpc = "first"
    <3>1. PICK x \in 1..nextXid : IsXmin(x) /\ rv' = R!String(R!RV(0, x - 1))
      BY <1>3, <2>2
    <3>2. nextXid \in Nat /\ xid \in [Clients -> Nat]
      BY <1>1 DEF StoreInv, StoreTypeOK
    <3>3. x \in Nat /\ x - 1 \in Nat /\ x - 1 < nextXid
      BY <3>1, <3>2
    <3>4. rv' \in Seq(R!Token) /\ R!Parse(R!String(R!RV(0, x - 1))).watermark = x - 1
      BY <3>1, <3>3, ParseCollection
    <3>5. From' = x - 1
      BY <3>1, <3>4 DEF From
    <3>6. \A c \in Clients : InFlight(c) => x - 1 < xid[c]
      BY <3>1, <3>2, <3>3 DEF IsXmin
    <3> QED
      BY <3>3, <3>4, <3>5, <3>6
  <2> QED
    BY <2>1, <2>2
<1>9. ListingTypeOK'
  <2>1. times' \in [Keys -> Nat]
    BY <1>1, <1>3 DEF ListingTypeOK
  <2>2. copy' \in [Keys -> Row \cup {NoRow}]
    BY <1>1, <1>3, <1>4, <1>5 DEF ListingTypeOK
  <2>3. stable' \in SUBSET Keys
    BY <1>1, <1>3, <1>4 DEF ListingTypeOK
  <2>4. token' \in {NoToken} \cup [kind : {"token"}, offset : Nat \ {0}]
    BY <1>1, <1>2, <1>7 DEF ListingTypeOK
  <2>5. left' \in Nat /\ entered' \in Nat
    BY <1>1, <1>3 DEF ListingTypeOK
  <2>6. lpc' \in {"first", "more", "done"}
    BY <1>2
  <2> QED
    BY <1>8, <2>1, <2>2, <2>3, <2>4, <2>5, <2>6 DEF ListingTypeOK
<1>10. PageInv'
  <2>1. lpc' # "first" /\ (lpc' = "more" => token' # NoToken)
    BY <1>2, <1>7
  <2>2. \A k \in Keys : ~Tombstone(copy'[k])
    BY <1>1, <1>3, <1>4, <1>5 DEF PageInv
  <2>3. stable' \subseteq Matching'
    BY <1>1, <1>2, <1>3 DEF PageInv
  <2>4. nextXid' = nextXid /\ xid' = xid /\ pc' = pc
    BY DEF storeVars
  <2>5. \A c \in Clients : InFlight(c)' => From' < xid'[c]
    BY <1>8, <2>4 DEF InFlight
  <2> QED
    BY <1>8, <2>1, <2>2, <2>3, <2>4, <2>5 DEF PageInv
<1>11. FirstPageCovers'
  <2> SUFFICES ASSUME NEW k \in Keys, copy'[k] # NoRow
               PROVE  \/ rows[k] = copy'[k]
                      \/ rows[k] # NoRow /\ rows[k].stamp > From'
                      \/ rows[k] = NoRow /\ horizon > From'
    <3>1. horizon' = horizon
      BY DEF storeVars
    <3> QED
      BY <1>2, <3>1 DEF FirstPageCovers
  <2>1. CASE k \in Returned(scanned)
    BY <1>3, <2>1
  <2>2. CASE k \notin Returned(scanned)
    <3>1. copy'[k] = copy[k]
      BY <1>3, <2>2
    <3>2. lpc # "first"
      BY <1>1, <2>2, <3>1 DEF PageInv
    <3>3. From' = From
      BY <1>3, <3>2 DEF From
    <3> QED
      BY <1>1, <3>1, <3>3 DEF FirstPageCovers
  <2> QED
    BY <2>1, <2>2
<1> QED
  BY <1>9, <1>10, <1>11

\* A page passes over nothing that it does not return, and repeats only what
\* had been pushed out of the part already paged over.
LEMMA PageKeepsCounts ==
    ASSUME ListingInv, Page, UNCHANGED storeVars
    PROVE  SkipsExplained' /\ RepeatBudget'
<1> DEFINE offset == DecodeContinue(token)
           scanned == Scan(offset)
<1>1. /\ StoreInv /\ StampsDistinct /\ ListingTypeOK /\ PageInv
      /\ SkipsExplained /\ RepeatBudget
  BY DEF ListingInv
<1>2. /\ offset \in Nat /\ IsFiniteSet(scanned) /\ scanned \subseteq Matching
      /\ lpc \in {"first", "more"} /\ lpc' \in {"more", "done"}
      /\ Matching' = Matching /\ rows' = rows
      /\ \A k \in Matching : Place(k) \in Nat \ {0}
      /\ lpc = "first" => offset = 0 /\ Prefix = {}
      /\ lpc' = "more" => Prefix' = {k \in Matching : Place(k) <= offset + Limit}
      /\ lpc' = "done" => \A k \in Matching : Place(k) <= offset + Limit
      /\ lpc = "more" => Prefix = {k \in Matching : Place(k) <= offset}
      /\ \A k \in Keys :
           times'[k] = IF k \in scanned /\ rows[k].spec \in Labels
                       THEN times[k] + 1 ELSE times[k]
  BY PageFacts
<1>3. \A k \in Matching : k \in scanned <=> offset < Place(k) /\ Place(k) <= offset + Limit
  BY DEF Scan
<1>4. /\ left' = left /\ entered' = entered /\ left \in Nat /\ entered \in Nat
      /\ lpc = "more" => stable' = stable
      /\ lpc = "first" => stable' = Matching
  BY <1>1 DEF Page, ListingTypeOK
<1>5. Matching \subseteq Keys /\ stable \subseteq Matching /\ stable' \subseteq Matching
  BY <1>1, <1>2, <1>4 DEF PageInv, Matching
<1>6. times \in [Keys -> Nat] /\ (lpc = "first" => \A k \in Keys : times[k] = 0)
  BY <1>1 DEF ListingTypeOK, PageInv
<1>7. Limit \in Nat \ {0}
  BY ListingAssumption
<1>8. IsFiniteSet(Missed) /\ IsFiniteSet(PushedOut) /\ IsFiniteSet(Repeats)
  BY <1>1, CountsFinite
<1> HIDE DEF scanned, offset
<1>9. SkipsExplained'
  <2>1. ASSUME NEW k \in Missed' PROVE k \in Missed
    <3>1. /\ k \in stable' /\ rows'[k].spec \in Labels /\ times'[k] = 0
          /\ lpc' = "done" \/ k \in Prefix'
      BY <2>1 DEF Missed, Returned
    <3>2. k \in Matching /\ k \in Keys /\ Place(k) <= offset + Limit
      BY <1>2, <1>5, <3>1
    <3>3. k \notin scanned
      BY <1>2, <1>6, <3>1, <3>2
    <3>4. Place(k) <= offset /\ times[k] = 0 /\ Place(k) # 0 /\ Place(k) \in Nat
      BY <1>2, <1>3, <3>1, <3>2, <3>3
    <3>5. lpc = "more"
      BY <1>2, <3>4
    <3> QED
      BY <1>2, <1>4, <3>1, <3>2, <3>4, <3>5 DEF Missed, Returned
  <2>2. Missed' \in SUBSET Missed
    BY <2>1
  <2>3. IsFiniteSet(Missed') /\ Cardinality(Missed') <= Cardinality(Missed)
    BY <1>8, <2>2, FS_Subset
  <2>4. Cardinality(Missed) \in Nat /\ Cardinality(Missed') \in Nat
    BY <1>8, <2>3, FS_CardinalityType
  <2>5. Cardinality(Missed') <= left'
    BY <1>1, <1>4, <2>3, <2>4 DEF SkipsExplained
  <2> QED
    BY <2>5 DEF SkipsExplained
<1>10. CASE lpc = "first"
  <2>1. Repeats' = {}
    <3>1. \A k \in stable' : times'[k] \in {0, 1}
      BY <1>2, <1>5, <1>6, <1>10
    <3>2. \A k \in stable' : 2..times'[k] = {}
      BY <3>1
    <3> QED
      BY <3>2 DEF Repeats
  <2>2. PushedOut' = {}
    <3> SUFFICES ASSUME NEW k \in PushedOut' PROVE FALSE
      OBVIOUS
    <3>1. k \in stable' /\ times'[k] > 0 /\ lpc' = "more" /\ k \notin Prefix'
      BY DEF PushedOut
    <3>2. k \in scanned
      BY <1>2, <1>5, <1>6, <1>10, <3>1
    <3> QED
      BY <1>2, <1>3, <3>1, <3>2
  <2>3. Cardinality(Repeats') + Cardinality(PushedOut') <= entered'
    BY <1>4, <2>1, <2>2, FS_EmptySet
  <2> QED
    BY <1>9, <2>3 DEF RepeatBudget
<1>11. CASE lpc = "more"
  <2> DEFINE A == PushedOut \cap scanned
             D == PushedOut \ scanned
             E == {<<k, times[k] + 1>> : k \in A}
             e == [k \in A |-> <<k, times[k] + 1>>]
  <2>1. /\ IsFiniteSet(A) /\ IsFiniteSet(D)
        /\ Cardinality(D) = Cardinality(PushedOut) - Cardinality(A)
    BY <1>8, FS_Intersection, FS_Difference
  <2>2. IsFiniteSet(E) /\ Cardinality(E) <= Cardinality(A)
    <3>1. e \in Surjection(A, E)
      BY DEF Surjection
    <3> HIDE DEF A, E, e
    <3> QED
      BY <2>1, <3>1, FS_Surjection
  <2>3. PushedOut' \in SUBSET D
    <3> SUFFICES ASSUME NEW k \in PushedOut' PROVE k \in D
      OBVIOUS
    <3>1. k \in stable' /\ times'[k] > 0 /\ lpc' = "more" /\ k \notin Prefix'
      BY DEF PushedOut
    <3>2. k \in stable /\ k \in Matching /\ k \in Keys
      BY <1>4, <1>5, <1>11, <3>1
    <3>3. ~(Place(k) <= offset + Limit) /\ Place(k) \in Nat
      BY <1>2, <3>1, <3>2
    <3>4. k \notin scanned /\ k \notin Prefix
      BY <1>2, <1>3, <1>7, <1>11, <3>2, <3>3
    <3>5. times[k] > 0
      BY <1>2, <3>1, <3>2, <3>4
    <3> QED
      BY <1>11, <3>2, <3>4, <3>5 DEF PushedOut
  <2>4. Repeats' \subseteq Repeats \cup E
    <3> SUFFICES ASSUME NEW p \in Repeats' PROVE p \in Repeats \cup E
      OBVIOUS
    <3>1. PICK k \in stable' : p \in {k} \X (2..times'[k])
      BY DEF Repeats
    <3>2. k \in stable /\ k \in Matching /\ k \in Keys
      BY <1>4, <1>5, <1>11, <3>1
    <3>3. PICK i \in 2..times'[k] : p = <<k, i>>
      BY <3>1
    <3>4. times[k] \in Nat /\ i \in Nat /\ 2 <= i /\ i <= times'[k] /\ times'[k] \in Nat
      BY <1>2, <1>6, <3>2, <3>3
    <3>5. CASE i <= times[k]
      <4>1. i \in 2..times[k]
        BY <3>4, <3>5
      <4>2. p \in {k} \X (2..times[k])
        BY <3>3, <4>1
      <4> QED
        BY <3>2, <4>2 DEF Repeats
    <3>6. CASE ~(i <= times[k])
      <4>1. k \in scanned /\ times'[k] = times[k] + 1
        BY <1>2, <3>2, <3>4, <3>6
      <4>2. i = times[k] + 1 /\ times[k] > 0
        BY <3>4, <3>6, <4>1
      <4>3. k \notin Prefix
        BY <1>2, <1>3, <1>11, <3>2, <4>1
      <4>4. k \in A
        BY <1>11, <3>2, <4>1, <4>2, <4>3 DEF PushedOut
      <4> QED
        BY <3>3, <4>2, <4>4
    <3> QED
      BY <3>5, <3>6
  <2> HIDE DEF A, D, E
  <2>5. /\ Cardinality(Repeats) \in Nat /\ Cardinality(E) \in Nat /\ Cardinality(Repeats') \in Nat
        /\ Cardinality(Repeats') <= Cardinality(Repeats) + Cardinality(E)
    BY <1>8, <2>2, <2>4, CoverSize
  <2>6. IsFiniteSet(PushedOut') /\ Cardinality(PushedOut') <= Cardinality(D)
    BY <2>1, <2>3, FS_Subset
  <2>7. /\ Cardinality(PushedOut) \in Nat /\ Cardinality(PushedOut') \in Nat
        /\ Cardinality(A) \in Nat /\ Cardinality(D) \in Nat
    BY <1>8, <2>1, <2>6, FS_CardinalityType
  <2>8. Cardinality(Repeats') + Cardinality(PushedOut') <= entered'
    BY <1>1, <1>4, <2>1, <2>2, <2>5, <2>6, <2>7 DEF RepeatBudget
  <2> QED
    BY <1>9, <2>8 DEF RepeatBudget
<1> QED
  BY <1>2, <1>10, <1>11

-----------------------------------------------------------------------------

\* A page leaves the store alone.
LEMMA StoreUnchanged ==
    ASSUME StoreInv, StampsDistinct, UNCHANGED storeVars
    PROVE  StoreInv' /\ StampsDistinct'
<1>1. StoreInv'
  BY StoreNextKeepsInv
<1>2. StampsDistinct'
  BY DEF StampsDistinct, InFlight, storeVars
<1> QED
  BY <1>1, <1>2

\* Every step keeps the inductive invariant.
LEMMA ListingNextKeepsInv == ListingInv /\ [Next]_vars => ListingInv'
<1> SUFFICES ASSUME ListingInv, [Next]_vars PROVE ListingInv'
  OBVIOUS
<1>1. CASE StoreStep
  BY <1>1, StoreStepStore, StoreStepKeepsPages, StoreStepKeepsCounts DEF ListingInv
<1>2. CASE Page /\ UNCHANGED storeVars
  <2>1. StoreInv' /\ StampsDistinct'
    BY <1>2, StoreUnchanged DEF ListingInv
  <2> QED
    BY <1>2, <2>1, PageKeepsPages, PageKeepsCounts DEF ListingInv
<1>3. CASE UNCHANGED vars
  <2>1. StoreInv' /\ StampsDistinct'
    BY <1>3, StoreUnchanged DEF ListingInv, vars
  <2>2. UNCHANGED <<rows, horizon, nextXid, xid, pc>> /\ UNCHANGED listVars
    BY <1>3 DEF vars, storeVars
  <2>3. ListingTypeOK' /\ PageInv' /\ FirstPageCovers'
    BY <2>2 DEF ListingInv, ListingTypeOK, PageInv, FirstPageCovers, From, Matching, InFlight,
                listVars
  <2>4. Prefix' = Prefix
    BY <2>2 DEF Prefix, Place, Matching, DecodeContinue, listVars
  <2>5. Missed' = Missed /\ Repeats' = Repeats /\ PushedOut' = PushedOut
    BY <2>2, <2>4 DEF Missed, Returned, Repeats, PushedOut, listVars
  <2>6. SkipsExplained' /\ RepeatBudget'
    BY <2>2, <2>5 DEF ListingInv, SkipsExplained, RepeatBudget, listVars
  <2> QED
    BY <2>1, <2>3, <2>6 DEF ListingInv
<1> QED
  BY <1>1, <1>2, <1>3 DEF Next

\* The inductive invariant of a listing in pages beside any writers and
\* compactions.
THEOREM ListingInvariant == Spec => []ListingInv
<1> QED
  BY ListingInitInv, ListingNextKeepsInv, PTL DEF Spec

\* OFFSET paging skips at most one untouched object for each change of what
\* was already paged over, for any number of objects and any page size.
THEOREM SkipsBounded == Spec => []SkipsExplained
<1>1. ListingInv => SkipsExplained
  BY DEF ListingInv
<1> QED
  BY <1>1, ListingInvariant, PTL

\* It repeats at most one untouched object for each commit into that part.
THEOREM RepeatsBounded == Spec => []RepeatsExplained
<1>1. ListingInv => RepeatsExplained
  <2> SUFFICES ASSUME ListingInv PROVE RepeatsExplained
    OBVIOUS
  <2>1. ListingTypeOK /\ RepeatBudget /\ entered \in Nat
    BY DEF ListingInv, ListingTypeOK
  <2>2. Cardinality(Repeats) \in Nat /\ Cardinality(PushedOut) \in Nat
    BY <2>1, CountsFinite, FS_CardinalityType
  <2> QED
    BY <2>1, <2>2 DEF RepeatBudget, RepeatsExplained
<1> QED
  BY <1>1, ListingInvariant, PTL

\* A watch from the first page's resourceVersion brings every copy of every
\* page up to date, or gets 410 Gone.
THEOREM FirstPageCoversAll == Spec => []FirstPageCovers
<1>1. ListingInv => FirstPageCovers
  BY DEF ListingInv
<1> QED
  BY <1>1, ListingInvariant, PTL

-----------------------------------------------------------------------------
(***************************************************************************)
(* Shards.                                                                 *)
(***************************************************************************)

\* abs(hash) % Mod is a residue, whatever the sign of the hash.
LEMMA ResidueInRange ==
    ASSUME NEW h \in Int, NEW m \in Nat, m > 0
    PROVE  S!Residue(h, m, HashBits) \in 0..(m - 1)
<1>1. S!Abs(h, HashBits) \in Nat
  BY DEF S!Abs
<1>2. S!Residue(h, m, HashBits) = S!Abs(h, HashBits) % m
  BY <1>1 DEF S!Residue
<1> DEFINE a == S!Abs(h, HashBits)
<1> HIDE DEF a
<1>3. a \in Nat
  BY <1>1 DEF a
<1>4. a % m \in 0..(m - 1)
  BY <1>3
<1> QED
  BY <1>2, <1>4 DEF a

\* I7: replicas whose residues are a partition share every object out, each
\* one to exactly one of them, for any number of replicas and any hash.
THEOREM ShardsShareOut == Spec => []ShardsPartition
<1>1. ShardsPartition
  <2> SUFFICES ASSUME Partitioned, NEW k \in Keys
               PROVE  \E s \in Replicas : \A t \in Replicas :
                        S!Owns(t, Hash[k], HashBits) <=> t = s
    BY DEF ShardsPartition
  <2>1. PICK u \in Replicas : TRUE
    BY DEF Partitioned
  <2>2. u.mod \in Nat /\ u.mod > 0
    BY ListingAssumption DEF S!Validate
  <2>3. Hash[k] \in Int
    BY ListingAssumption DEF S!Hashes
  <2> DEFINE r == S!Residue(Hash[k], u.mod, HashBits)
  <2>4. r \in 0..(u.mod - 1)
    BY <2>2, <2>3, ResidueInRange
  <2>5. \A t \in Replicas : t.mod = u.mod
    BY DEF Partitioned
  <2>6. \A t \in Replicas : S!Owns(t, Hash[k], HashBits) <=> r \in t.owned
    BY <2>5 DEF S!Owns
  <2> HIDE DEF r
  <2>7. UNION {t.owned : t \in Replicas} = 0..(u.mod - 1)
    BY DEF Partitioned
  <2>8. PICK s \in Replicas : r \in s.owned
    BY <2>4, <2>7
  <2>9. \A t \in Replicas : r \in t.owned <=> t = s
    BY <2>8 DEF Partitioned
  <2> QED
    BY <2>6, <2>9
<1> QED
  BY <1>1, PTL

=============================================================================
