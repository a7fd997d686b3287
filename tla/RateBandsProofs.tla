-------------------------- MODULE RateBandsProofs --------------------------
(***************************************************************************)
(* The validator is right for tables of any length: what FindOverlaps and  *)
(* FindGaps say of neighbours holds of all bands.  The proofs rest on one  *)
(* fact of order, that a set of rows has a first and a last one; it stands *)
(* in for the induction along the sorted list.                             *)
(***************************************************************************)
EXTENDS RateBands, WellFoundedInduction, TLAPS

LEMMA Bounds ==
  /\ MaxBands \in Nat /\ MaxValue \in Nat
  /\ Shilling \in Nat /\ Shilling >= 1
  /\ BandIds \subseteq Nat /\ Values \subseteq Nat
  /\ \A b \in BandIds : b <= MaxBands
  /\ \A v \in Values : v <= MaxValue
BY RateBandsAssumption DEF BandIds, Values

\* A set of natural numbers that is not empty has a least element.
LEMMA LeastNumber ==
  ASSUME NEW S \in SUBSET Nat, S # {}
  PROVE  \E m \in S : \A n \in S : m <= n
<1> DEFINE R == {ss \in Nat \X Nat : ss[1] < ss[2]}
<1>1. IsWellFoundedOn(R, Nat)
  BY NatLessThanWellFounded DEF OpToRel
<1>2. \A x, y \in Nat : x < y => <<x, y>> \in R
  OBVIOUS
<1> HIDE DEF R
<1>3. PICK m \in S : \A n \in S : ~ (<<n, m>> \in R)
  BY <1>1, WFMin
<1>4. ASSUME NEW n \in S PROVE m <= n
  <2>1. n \in Nat /\ m \in Nat
    OBVIOUS
  <2>2. ~ (n < m)
    BY <1>2, <1>3, <2>1
  <2> QED
    BY <2>1, <2>2
<1> QED
  BY <1>4

\* One that is bounded has a greatest.
LEMMA GreatestNumber ==
  ASSUME NEW S \in SUBSET Nat, S # {}, NEW B \in Nat, \A n \in S : n <= B
  PROVE  \E m \in S : \A n \in S : n <= m
<1> DEFINE T == {k \in Nat : \E n \in S : k = B - n}
<1>0. \A n \in S : n \in Nat /\ B - n \in Nat
  OBVIOUS
<1>1. T \in SUBSET Nat /\ T # {}
  BY <1>0
<1>2. PICK t \in T : \A u \in T : t <= u
  BY <1>1, LeastNumber
<1>3. PICK m \in S : t = B - m
  BY <1>2
<1>4. ASSUME NEW n \in S PROVE n <= m
  <2>1. B - n \in T
    BY <1>0
  <2>2. B - m <= B - n
    BY <1>2, <1>3, <2>1
  <2> QED
    BY <1>0, <2>2
<1> QED
  BY <1>4
-----------------------------------------------------------------------------
(* Type correctness.                                                       *)

\* The table and the calendar have their types (usp_ComprehensiveRateBand_Upsert
\* and Delete).
THEOREM Typing == Spec => []TypeOK
<1>1. Init => TypeOK
  BY RateBandsAssumption DEF Init, TypeOK, Days
<1>2. TypeOK /\ [Next]_vars => TypeOK'
  <2> SUFFICES ASSUME TypeOK, [Next]_vars PROVE TypeOK'
    OBVIOUS
  <2> USE DEF TypeOK
  <2>0. \A r \in Ranges : r[1] \in Values /\ r[2] \in Values
    BY RateBandsAssumption
  <2>1. ASSUME NEW b \in BandIds, NEW u \in Underwriters, NEW r \in Ranges,
               InsertBand(b, u, r[1], r[2])
        PROVE  TypeOK'
    <3>1. [underwriter |-> u, min |-> r[1], max |-> r[2],
           from |-> today, to |-> NULL, active |-> TRUE] \in Row
      BY <2>0 DEF Row
    <3> QED
      BY <2>1, <3>1 DEF InsertBand
  <2>2. ASSUME NEW b \in BandIds, NEW u \in Underwriters, NEW r \in Ranges,
               UpdateBand(b, u, r[1], r[2])
        PROVE  TypeOK'
    <3>1. band[b] \in Row
      BY <2>2 DEF UpdateBand, Rows
    <3>2. [[[band[b] EXCEPT !.underwriter = u] EXCEPT !.min = r[1]] EXCEPT !.max = r[2]] \in Row
      BY <2>0, <3>1 DEF Row
    <3> QED
      BY <2>2, <3>2 DEF UpdateBand
  <2>3. ASSUME NEW b \in BandIds, DeleteBand(b) PROVE TypeOK'
    BY <2>3 DEF DeleteBand
  <2>4. CASE NextDay
    BY <2>4, RateBandsAssumption DEF NextDay, Days
  <2>6. ASSUME NEW u \in Underwriters, NEW isActive \in BOOLEAN, SetActiveStatus(u, isActive)
        PROVE  TypeOK'
    BY <2>6 DEF SetActiveStatus
  <2>5. CASE UNCHANGED vars
    BY <2>5 DEF vars
  <2> QED
    BY <2>1, <2>2, <2>3, <2>4, <2>5, <2>6 DEF Next
<1> QED
  BY <1>1, <1>2, PTL DEF Spec

-----------------------------------------------------------------------------
(* The order of the bands.                                                 *)

\* What the lemmas below need of the bands B of one underwriter.
Table(B) ==
  /\ B \subseteq BandIds
  /\ \A b \in B : band[b] \in Row

LEMMA BandsAreTable ==
  ASSUME TypeOK, NEW u \in Underwriters
  PROVE  /\ Table(BandsOf(u))
         /\ Table(Proper(BandsOf(u)))
BY DEF TypeOK, Table, BandsOf, Rows, Proper

LEMMA RowFields ==
  ASSUME NEW B, Table(B), NEW b \in B
  PROVE  /\ band[b].min \in Values /\ band[b].min \in Nat /\ band[b].min <= MaxValue
         /\ band[b].max \in Values /\ band[b].max \in Nat
         /\ b \in Nat /\ b <= MaxBands
<1>1. b \in BandIds /\ band[b] \in Row
  BY DEF Table
<1>2. band[b].min \in Values /\ band[b].max \in Values
  BY <1>1 DEF Row
<1> QED
  BY <1>1, <1>2, Bounds

\* Any two rows are in order.
LEMMA Linear ==
  ASSUME NEW B, Table(B), NEW a \in B, NEW b \in B
  PROVE  a = b \/ Precedes(a, b) \/ Precedes(b, a)
BY RowFields DEF Precedes

LEMMA Transitive ==
  ASSUME NEW B, Table(B), NEW a \in B, NEW b \in B, NEW c \in B,
         Precedes(a, b), Precedes(b, c)
  PROVE  Precedes(a, c)
BY RowFields DEF Precedes

\* Some row of C comes first.
LEMMA FirstRow ==
  ASSUME NEW C, Table(C), C # {}
  PROVE  \E f \in C : \A c \in C : ~ Precedes(c, f)
<1> DEFINE Mins == {n \in Nat : \E c \in C : n = band[c].min}
<1>1. Mins \in SUBSET Nat /\ Mins # {}
  BY RowFields
<1>2. PICK m \in Mins : \A n \in Mins : m <= n
  BY <1>1, LeastNumber
<1> DEFINE Ids == {c \in C : band[c].min = m}
<1>3. Ids \in SUBSET Nat /\ Ids # {}
  BY <1>2, RowFields
<1>4. PICK f \in Ids : \A c \in Ids : f <= c
  BY <1>3, LeastNumber
<1>5. ASSUME NEW c \in C PROVE ~ Precedes(c, f)
  <2>1. band[c].min \in Mins /\ m <= band[c].min /\ band[f].min = m
    BY <1>2, <1>4, RowFields
  <2>2. c \in Ids => f <= c
    BY <1>4
  <2> QED
    BY <2>1, <2>2, RowFields DEF Precedes
<1> QED
  BY <1>4, <1>5

\* Some row of C comes last.
LEMMA LastRow ==
  ASSUME NEW C, Table(C), C # {}
  PROVE  \E l \in C : \A c \in C : ~ Precedes(l, c)
<1> DEFINE Mins == {n \in Nat : \E c \in C : n = band[c].min}
<1>1. Mins \in SUBSET Nat /\ Mins # {} /\ \A n \in Mins : n <= MaxValue
  BY RowFields
<1>2. PICK m \in Mins : \A n \in Mins : n <= m
  BY <1>1, GreatestNumber, Bounds
<1> DEFINE Ids == {c \in C : band[c].min = m}
<1>3. Ids \in SUBSET Nat /\ Ids # {} /\ \A c \in Ids : c <= MaxBands
  BY <1>2, RowFields
<1>4. PICK l \in Ids : \A c \in Ids : c <= l
  BY <1>3, GreatestNumber, Bounds
<1>5. ASSUME NEW c \in C PROVE ~ Precedes(l, c)
  <2>1. band[c].min \in Mins /\ band[c].min <= m /\ band[l].min = m
    BY <1>2, <1>4, RowFields
  <2>2. c \in Ids => c <= l
    BY <1>4
  <2> QED
    BY <2>1, <2>2, RowFields DEF Precedes
<1> QED
  BY <1>4, <1>5

\* A row that is not the last has a neighbour after it ...
LEMMA Successor ==
  ASSUME NEW B, Table(B), NEW a \in B, NEW b \in B, Precedes(a, b)
  PROVE  \E c \in B : <<a, c>> \in Neighbours(B) /\ (c = b \/ Precedes(c, b))
<1> DEFINE C == {x \in B : Precedes(a, x)}
<1>1. Table(C) /\ C # {}
  BY DEF Table
<1>2. PICK c \in C : \A x \in C : ~ Precedes(x, c)
  BY <1>1, FirstRow
<1>3. <<a, c>> \in Neighbours(B)
  BY <1>2 DEF Neighbours
<1>4. c = b \/ Precedes(c, b)
  BY <1>2, Linear
<1> QED
  BY <1>3, <1>4

\* ... and one that is not the first has a neighbour before it.
LEMMA Predecessor ==
  ASSUME NEW B, Table(B), NEW a \in B, NEW b \in B, Precedes(a, b)
  PROVE  \E c \in B : <<c, b>> \in Neighbours(B)
<1> DEFINE C == {x \in B : Precedes(x, b)}
<1>1. Table(C) /\ C # {}
  BY DEF Table
<1>2. PICK c \in C : \A x \in C : ~ Precedes(c, x)
  BY <1>1, LastRow
<1> QED
  BY <1>2 DEF Neighbours

LEMMA NeighbourRows ==
  ASSUME NEW B, Table(B), NEW p \in Neighbours(B)
  PROVE  /\ p[1] \in B /\ p[2] \in B /\ p = <<p[1], p[2]>>
         /\ Precedes(p[1], p[2]) /\ p[1] # p[2]
         /\ \A c \in B : Precedes(p[1], c) => ~ Precedes(c, p[2])
<1>1. p[1] \in B /\ p[2] \in B /\ p = <<p[1], p[2]>> /\ Precedes(p[1], p[2])
  BY DEF Neighbours
<1>2. \A c \in B : Precedes(p[1], c) => ~ Precedes(c, p[2])
  BY DEF Neighbours
<1>3. p[1] # p[2]
  BY <1>1, RowFields DEF Precedes
<1> QED
  BY <1>1, <1>2, <1>3

-----------------------------------------------------------------------------
(* Overlaps.                                                               *)

LEMMA NoOverlapAtNeighbours ==
  ASSUME NEW B, FindOverlaps(B) = {}, NEW p \in Neighbours(Proper(B))
  PROVE  ~ (band[p[2]].min <= band[p[1]].max)
BY DEF FindOverlaps

\* If no two neighbours overlap, no two bands do.
LEMMA Disjoint ==
  ASSUME NEW B, Table(Proper(B)), FindOverlaps(B) = {},
         NEW a \in Proper(B), NEW b \in Proper(B), Precedes(a, b)
  PROVE  band[a].max < band[b].min
<1>1. PICK c \in Proper(B) : <<a, c>> \in Neighbours(Proper(B)) /\ (c = b \/ Precedes(c, b))
  BY Successor
<1>2. ~ (band[c].min <= band[a].max)
  BY <1>1, NoOverlapAtNeighbours
<1>3. band[c].min <= band[b].min
  BY <1>1, RowFields DEF Precedes
<1> QED
  BY <1>2, <1>3, RowFields

LEMMA QuotesAreBands ==
  ASSUME TypeOK, NEW u \in enabled, NEW v \in Values, NEW b
  PROVE  /\ b \in QuotesOf(u, v) <=> b \in BandsOf(u) /\ Covers(band[b], v)
         /\ b \in QuotesOf(u, v) => b \in Proper(BandsOf(u))
<1>1. b \in QuotesOf(u, v) <=> b \in BandsOf(u) /\ Covers(band[b], v)
  BY DEF QuotesOf, Options, BandsOf
<1>2. ASSUME b \in BandsOf(u), Covers(band[b], v) PROVE b \in Proper(BandsOf(u))
  <2>1. Table(BandsOf(u))
    BY BandsAreTable DEF TypeOK
  <2>2. band[b].min \in Nat /\ band[b].max \in Nat /\ v \in Nat
    BY <1>2, <2>1, RowFields, Bounds
  <2>3. band[b].min <= v /\ v <= band[b].max
    BY <1>2 DEF Covers
  <2>4. band[b].max >= band[b].min
    BY <2>2, <2>3
  <2> QED
    BY <1>2, <2>4 DEF Proper
<1> QED
  BY <1>1, <1>2

\* Both bands of an overlapping pair cover the whole of what is reported.
LEMMA BothCover ==
  ASSUME NEW B, Table(B), NEW p \in Neighbours(Proper(B)), NEW v \in Values,
         band[p[2]].min <= v, v <= band[p[1]].max, v <= band[p[2]].max
  PROVE  Covers(band[p[1]], v) /\ Covers(band[p[2]], v)
<1>1. Table(Proper(B))
  BY DEF Table, Proper
<1>2. p[1] \in Proper(B) /\ p[2] \in Proper(B) /\ Precedes(p[1], p[2])
  BY <1>1, NeighbourRows
<1>3. band[p[1]].min <= band[p[2]].min
  BY <1>1, <1>2, RowFields DEF Precedes
<1> QED
  BY <1>1, <1>2, <1>3, RowFields, Bounds DEF Covers

LEMMA OverlapsComplete ==
  ASSUME TypeOK PROVE OverlapsFoundIffQuotedTwice
<1> SUFFICES ASSUME NEW u \in enabled
             PROVE  FindOverlaps(BandsOf(u)) = {}
                      <=> \A v \in Values : \A a, b \in QuotesOf(u, v) : a = b
  BY DEF OverlapsFoundIffQuotedTwice
<1>u. u \in Underwriters
  BY DEF TypeOK
<1> DEFINE B == BandsOf(u)
<1>0. Table(B) /\ Table(Proper(B))
  BY <1>u, BandsAreTable
<1>1. ASSUME FindOverlaps(B) = {}, NEW v \in Values,
             NEW a \in QuotesOf(u, v), NEW b \in QuotesOf(u, v), a # b
      PROVE  FALSE
  <2>1. /\ a \in Proper(B) /\ Covers(band[a], v)
        /\ b \in Proper(B) /\ Covers(band[b], v)
    BY QuotesAreBands
  <2>2. Precedes(a, b) \/ Precedes(b, a)
    BY <1>0, <1>1, <2>1, Linear
  <2>3. ASSUME NEW x \in Proper(B), NEW y \in Proper(B), Precedes(x, y),
               Covers(band[x], v), Covers(band[y], v)
        PROVE  FALSE
    <3>1. band[x].max < band[y].min
      BY <1>0, <1>1, <2>3, Disjoint
    <3>2. v <= band[x].max /\ band[y].min <= v /\ v \in Nat
      BY <2>3, Bounds DEF Covers
    <3> QED
      BY <3>1, <3>2, <1>0, RowFields
  <2> QED
    BY <2>1, <2>2, <2>3
<1>2. ASSUME \A v \in Values : \A a, b \in QuotesOf(u, v) : a = b,
             NEW p \in Neighbours(Proper(B)), band[p[2]].min <= band[p[1]].max
      PROVE  FALSE
  <2>1. p[1] \in Proper(B) /\ p[2] \in Proper(B) /\ p[1] # p[2]
    BY <1>0, NeighbourRows
  <2> DEFINE v == band[p[2]].min
  <2>2. v \in Values /\ v <= band[p[2]].max
    BY <1>0, <2>1, RowFields DEF Proper
  <2>3. v \in Nat /\ band[p[2]].min = v
    BY <2>2, Bounds
  <2> HIDE DEF v
  <2>4. Covers(band[p[1]], v) /\ Covers(band[p[2]], v)
    BY <1>0, <1>2, <2>2, <2>3, BothCover, Bounds
  <2>5. p[1] \in B /\ p[2] \in B
    BY <2>1 DEF Proper
  <2>6. p[1] \in QuotesOf(u, v) /\ p[2] \in QuotesOf(u, v)
    BY <2>2, <2>4, <2>5, QuotesAreBands
  <2> QED
    BY <1>2, <2>1, <2>2, <2>6
<1>3. ASSUME \A v \in Values : \A a, b \in QuotesOf(u, v) : a = b
      PROVE  FindOverlaps(B) = {}
  BY <1>2, <1>3 DEF FindOverlaps
<1> QED
  BY <1>1, <1>3

LEMMA OverlapsSound ==
  ASSUME TypeOK PROVE OverlapsAreReal
<1> SUFFICES ASSUME NEW u \in enabled, NEW v \in Reported(FindOverlaps(BandsOf(u)))
             PROVE  \E a, b \in QuotesOf(u, v) : a # b
  BY DEF OverlapsAreReal
<1>u. u \in Underwriters
  BY DEF TypeOK
<1> DEFINE B == BandsOf(u)
<1>0. Table(B) /\ Table(Proper(B))
  BY <1>u, BandsAreTable
<1>1. v \in Values
  BY DEF Reported
<1>2. PICK r \in FindOverlaps(B) : r.from <= v /\ v <= r.to
  BY DEF Reported
<1>3. PICK p \in Neighbours(Proper(B)) :
        r = [from |-> band[p[2]].min, to |-> Smaller(band[p[1]].max, band[p[2]].max)]
  BY <1>2 DEF FindOverlaps
<1>4. p[1] \in Proper(B) /\ p[2] \in Proper(B) /\ p[1] # p[2]
  BY <1>0, NeighbourRows
<1>5. band[p[2]].min <= v /\ v <= Smaller(band[p[1]].max, band[p[2]].max)
  BY <1>2, <1>3
<1>6. v <= band[p[1]].max /\ v <= band[p[2]].max
  BY <1>0, <1>1, <1>4, <1>5, RowFields, Bounds DEF Smaller
<1>7. Covers(band[p[1]], v) /\ Covers(band[p[2]], v)
  BY <1>0, <1>1, <1>5, <1>6, BothCover
<1>8. p[1] \in B /\ p[2] \in B
  BY <1>4 DEF Proper
<1>9. p[1] \in QuotesOf(u, v) /\ p[2] \in QuotesOf(u, v)
  BY <1>1, <1>7, <1>8, QuotesAreBands
<1> QED
  BY <1>4, <1>9

-----------------------------------------------------------------------------
(* Gaps.                                                                   *)

\* Multiples of a shilling that differ, differ by a shilling.
LEMMA WholeSteps ==
  ASSUME NEW x, NEW y, Whole(x), Whole(y), x < y
  PROVE  x + Shilling <= y
<1>1. PICK j \in Nat : x = j * Shilling
  BY Bounds DEF Whole
<1>2. PICK k \in Nat : y = k * Shilling
  BY Bounds DEF Whole
<1> DEFINE S == Shilling
<1>3. S \in Nat /\ S >= 1
  BY Bounds
<1> HIDE DEF S
<1>4. j < k
  <2>1. ASSUME k <= j PROVE FALSE
    <3>1. (j - k) * S >= 0 /\ (j - k) * S = j * S - k * S
      BY <1>3, <2>1
    <3>2. j * S < k * S /\ j * S \in Nat /\ k * S \in Nat
      BY <1>1, <1>2, <1>3 DEF S
    <3> QED
      BY <3>1, <3>2
  <2> QED
    BY <2>1
<1>5. (k - j - 1) * S >= 0 /\ (k - j - 1) * S = k * S - j * S - S
  BY <1>3, <1>4
<1>6. j * S + S <= k * S
  BY <1>3, <1>5
<1> QED
  BY <1>1, <1>2, <1>6 DEF S

\* A value that is missed between bands is missed between two neighbours.
LEMMA Hole ==
  ASSUME NEW B, Table(B), NEW v \in Between(B), \A b \in B : ~ Covers(band[b], v)
  PROVE  \E p \in Neighbours(Proper(B)) : band[p[1]].max < v /\ v < band[p[2]].min
<1> DEFINE P == Proper(B)
<1>1. Table(P) /\ P \subseteq B
  BY DEF Table, Proper
<1>2. v \in Nat
  BY Bounds DEF Between
<1>3. ASSUME NEW b \in P PROVE (band[b].min <= v => band[b].max < v)
  BY <1>1, <1>2, <1>3, RowFields DEF Covers
<1>4. PICK low \in P : band[low].min <= v
  BY DEF Between
<1>5. PICK high \in P : band[high].max >= v
  BY DEF Between
<1> DEFINE Above == {b \in P : band[b].min > v}
<1>6. high \in Above
  BY <1>1, <1>2, <1>3, <1>5, RowFields
<1>7. Table(Above)
  BY <1>1 DEF Table
<1>8. PICK c \in Above : \A x \in Above : ~ Precedes(x, c)
  BY <1>6, <1>7, FirstRow
<1>9. Precedes(low, c)
  BY <1>1, <1>2, <1>4, <1>8, RowFields DEF Precedes
<1>10. PICK a \in P : <<a, c>> \in Neighbours(P)
  BY <1>1, <1>8, <1>9, Predecessor
<1>11. Precedes(a, c)
  BY <1>10 DEF Neighbours
<1>12. band[a].min <= v
  BY <1>1, <1>2, <1>8, <1>10, <1>11, RowFields
<1>13. band[a].max < v /\ v < band[c].min
  BY <1>1, <1>2, <1>3, <1>8, <1>12, RowFields
<1>14. <<a, c>>[1] = a /\ <<a, c>>[2] = c
  OBVIOUS
<1> QED
  BY <1>10, <1>13, <1>14

\* Where all limits are whole, the hole is a gap the validator reports.
LEMMA HoleIsReported ==
  ASSUME NEW B, Table(B), WholeBands(B), NEW v \in Between(B),
         \A b \in B : ~ Covers(band[b], v)
  PROVE  /\ FindGaps(B) # {}
         /\ v \in Reported(FindGaps(B))
<1>1. PICK p \in Neighbours(Proper(B)) : band[p[1]].max < v /\ v < band[p[2]].min
  BY Hole
<1>2. Table(Proper(B)) /\ Proper(B) \subseteq B
  BY DEF Table, Proper
<1>3. p[1] \in B /\ p[2] \in B
  BY <1>2, NeighbourRows
<1>4. Whole(v) /\ v \in Values /\ v \in Nat
  BY Bounds DEF Between
<1>5. band[p[1]].max + Shilling <= v /\ v + Shilling <= band[p[2]].min
  BY <1>1, <1>3, <1>4, WholeSteps DEF WholeBands
<1> DEFINE lo == band[p[1]].max
           hi == band[p[2]].min
<1>6. lo \in Nat /\ hi \in Nat /\ Shilling \in Nat /\ Shilling >= 1
  BY <1>3, RowFields, Bounds
<1>7. hi > lo + Shilling /\ lo + Shilling <= v /\ v <= hi - Shilling
  <2> HIDE DEF lo, hi
  <2>1. lo + Shilling <= v /\ v + Shilling <= hi
    BY <1>5 DEF lo, hi
  <2> QED
    BY <1>4, <1>6, <2>1
<1>8. [from |-> lo + Shilling, to |-> hi - Shilling] \in FindGaps(B)
  BY <1>7 DEF FindGaps
<1> QED
  BY <1>4, <1>7, <1>8 DEF Reported

LEMMA GapsComplete ==
  ASSUME TypeOK PROVE NoGapMeansQuoted
<1> SUFFICES ASSUME NEW u \in enabled, WholeBands(BandsOf(u)),
                    FindGaps(BandsOf(u)) = {}, NEW v \in Between(BandsOf(u)),
                    QuotesOf(u, v) = {}
             PROVE  FALSE
  BY DEF NoGapMeansQuoted
<1>1. Table(BandsOf(u)) /\ v \in Values
  BY BandsAreTable DEF Between, TypeOK
<1>2. \A b \in BandsOf(u) : ~ Covers(band[b], v)
  BY <1>1, QuotesAreBands
<1> QED
  BY <1>1, <1>2, HoleIsReported

\* A reported gap holds no band.
LEMMA GapIsHole ==
  ASSUME NEW B, Table(B), FindOverlaps(B) = {}, NEW v \in Reported(FindGaps(B))
  PROVE  /\ \A b \in B : ~ Covers(band[b], v)
         /\ \E b \in Proper(B) : band[b].min <= v
         /\ \E b \in Proper(B) : band[b].max >= v
<1> DEFINE P == Proper(B)
<1>1. Table(P) /\ P \subseteq B
  BY DEF Table, Proper
<1>2. v \in Values /\ v \in Nat
  BY Bounds DEF Reported
<1>3. PICK g \in FindGaps(B) : g.from <= v /\ v <= g.to
  BY DEF Reported
<1>4. PICK p \in Neighbours(P) :
        g = [from |-> band[p[1]].max + Shilling, to |-> band[p[2]].min - Shilling]
  BY <1>3 DEF FindGaps
<1>5. /\ p[1] \in P /\ p[2] \in P /\ Precedes(p[1], p[2])
      /\ \A c \in P : Precedes(p[1], c) => ~ Precedes(c, p[2])
  BY <1>1, NeighbourRows
<1>6. \A b \in P : /\ band[b].min \in Nat /\ band[b].max \in Nat
                    /\ band[b].min <= band[b].max
  BY <1>1, RowFields DEF Proper
<1>7. band[p[1]].max < v /\ v < band[p[2]].min
  <2>1. band[p[1]].max + Shilling <= v /\ v <= band[p[2]].min - Shilling
    BY <1>3, <1>4
  <2> QED
    BY <1>2, <1>5, <1>6, <2>1, Bounds
<1>8. ASSUME NEW b \in B, Covers(band[b], v) PROVE FALSE
  <2>1. band[b].min <= v /\ v <= band[b].max
    BY <1>8 DEF Covers
  <2>2. b \in P
    BY <1>2, <1>8, <2>1, RowFields DEF Proper
  <2>3. CASE b = p[1] \/ b = p[2]
    BY <1>2, <1>5, <1>6, <1>7, <2>1, <2>3
  <2>4. CASE Precedes(b, p[1])
    <3>1. band[b].max < band[p[1]].min
      BY <1>1, <1>5, <2>2, <2>4, Disjoint
    <3> QED
      BY <1>2, <1>5, <1>6, <1>7, <2>1, <2>2, <3>1
  <2>5. CASE Precedes(p[2], b)
    <3>1. band[p[2]].max < band[b].min
      BY <1>1, <1>5, <2>2, <2>5, Disjoint
    <3> QED
      BY <1>2, <1>5, <1>6, <1>7, <2>1, <2>2, <3>1
  <2> QED
    BY <1>1, <1>5, <2>2, <2>3, <2>4, <2>5, Linear
<1>9. band[p[1]].min <= v /\ band[p[2]].max >= v
  BY <1>2, <1>5, <1>6, <1>7
<1> QED
  BY <1>5, <1>8, <1>9

LEMMA GapsSound ==
  ASSUME TypeOK PROVE GapsAreExact
<1> SUFFICES ASSUME NEW u \in enabled, WholeBands(BandsOf(u)),
                    FindOverlaps(BandsOf(u)) = {}
             PROVE  {v \in Reported(FindGaps(BandsOf(u))) : Whole(v)}
                      = {v \in Between(BandsOf(u)) : QuotesOf(u, v) = {}}
  BY DEF GapsAreExact
<1>u. u \in Underwriters
  BY DEF TypeOK
<1> DEFINE B == BandsOf(u)
<1>0. Table(B)
  BY <1>u, BandsAreTable
<1>1. ASSUME NEW v \in Reported(FindGaps(B)), Whole(v)
      PROVE  v \in Between(B) /\ QuotesOf(u, v) = {}
  <2>1. v \in Values
    BY DEF Reported
  <2>2. v \in Between(B)
    BY <1>0, <1>1, <2>1, GapIsHole DEF Between
  <2>3. \A b \in B : ~ Covers(band[b], v)
    BY <1>0, <1>1, GapIsHole
  <2> QED
    BY <2>1, <2>2, <2>3, QuotesAreBands
<1>2. ASSUME NEW v \in Between(B), QuotesOf(u, v) = {}
      PROVE  v \in Reported(FindGaps(B)) /\ Whole(v)
  <2>1. v \in Values /\ Whole(v)
    BY DEF Between
  <2>2. \A b \in B : ~ Covers(band[b], v)
    BY <1>2, <2>1, QuotesAreBands
  <2> QED
    BY <1>0, <2>1, <2>2, HoleIsReported
<1> QED
  BY <1>1, <1>2

-----------------------------------------------------------------------------
(* The theorems.                                                           *)

\* For an underwriter that is switched on, silence about overlaps means that no
\* value gets it twice, and only that (FindOverlaps against GetOptions).
THEOREM OverlapsAreFound == Spec => []OverlapsFoundIffQuotedTwice
BY Typing, OverlapsComplete, PTL

\* For an underwriter that is switched on, no overlap is reported that is not one
\* (FindOverlaps).
THEOREM NoFalseOverlaps == Spec => []OverlapsAreReal
BY Typing, OverlapsSound, PTL

\* For an underwriter that is switched on, silence about gaps means that every
\* whole value in between is quoted (FindGaps).
THEOREM GapsAreFound == Spec => []NoGapMeansQuoted
BY Typing, GapsComplete, PTL

\* For an underwriter that is switched on and has no overlaps, the report of gaps
\* is exact (FindGaps).
THEOREM GapReportIsExact == Spec => []GapsAreExact
BY Typing, GapsSound, PTL
=============================================================================
