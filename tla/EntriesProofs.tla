--------------------------- MODULE EntriesProofs ---------------------------
(***************************************************************************)
(* What the operators of Entries return, for tables of any size: the       *)
(* lemmas that the theorems about the browser rest on.                     *)
(***************************************************************************)
EXTENDS Entries, FiniteSetTheorems, TLAPS

NatLess == {p \in Nat \X Nat : p[1] < p[2]}

(* A set of row numbers has a smallest and a largest member. *)
LEMMA MinOfRows ==
  ASSUME NEW S \in SUBSET Nat, S # {}
  PROVE  Min(S) \in S /\ \A r \in S : Min(S) <= r
<1>1. OpToRel(<, Nat) = NatLess
  BY Zenon DEF OpToRel, NatLess
<1>2. PICK m \in S : \A r \in S : <<r, m>> \notin NatLess
  BY <1>1, NatLessThanWellFounded, WFMin, Zenon
<1>3. ASSUME NEW r \in S PROVE m <= r
  <2>1. <<r, m>> \in Nat \X Nat /\ <<r, m>>[1] = r /\ <<r, m>>[2] = m
    OBVIOUS
  <2>2. <<r, m>> \notin NatLess
    BY <1>2
  <2>3. ~ (r < m)
    BY <2>1, <2>2 DEF NatLess
  <2> QED
    BY <2>3
<1> QED
  BY <1>3 DEF Min

LEMMA MaxOfRows ==
  ASSUME NEW n \in Nat, NEW S \in SUBSET (0 .. n), S # {}
  PROVE  Max(S) \in S /\ \A r \in S : r <= Max(S)
<1> DEFINE T == {n - r : r \in S}
<1>1. \A r \in S : n - r \in Nat
  OBVIOUS
<1>2. T \in SUBSET Nat /\ T # {}
  BY <1>1
<1>3. Min(T) \in T /\ \A t \in T : Min(T) <= t
  BY <1>2, MinOfRows, Zenon
<1>4. PICK m \in S : Min(T) = n - m
  BY <1>3
<1>5. ASSUME NEW r \in S PROVE m >= r
  <2>1. n - r \in T
    OBVIOUS
  <2>2. n - m <= n - r
    BY <1>3, <1>4, <2>1
  <2> QED
    BY <2>2
<1> QED
  BY <1>5 DEF Max
-----------------------------------------------------------------------------
(* The live rows and the vacant rows make up the table, and are counted    *)
(* accordingly.                                                            *)
LEMMA RowsAreFinite ==
  ASSUME NEW rows \in Seq(Row)
  PROVE  /\ DOMAIN rows = 1 .. Len(rows)
         /\ Len(rows) \in Nat
         /\ IsFiniteSet(DOMAIN rows)
         /\ Cardinality(DOMAIN rows) = Len(rows)
<1>1. DOMAIN rows = 1 .. Len(rows) /\ Len(rows) \in Nat
  OBVIOUS
<1>2. IsFiniteSet(1 .. Len(rows)) /\ Cardinality(1 .. Len(rows)) = Len(rows)
  BY <1>1, FS_Interval
<1> QED
  BY <1>1, <1>2

LEMMA CountingRows ==
  ASSUME NEW rows \in Seq(Row)
  PROVE  /\ IsFiniteSet(LiveRows(rows))
         /\ IsFiniteSet(VacantRows(rows))
         /\ EntriesLen(rows) \in 0 .. Len(rows)
         /\ Cardinality(VacantRows(rows)) = Len(rows) - EntriesLen(rows)
         /\ EntriesLen(rows) = Len(rows) => VacantRows(rows) = {}
<1>1. /\ DOMAIN rows = 1 .. Len(rows)
      /\ Len(rows) \in Nat
      /\ IsFiniteSet(DOMAIN rows)
      /\ Cardinality(DOMAIN rows) = Len(rows)
  BY RowsAreFinite
<1>2. LiveRows(rows) \in SUBSET DOMAIN rows
  BY DEF LiveRows
<1>3. /\ IsFiniteSet(LiveRows(rows))
      /\ Cardinality(LiveRows(rows)) <= Cardinality(DOMAIN rows)
      /\ Cardinality(DOMAIN rows) = Cardinality(LiveRows(rows)) => DOMAIN rows = LiveRows(rows)
  BY <1>1, <1>2, FS_Subset
<1>4. Cardinality(LiveRows(rows)) \in Nat
  BY <1>3, FS_CardinalityType
<1>5. /\ IsFiniteSet(VacantRows(rows))
      /\ Cardinality(VacantRows(rows))
           = Cardinality(DOMAIN rows) - Cardinality(DOMAIN rows \cap LiveRows(rows))
  BY <1>1, FS_Difference DEF VacantRows
<1>6. DOMAIN rows \cap LiveRows(rows) = LiveRows(rows)
  BY <1>2
<1>7. EntriesLen(rows) \in 0 .. Len(rows)
  BY <1>1, <1>3, <1>4 DEF EntriesLen
<1>8. Cardinality(VacantRows(rows)) = Len(rows) - EntriesLen(rows)
  BY <1>1, <1>5, <1>6 DEF EntriesLen
<1>9. EntriesLen(rows) = Len(rows) => VacantRows(rows) = {}
  BY <1>1, <1>3 DEF EntriesLen, VacantRows
<1> QED
  BY <1>3, <1>5, <1>7, <1>8, <1>9

(* More live rows, more entries. *)
LEMMA EntriesLenGrows ==
  ASSUME NEW old \in Seq(Row), NEW new \in Seq(Row), LiveRows(old) \subseteq LiveRows(new)
  PROVE  EntriesLen(old) <= EntriesLen(new)
BY CountingRows, FS_Subset DEF EntriesLen
-----------------------------------------------------------------------------
(* insert_info keeps the size of the table, and every entry. *)
LEMMA InsertInfoType ==
  ASSUME NEW rows \in Seq(Row), NEW item \in Info, VacantRows(rows) # {}
  PROVE  /\ InsertInfo(rows, item) \in Seq(Row)
         /\ Len(InsertInfo(rows, item)) = Len(rows)
         /\ LiveRows(rows) \subseteq LiveRows(InsertInfo(rows, item))
<1>1. VacantRows(rows) \in SUBSET Nat /\ VacantRows(rows) \subseteq DOMAIN rows
  BY DEF VacantRows
<1>2. Min(VacantRows(rows)) \in DOMAIN rows
  BY <1>1, MinOfRows
<1> QED
  BY <1>2 DEF InsertInfo, LiveRows, Row

(* The cursor moves to an entry, or away if there is none. *)
LEMMA NextEntryIdxType ==
  ASSUME NEW rows \in Seq(Row), NEW cur \in Nat
  PROVE  NextEntryIdx(rows, cur) \in LiveRows(rows) \cup {NoRow}
<1>1. LiveRows(rows) \in SUBSET Nat
  BY DEF LiveRows
<1>2. \A S \in SUBSET LiveRows(rows) : S # {} => Min(S) \in S
  BY <1>1, MinOfRows
<1> DEFINE below == {r \in LiveRows(rows) : r > cur}
<1>3. below \in SUBSET LiveRows(rows)
  OBVIOUS
<1> QED
  BY <1>2, <1>3 DEF NextEntryIdx

LEMMA PrevEntryIdxType ==
  ASSUME NEW rows \in Seq(Row), NEW cur \in Nat
  PROVE  PrevEntryIdx(rows, cur) \in LiveRows(rows) \cup {NoRow}
<1>1. LiveRows(rows) \in SUBSET (0 .. Len(rows))
  BY DEF LiveRows
<1>2. ASSUME NEW S \in SUBSET LiveRows(rows), S # {} PROVE Max(S) \in S
  <2>1. Len(rows) \in Nat /\ S \in SUBSET (0 .. Len(rows))
    BY <1>1
  <2> QED
    BY <1>2, <2>1, MaxOfRows
<1> DEFINE above == {r \in LiveRows(rows) : r < cur}
<1>3. above \in SUBSET LiveRows(rows)
  OBVIOUS
<1> QED
  BY <1>2, <1>3 DEF PrevEntryIdx

(* The rows that "j" and "k" look at first. *)
LEMMA NextBelow ==
  ASSUME NEW rows \in Seq(Row), NEW cur \in LiveRows(rows), NEW low \in LiveRows(rows),
         low > cur, \A r \in LiveRows(rows) : r > cur => r >= low
  PROVE  NextEntryIdx(rows, cur) = low
<1> DEFINE below == {r \in LiveRows(rows) : r > cur}
<1>1. below \in SUBSET Nat /\ below # {} /\ low \in Nat
  BY DEF LiveRows
<1>2. Min(below) \in below /\ \A r \in below : Min(below) <= r
  BY <1>1, MinOfRows
<1>3. Min(below) = low
  BY <1>1, <1>2
<1> QED
  BY <1>1, <1>3 DEF NextEntryIdx

LEMMA NextWraps ==
  ASSUME NEW rows \in Seq(Row), NEW cur \in LiveRows(rows), NEW first \in LiveRows(rows),
         \A r \in LiveRows(rows) : first <= r /\ r <= cur
  PROVE  NextEntryIdx(rows, cur) = first
<1>1. LiveRows(rows) \in SUBSET Nat /\ LiveRows(rows) # {}
  BY DEF LiveRows
<1>2. Min(LiveRows(rows)) \in LiveRows(rows) /\ \A r \in LiveRows(rows) : Min(LiveRows(rows)) <= r
  BY <1>1, MinOfRows
<1>3. Min(LiveRows(rows)) = first
  BY <1>1, <1>2
<1>4. {r \in LiveRows(rows) : r > cur} = {}
  BY <1>1
<1> QED
  BY <1>1, <1>3, <1>4 DEF NextEntryIdx

LEMMA PrevAbove ==
  ASSUME NEW rows \in Seq(Row), NEW cur \in LiveRows(rows), NEW high \in LiveRows(rows),
         high < cur, \A r \in LiveRows(rows) : r < cur => r <= high
  PROVE  PrevEntryIdx(rows, cur) = high
<1> DEFINE above == {r \in LiveRows(rows) : r < cur}
<1>1. above \in SUBSET (0 .. Len(rows)) /\ above # {} /\ Len(rows) \in Nat /\ high \in Nat
  BY DEF LiveRows
<1>2. Max(above) \in above /\ \A r \in above : r <= Max(above)
  BY <1>1, MaxOfRows
<1>3. Max(above) = high
  BY <1>1, <1>2
<1> QED
  BY <1>1, <1>3 DEF PrevEntryIdx

LEMMA PrevWraps ==
  ASSUME NEW rows \in Seq(Row), NEW cur \in LiveRows(rows), NEW last \in LiveRows(rows),
         \A r \in LiveRows(rows) : cur <= r /\ r <= last
  PROVE  PrevEntryIdx(rows, cur) = last
<1>1. /\ LiveRows(rows) \in SUBSET (0 .. Len(rows)) /\ LiveRows(rows) # {}
      /\ Len(rows) \in Nat
  BY DEF LiveRows
<1>2. Max(LiveRows(rows)) \in LiveRows(rows) /\ \A r \in LiveRows(rows) : r <= Max(LiveRows(rows))
  BY <1>1, MaxOfRows
<1>3. Max(LiveRows(rows)) = last
  BY <1>1, <1>2
<1>4. {r \in LiveRows(rows) : r < cur} = {}
  BY <1>1
<1> QED
  BY <1>1, <1>3, <1>4 DEF PrevEntryIdx

(* On the entries of a table of any size "j" and "k" undo each other: each *)
(* goes to the neighbour, or from one end of the entries to the other.     *)
THEOREM MovesUndoEachOther ==
  ASSUME NEW rows \in Seq(Row), NEW cur \in LiveRows(rows)
  PROVE  /\ PrevEntryIdx(rows, NextEntryIdx(rows, cur)) = cur
         /\ NextEntryIdx(rows, PrevEntryIdx(rows, cur)) = cur
<1> DEFINE live == LiveRows(rows)
<1>1. /\ live \in SUBSET (0 .. Len(rows)) /\ live \in SUBSET Nat /\ live # {}
      /\ Len(rows) \in Nat
  BY DEF LiveRows
<1>2. PICK first \in live : \A r \in live : first <= r
  BY <1>1, MinOfRows
<1>3. PICK last \in live : \A r \in live : r <= last
  BY <1>1, MaxOfRows
<1>4. PrevEntryIdx(rows, NextEntryIdx(rows, cur)) = cur
  <2>1. CASE cur = last
    <3>1. NextEntryIdx(rows, cur) = first
      BY <1>2, <1>3, <2>1, NextWraps
    <3>2. PrevEntryIdx(rows, first) = last
      BY <1>2, <1>3, PrevWraps
    <3> QED
      BY <2>1, <3>1, <3>2
  <2>2. CASE cur # last
    <3> DEFINE below == {r \in live : r > cur}
    <3>1. below \in SUBSET Nat /\ last \in below
      BY <1>1, <1>3, <2>2
    <3>2. PICK low \in below : \A r \in below : low <= r
      BY <3>1, MinOfRows
    <3>3. NextEntryIdx(rows, cur) = low
      BY <3>2, NextBelow
    <3>4. PrevEntryIdx(rows, low) = cur
      <4>1. \A r \in live : r < low => r <= cur
        BY <1>1, <3>2
      <4> QED
        BY <1>1, <3>2, <4>1, PrevAbove
    <3> QED
      BY <3>3, <3>4
  <2> QED
    BY <2>1, <2>2
<1>5. NextEntryIdx(rows, PrevEntryIdx(rows, cur)) = cur
  <2>1. CASE cur = first
    <3>1. PrevEntryIdx(rows, cur) = last
      BY <1>2, <1>3, <2>1, PrevWraps
    <3>2. NextEntryIdx(rows, last) = first
      BY <1>2, <1>3, NextWraps
    <3> QED
      BY <2>1, <3>1, <3>2
  <2>2. CASE cur # first
    <3> DEFINE above == {r \in live : r < cur}
    <3>1. above \in SUBSET (0 .. Len(rows)) /\ first \in above
      BY <1>1, <1>2, <2>2
    <3>2. PICK high \in above : \A r \in above : r <= high
      BY <1>1, <3>1, MaxOfRows
    <3>3. PrevEntryIdx(rows, cur) = high
      BY <3>2, PrevAbove
    <3>4. NextEntryIdx(rows, high) = cur
      <4>1. \A r \in live : r > high => r >= cur
        BY <1>1, <3>2
      <4> QED
        BY <1>1, <3>2, <4>1, NextBelow
    <3> QED
      BY <3>3, <3>4
  <2> QED
    BY <2>1, <2>2
<1> QED
  BY <1>4, <1>5
-----------------------------------------------------------------------------
(* A finite set of row numbers has a k-th smallest member: the map from a  *)
(* member to the number of members up to it is injective, hence onto.      *)
LEMMA KthType ==
  ASSUME NEW S \in SUBSET Nat, IsFiniteSet(S), NEW k \in 1 .. Cardinality(S)
  PROVE  Kth(S, k) \in S /\ Cardinality({q \in S : q <= Kth(S, k)}) = k
<1> DEFINE UpTo(r) == {q \in S : q <= r}
           rank    == [r \in S |-> Cardinality(UpTo(r))]
           size    == Cardinality(S)
<1>1. size \in Nat
  BY FS_CardinalityType
<1>2. ASSUME NEW r \in S
      PROVE  IsFiniteSet(UpTo(r)) /\ Cardinality(UpTo(r)) \in 1 .. size
  <2>1. IsFiniteSet(UpTo(r)) /\ Cardinality(UpTo(r)) <= size
    BY FS_Subset
  <2>2. UpTo(r) # {}
    OBVIOUS
  <2>3. Cardinality(UpTo(r)) \in Nat /\ Cardinality(UpTo(r)) # 0
    BY <2>1, <2>2, FS_CardinalityType, FS_EmptySet
  <2> QED
    BY <1>1, <2>1, <2>3
<1>3. ASSUME NEW r \in S, NEW q \in S, r < q
      PROVE  rank[r] # rank[q]
  <2>0. \A p \in S : p <= r => p <= q
    BY <1>3
  <2>1. UpTo(r) \in SUBSET UpTo(q)
    BY <2>0
  <2>2. q \in UpTo(q) /\ q \notin UpTo(r)
    BY <1>3
  <2>3. IsFiniteSet(UpTo(q))
    BY <1>2
  <2>4. Cardinality(UpTo(q)) = Cardinality(UpTo(r)) => UpTo(q) = UpTo(r)
    BY <2>1, <2>3, FS_Subset
  <2> QED
    BY <2>2, <2>4
<1>4. rank \in Injection(S, 1 .. size)
  <2>1. rank \in [S -> 1 .. size]
    BY <1>2
  <2>2. \A r, q \in S : rank[r] = rank[q] => r = q
    <3>1. \A r, q \in S : r = q \/ r < q \/ q < r
      OBVIOUS
    <3> QED
      BY <1>3, <3>1
  <2> QED
    BY <2>1, <2>2 DEF Injection, IsInjective
<1>5. IsFiniteSet(1 .. size) /\ Cardinality(1 .. size) = size
  BY <1>1, FS_Interval
<1>6. rank \in Surjection(S, 1 .. size)
  BY <1>4, <1>5, FS_Injection
<1>7. PICK r \in S : rank[r] = k
  BY <1>6 DEF Surjection
<1>8. \E p \in S : Cardinality({q \in S : q <= p}) = k
  BY <1>7
<1> QED
  BY <1>8 DEF Kth

(* Different ranks are those of different rows. *)
LEMMA KthIsInjective ==
  ASSUME NEW S \in SUBSET Nat, IsFiniteSet(S),
         NEW j \in 1 .. Cardinality(S), NEW k \in 1 .. Cardinality(S),
         Kth(S, j) = Kth(S, k)
  PROVE  j = k
<1>1. Cardinality({q \in S : q <= Kth(S, j)}) = j
  BY KthType
<1>2. Cardinality({q \in S : q <= Kth(S, k)}) = k
  BY KthType
<1> QED
  BY <1>1, <1>2

(* Every row has a rank, and the ranks are in the order of the rows. *)
LEMMA MoreUpToHigher ==
  ASSUME NEW S \in SUBSET Nat, IsFiniteSet(S), NEW q \in Nat, NEW r \in S, q < r
  PROVE  /\ Cardinality({p \in S : p <= q}) \in Nat
         /\ Cardinality({p \in S : p <= r}) \in Nat
         /\ Cardinality({p \in S : p <= q}) < Cardinality({p \in S : p <= r})
<1> DEFINE A == {p \in S : p <= q}
           B == {p \in S : p <= r}
<1>1. A \in SUBSET B /\ r \in B /\ r \notin A /\ A \in SUBSET S /\ B \in SUBSET S
  <2>1. (\A p \in S : p <= q => p <= r) /\ r <= r /\ ~ (r <= q)
    OBVIOUS
  <2>2. A \in SUBSET B
    BY <2>1
  <2>3. r \in B /\ r \notin A
    BY <2>1
  <2> QED
    BY <2>2, <2>3
<1> HIDE DEF A, B
<1>2. IsFiniteSet(A) /\ IsFiniteSet(B)
  BY <1>1, FS_Subset
<1>3. Cardinality(A) \in Nat /\ Cardinality(B) \in Nat
  BY <1>2, FS_CardinalityType
<1>4. Cardinality(A) <= Cardinality(B) /\ Cardinality(A) # Cardinality(B)
  BY <1>1, <1>2, FS_Subset
<1>5. Cardinality(A) < Cardinality(B)
  BY <1>3, <1>4
<1> QED
  BY <1>3, <1>5 DEF A, B

LEMMA KthOfRank ==
  ASSUME NEW S \in SUBSET Nat, IsFiniteSet(S), NEW r \in S
  PROVE  /\ Cardinality({q \in S : q <= r}) \in 1 .. Cardinality(S)
         /\ Kth(S, Cardinality({q \in S : q <= r})) = r
<1> DEFINE A == {q \in S : q <= r}
           k == Cardinality(A)
<1>1. A \in SUBSET S /\ A # {}
  OBVIOUS
<1>2. IsFiniteSet(A) /\ k <= Cardinality(S)
  BY <1>1, FS_Subset
<1>3. k \in Nat /\ k # 0 /\ Cardinality(S) \in Nat
  BY <1>1, <1>2, FS_CardinalityType, FS_EmptySet
<1>4. k \in 1 .. Cardinality(S)
  BY <1>2, <1>3
<1>5. Kth(S, k) \in S /\ Cardinality({q \in S : q <= Kth(S, k)}) = k
  BY <1>4, KthType
<1> DEFINE x == Kth(S, k)
<1>6. x \in S /\ x \in Nat /\ r \in Nat
  BY <1>5
<1> HIDE DEF x
<1>7. x = r
  <2>1. x < r => Cardinality({q \in S : q <= x}) < k
    BY <1>6, MoreUpToHigher
  <2>2. r < x => k < Cardinality({q \in S : q <= x})
    BY <1>6, MoreUpToHigher
  <2>3. Cardinality({q \in S : q <= x}) = k
    BY <1>5 DEF x
  <2> HIDE DEF k
  <2>4. ~ (x < r) /\ ~ (r < x)
    BY <1>3, <2>1, <2>2, <2>3
  <2> QED
    BY <1>6, <2>4
<1> QED
  BY <1>4, <1>7 DEF x

LEMMA KthIsMonotone ==
  ASSUME NEW S \in SUBSET Nat, IsFiniteSet(S),
         NEW j \in 1 .. Cardinality(S), NEW k \in 1 .. Cardinality(S), j < k
  PROVE  Kth(S, j) < Kth(S, k)
<1>1. /\ Kth(S, j) \in S /\ Cardinality({q \in S : q <= Kth(S, j)}) = j
      /\ Kth(S, k) \in S /\ Cardinality({q \in S : q <= Kth(S, k)}) = k
  BY KthType
<1>2. Cardinality(S) \in Nat
  BY FS_CardinalityType
<1>3. Kth(S, j) # Kth(S, k)
  BY <1>1, <1>2
<1>4. ~ (Kth(S, k) < Kth(S, j))
  <2>1. SUFFICES ASSUME Kth(S, k) < Kth(S, j) PROVE k < j
    BY <1>2
  <2> QED
    BY <1>1, <2>1, MoreUpToHigher
<1>5. Kth(S, j) \in Nat /\ Kth(S, k) \in Nat
  BY <1>1
<1> QED
  BY <1>3, <1>4, <1>5

(* "j" goes to the next rank, and from the last one to the first.          *)
LEMMA NextByRank ==
  ASSUME NEW rows \in Seq(Row), NEW cur \in Nat, EntriesLen(rows) # 0
  PROVE  LET rank == Cardinality({r \in LiveRows(rows) : r <= cur})
         IN  /\ rank \in 0 .. EntriesLen(rows)
             /\ NextEntryIdx(rows, cur)
                  = Kth(LiveRows(rows), IF rank < EntriesLen(rows) THEN rank + 1 ELSE 1)
<1> DEFINE live  == LiveRows(rows)
           N     == EntriesLen(rows)
           A     == {r \in live : r <= cur}
           rank  == Cardinality(A)
           below == {r \in live : r > cur}
<1>1. live \in SUBSET Nat /\ IsFiniteSet(live) /\ N \in Nat /\ N >= 1 /\ Cardinality(live) = N
  BY CountingRows DEF LiveRows, EntriesLen
<1>2. NextEntryIdx(rows, cur) = IF below # {} THEN Min(below) ELSE IF live # {} THEN Min(live) ELSE NoRow
  BY DEF NextEntryIdx
<1> HIDE DEF live, N
<1>3. A \in SUBSET live
  OBVIOUS
<1>4. IsFiniteSet(A) /\ rank \in Nat /\ rank <= N /\ (rank = N => A = live)
  BY <1>1, <1>3, FS_Subset, FS_CardinalityType
<1>5. ASSUME NEW r \in live
      PROVE  Cardinality({q \in live : q <= r}) \in 1 .. N /\ Kth(live, Cardinality({q \in live : q <= r})) = r
  BY <1>1, KthOfRank
<1>6. ASSUME NEW m \in 1 .. N, NEW r \in live, m <= Cardinality({q \in live : q <= r})
      PROVE  Kth(live, m) <= r
  <2> DEFINE k == Cardinality({q \in live : q <= r})
  <2>1. k \in 1 .. N /\ Kth(live, k) = r /\ r \in Nat
    BY <1>1, <1>5
  <2>2. m = k \/ m < k
    BY <1>1, <1>6, <2>1
  <2> HIDE DEF k
  <2>3. m < k => Kth(live, m) < Kth(live, k)
    BY <1>1, <2>1, KthIsMonotone
  <2>4. Kth(live, m) \in Nat
    BY <1>1, KthType
  <2> QED
    BY <2>1, <2>2, <2>3, <2>4
<1>7. CASE rank < N
  <2>1. rank + 1 \in 1 .. N
    BY <1>1, <1>4, <1>7
  <2> DEFINE next == Kth(live, rank + 1)
  <2>2. next \in live /\ Cardinality({q \in live : q <= next}) = rank + 1
    BY <1>1, <2>1, KthType
  <2> HIDE DEF next
  <2>3. next > cur
    <3>1. next \in Nat /\ \A q \in live : q \in Nat
      BY <1>1, <2>2
    <3>2. next <= cur => {q \in live : q <= next} \in SUBSET A
      BY <3>1
    <3>3. next <= cur => Cardinality({q \in live : q <= next}) <= rank
      BY <1>4, <3>2, FS_Subset
    <3> HIDE DEF rank
    <3>4. ~ (next <= cur)
      BY <1>4, <2>2, <3>3
    <3> QED
      BY <3>1, <3>4
  <2>4. ASSUME NEW r \in below PROVE next <= r
    <3>1. r \in live /\ cur < r
      BY <1>1
    <3>2. rank < Cardinality({q \in live : q <= r}) /\ Cardinality({q \in live : q <= r}) \in Nat
      BY <1>1, <3>1, MoreUpToHigher
    <3>3. rank + 1 <= Cardinality({q \in live : q <= r})
      BY <1>4, <3>2
    <3> QED
      BY <1>6, <2>1, <3>1, <3>3 DEF next
  <2>5. next \in below /\ below \in SUBSET Nat
    BY <1>1, <2>2, <2>3
  <2> HIDE DEF below
  <2>6. Min(below) \in below /\ \A r \in below : Min(below) <= r
    BY <2>5, MinOfRows
  <2>7. Min(below) = next
    <3>1. next <= Min(below) /\ Min(below) <= next /\ next \in Nat /\ Min(below) \in Nat
      BY <2>4, <2>5, <2>6
    <3> QED
      BY <3>1
  <2>8. below # {}
    BY <2>5
  <2> QED
    BY <1>1, <1>2, <1>4, <1>7, <2>7, <2>8 DEF next, live, N
<1>8. CASE ~ (rank < N)
  <2>1. A = live
    BY <1>1, <1>4, <1>8
  <2>2. below = {}
    <3>1. \A r \in live : r \in Nat /\ r <= cur
      BY <1>1, <2>1
    <3> QED
      BY <3>1
  <2>3. live # {}
    BY <1>1, FS_EmptySet
  <2>4. 1 \in 1 .. N
    BY <1>1
  <2>5. Kth(live, 1) \in live
    BY <1>1, <2>4, KthType
  <2>6. \A r \in live : Kth(live, 1) <= r
    <3>1. ASSUME NEW r \in live PROVE 1 <= Cardinality({q \in live : q <= r})
      BY <1>1, <1>5
    <3> QED
      BY <1>6, <2>4, <3>1
  <2>7. Min(live) \in live /\ \A r \in live : Min(live) <= r
    BY <1>1, <2>3, MinOfRows
  <2>8. Min(live) = Kth(live, 1)
    <3>1. /\ Min(live) \in Nat /\ Kth(live, 1) \in Nat
          /\ Min(live) <= Kth(live, 1) /\ Kth(live, 1) <= Min(live)
      BY <1>1, <2>5, <2>6, <2>7
    <3> QED
      BY <3>1
  <2> QED
    BY <1>1, <1>2, <1>4, <1>8, <2>2, <2>3, <2>8 DEF live, N
<1> QED
  BY <1>7, <1>8

(* The sorted table is a table of the same size. *)
LEMMA SortRowsType ==
  ASSUME NEW rows \in Seq(Row)
  PROVE  SortRows(rows) \in Seq(Row) /\ Len(SortRows(rows)) = Len(rows)
<1>1. /\ DOMAIN rows = 1 .. Len(rows)
      /\ Len(rows) \in Nat
  BY RowsAreFinite
<1>2. /\ IsFiniteSet(LiveRows(rows))
      /\ Cardinality(LiveRows(rows)) \in 0 .. Len(rows)
      /\ Cardinality(LiveRows(rows)) = Len(rows) => VacantRows(rows) = {}
  BY CountingRows DEF EntriesLen
<1>3. ASSUME NEW k \in 1 .. Len(rows)
      PROVE  SortRows(rows)[k] \in Row
  <2>1. CASE k <= Cardinality(LiveRows(rows))
    <3>1. LiveRows(rows) \in SUBSET Nat /\ LiveRows(rows) \subseteq DOMAIN rows
      BY <1>1 DEF LiveRows
    <3>2. Kth(LiveRows(rows), k) \in LiveRows(rows)
      <4>1. k \in 1 .. Cardinality(LiveRows(rows))
        BY <1>2, <2>1
      <4> QED
        BY <1>2, <3>1, <4>1, KthType
    <3> QED
      BY <1>1, <2>1, <3>1, <3>2 DEF SortRows
  <2>2. CASE ~ (k <= Cardinality(LiveRows(rows)))
    <3>1. VacantRows(rows) # {}
      <4>1. VacantRows(rows) = {} => LiveRows(rows) = DOMAIN rows
        BY DEF VacantRows, LiveRows
      <4>2. Cardinality(DOMAIN rows) = Len(rows)
        BY RowsAreFinite
      <4> QED
        BY <1>2, <2>2, <4>1, <4>2
    <3>2. VacantRows(rows) \in SUBSET Nat
      BY <1>1 DEF VacantRows
    <3>3. Min(VacantRows(rows)) \in DOMAIN rows
      BY <3>1, <3>2, MinOfRows DEF VacantRows
    <3> QED
      BY <1>1, <2>2, <3>3 DEF SortRows, Row
  <2> QED
    BY <2>1, <2>2
<1>4. SortRows(rows) = [k \in 1 .. Len(rows) |-> SortRows(rows)[k]]
  BY <1>1 DEF SortRows
<1> QED
  BY <1>1, <1>3, <1>4

LEMMA CutType ==
  ASSUME NEW rows \in Seq(Row), NEW count \in 0 .. Len(rows)
  PROVE  SubSeq(rows, 1, count) \in [1 .. count -> Row]
<1>1. SubSeq(rows, 1, count) \in Seq(Row) /\ Len(SubSeq(rows, 1, count)) = count
  OBVIOUS
<1>2. \A s \in Seq(Row) : s \in [1 .. Len(s) -> Row]
  OBVIOUS
<1> QED
  BY <1>1, <1>2

(* Resizing makes a table of the size that is asked for. *)
LEMMA ResizeType ==
  ASSUME NEW rows \in Seq(Row), NEW count \in Nat
  PROVE  Resize(rows, count) \in [1 .. count -> Row]
<1>1. CASE count > Len(rows)
  BY <1>1 DEF Resize, Row
<1>2. CASE ~ (count > Len(rows))
  <2>1. count \in 0 .. Len(SortRows(rows)) /\ SortRows(rows) \in Seq(Row)
    BY <1>2, SortRowsType
  <2>2. SubSeq(SortRows(rows), 1, count) \in [1 .. count -> Row]
    BY <2>1, CutType
  <2> QED
    BY <1>2, <2>2 DEF Resize
<1> QED
  BY <1>1, <1>2
-----------------------------------------------------------------------------
(* What the sort makes of a table: the entries, then one kind of vacant    *)
(* rows, then the other, the kind of the first one.                        *)
LastKind(rows)  == rows[Min(VacantRows(rows))]
OtherKind(rows) == IF LastKind(rows) = Struck THEN Blank ELSE Struck
Ahead(rows)     == {r \in DOMAIN rows : rows[r] \in Info \cup {OtherKind(rows)}}
AheadLen(rows)  == Cardinality(Ahead(rows))

LEMMA SortRowsValues ==
  ASSUME NEW rows \in Seq(Row), NEW k \in 1 .. Len(rows)
  PROVE  SortRows(rows)[k] = IF k <= EntriesLen(rows) THEN rows[Kth(LiveRows(rows), k)]
                             ELSE IF k <= AheadLen(rows) THEN OtherKind(rows)
                             ELSE LastKind(rows)
<1>1. k \in DOMAIN rows
  OBVIOUS
<1> QED
  BY <1>1 DEF SortRows, LastKind, OtherKind, Ahead, AheadLen, EntriesLen

LEMMA AheadCount ==
  ASSUME NEW rows \in Seq(Row)
  PROVE  /\ IsFiniteSet(Ahead(rows))
         /\ AheadLen(rows) \in EntriesLen(rows) .. Len(rows)
         /\ EntriesLen(rows) \in 0 .. Len(rows)
         /\ VacantRows(rows) # {} => AheadLen(rows) < Len(rows)
         /\ VacantRows(rows) # {} => LastKind(rows) \in {Struck, Blank}
<1>1. /\ DOMAIN rows = 1 .. Len(rows) /\ Len(rows) \in Nat
      /\ IsFiniteSet(DOMAIN rows) /\ Cardinality(DOMAIN rows) = Len(rows)
  BY RowsAreFinite
<1>2. Ahead(rows) \in SUBSET DOMAIN rows /\ LiveRows(rows) \in SUBSET Ahead(rows)
  BY DEF Ahead, LiveRows
<1>3. /\ IsFiniteSet(Ahead(rows)) /\ AheadLen(rows) <= Len(rows)
      /\ AheadLen(rows) = Len(rows) => Ahead(rows) = DOMAIN rows
  BY <1>1, <1>2, FS_Subset DEF AheadLen
<1>4. EntriesLen(rows) <= AheadLen(rows)
  BY <1>2, <1>3, FS_Subset DEF AheadLen, EntriesLen
<1>5. EntriesLen(rows) \in 0 .. Len(rows) /\ AheadLen(rows) \in Nat
  BY <1>3, CountingRows, FS_CardinalityType DEF AheadLen
<1>6. ASSUME VacantRows(rows) # {}
      PROVE  LastKind(rows) \in {Struck, Blank} /\ AheadLen(rows) # Len(rows)
  <2>1. VacantRows(rows) \in SUBSET Nat
    BY <1>1 DEF VacantRows
  <2>2. Min(VacantRows(rows)) \in VacantRows(rows)
    BY <1>6, <2>1, MinOfRows
  <2>3. Min(VacantRows(rows)) \in DOMAIN rows /\ LastKind(rows) \notin Info /\ LastKind(rows) \in Row
    BY <2>2 DEF VacantRows, LiveRows, LastKind
  <2>4. LastKind(rows) \in {Struck, Blank}
    BY <2>3 DEF Row
  <2>5. LastKind(rows) # OtherKind(rows)
    BY <2>4, RowAssumption DEF OtherKind
  <2>6. Min(VacantRows(rows)) \notin Ahead(rows)
    BY <2>3, <2>5 DEF Ahead, LastKind
  <2> QED
    BY <1>3, <2>3, <2>4, <2>6
<1> QED
  BY <1>1, <1>3, <1>4, <1>5, <1>6

(* A row below the others has the highest rank, and leaves theirs alone.   *)
LEMMA KthOfOneMore ==
  ASSUME NEW N \in Nat, NEW S \in SUBSET (1 .. N), IsFiniteSet(S)
  PROVE  /\ IsFiniteSet(S \cup {N + 1})
         /\ Cardinality(S \cup {N + 1}) = Cardinality(S) + 1
         /\ \A k \in 1 .. Cardinality(S) : Kth(S \cup {N + 1}, k) = Kth(S, k)
         /\ Kth(S \cup {N + 1}, Cardinality(S) + 1) = N + 1
<1> DEFINE T == S \cup {N + 1}
<1>1. S \in SUBSET Nat /\ N + 1 \notin S /\ T \in SUBSET Nat /\ \A q \in S : q <= N
  OBVIOUS
<1>2. IsFiniteSet(T) /\ Cardinality(T) = Cardinality(S) + 1 /\ Cardinality(S) \in Nat
  BY <1>1, FS_AddElement, FS_CardinalityType
<1>3. ASSUME NEW k \in 1 .. Cardinality(S) PROVE Kth(T, k) = Kth(S, k)
  <2> DEFINE x == Kth(S, k)
  <2>1. x \in S /\ Cardinality({q \in S : q <= x}) = k
    BY <1>1, KthType
  <2> HIDE DEF x
  <2>2. x \in Nat /\ x <= N
    BY <1>1, <2>1
  <2>3. {q \in T : q <= x} = {q \in S : q <= x}
    BY <1>1, <2>2
  <2>4. x \in T
    BY <2>1
  <2>5. Kth(T, Cardinality({q \in T : q <= x})) = x
    BY <1>1, <1>2, <2>4, KthOfRank
  <2> QED
    BY <2>1, <2>3, <2>5 DEF x
<1>4. Kth(T, Cardinality(S) + 1) = N + 1
  <2>1. {q \in T : q <= N + 1} = T
    <3>1. \A q \in T : q <= N + 1
      BY <1>1
    <3> QED
      BY <3>1
  <2>2. N + 1 \in T
    OBVIOUS
  <2>3. Kth(T, Cardinality({q \in T : q <= N + 1})) = N + 1
    BY <1>1, <1>2, <2>2, KthOfRank
  <2> QED
    BY <1>2, <2>1, <2>3
<1> QED
  BY <1>2, <1>3, <1>4
-----------------------------------------------------------------------------
(* A sequence of rows behind another. *)
LEMMA RowsBehindRows ==
  ASSUME NEW s \in Seq(Row), NEW t \in Seq(Row)
  PROVE  /\ s \o t \in Seq(Row) /\ Len(s \o t) = Len(s) + Len(t)
         /\ \A k \in 1 .. Len(s) : (s \o t)[k] = s[k]
         /\ \A k \in 1 .. Len(t) : (s \o t)[Len(s) + k] = t[k]
OBVIOUS

(* A row that is inserted below the first p rows. *)
LEMMA InsertAtPlace ==
  ASSUME NEW s \in Seq(Row), NEW row \in Row, NEW p \in 0 .. Len(s)
  PROVE  /\ InsertAt(s, p + 1, row) \in Seq(Row)
         /\ Len(InsertAt(s, p + 1, row)) = Len(s) + 1
         /\ \A k \in 1 .. Len(s) + 1 :
              InsertAt(s, p + 1, row)[k] = IF k <= p THEN s[k] ELSE IF k = p + 1 THEN row ELSE s[k - 1]
<1> DEFINE above == SubSeq(s, 1, p)
           below == SubSeq(s, p + 1, Len(s))
           one   == <<row>>
           upper == above \o one
           all   == upper \o below
<1>1. Len(s) \in Nat /\ (p + 1) - 1 = p
  OBVIOUS
<1>2. above \in Seq(Row) /\ Len(above) = p /\ \A k \in 1 .. p : above[k] = s[k]
  BY <1>1
<1>3. /\ below \in Seq(Row) /\ Len(below) = Len(s) - p
      /\ \A k \in 1 .. Len(s) - p : below[k] = s[p + k]
  <2>1. below \in Seq(Row) /\ Len(below) = Len(s) - p
    BY <1>1
  <2>2. ASSUME NEW k \in 1 .. Len(s) - p PROVE below[k] = s[p + k]
    <3>1. below[k] = s[p + 1 + k - 1] /\ p + 1 + k - 1 = p + k
      BY <1>1
    <3> QED
      BY <3>1
  <2> QED
    BY <2>1, <2>2
<1>4. one \in Seq(Row) /\ Len(one) = 1 /\ one[1] = row
  OBVIOUS
<1>5. InsertAt(s, p + 1, row) = all
  <2>1. InsertAt(s, p + 1, row) = (SubSeq(s, 1, (p + 1) - 1) \o <<row>>) \o SubSeq(s, p + 1, Len(s))
    BY DEF InsertAt
  <2> QED
    BY <1>1, <2>1
<1> HIDE DEF above, below, one
<1>6. /\ upper \in Seq(Row) /\ Len(upper) = p + 1
      /\ \A k \in 1 .. p : upper[k] = above[k]
      /\ upper[p + 1] = row
  <2>1. /\ upper \in Seq(Row) /\ Len(upper) = Len(above) + Len(one)
        /\ \A k \in 1 .. Len(above) : upper[k] = above[k]
        /\ \A k \in 1 .. Len(one) : upper[Len(above) + k] = one[k]
    BY <1>2, <1>4, RowsBehindRows, Zenon
  <2> HIDE DEF upper
  <2>2. 1 \in 1 .. Len(one)
    BY <1>4
  <2> QED
    BY <1>2, <1>4, <2>1, <2>2
<1> HIDE DEF upper
<1>7. /\ all \in Seq(Row) /\ Len(all) = Len(s) + 1
      /\ \A k \in 1 .. p + 1 : all[k] = upper[k]
      /\ \A k \in 1 .. Len(s) - p : all[p + 1 + k] = below[k]
  <2>1. /\ all \in Seq(Row) /\ Len(all) = Len(upper) + Len(below)
        /\ \A k \in 1 .. Len(upper) : all[k] = upper[k]
        /\ \A k \in 1 .. Len(below) : all[Len(upper) + k] = below[k]
    BY <1>3, <1>6, RowsBehindRows, Zenon
  <2> HIDE DEF all
  <2> QED
    BY <1>1, <1>3, <1>6, <2>1
<1> HIDE DEF all
<1>8. ASSUME NEW k \in 1 .. Len(s) + 1
      PROVE  all[k] = IF k <= p THEN s[k] ELSE IF k = p + 1 THEN row ELSE s[k - 1]
  <2>1. CASE k <= p
    BY <1>1, <1>2, <1>6, <1>7, <2>1
  <2>2. CASE k = p + 1
    BY <1>1, <1>6, <1>7, <2>2
  <2>3. CASE k > p + 1
    <3>1. k - p - 1 \in 1 .. Len(s) - p /\ p + 1 + (k - p - 1) = k /\ p + (k - p - 1) = k - 1
      BY <1>1, <2>3
    <3>2. all[p + 1 + (k - p - 1)] = s[p + (k - p - 1)]
      BY <1>3, <1>7, <3>1
    <3> QED
      BY <1>1, <2>3, <3>1, <3>2
  <2> QED
    BY <1>1, <2>1, <2>2, <2>3
<1> QED
  BY <1>5, <1>7, <1>8

(* A table with one more row at its end. *)
LEMMA OneMoreRow ==
  ASSUME NEW t \in Seq(Row), NEW row \in Row
  PROVE  LET u == Append(t, row)
             N == Len(t)
         IN  /\ u \in Seq(Row) /\ Len(u) = N + 1 /\ u[N + 1] = row
             /\ \A k \in 1 .. N : u[k] = t[k]
             /\ LiveRows(t) \in SUBSET (1 .. N) /\ VacantRows(t) \in SUBSET (1 .. N)
             /\ LiveRows(u) = IF row \in Info THEN LiveRows(t) \cup {N + 1} ELSE LiveRows(t)
             /\ VacantRows(u) = IF row \in Info THEN VacantRows(t) ELSE VacantRows(t) \cup {N + 1}
<1> DEFINE u == Append(t, row)
           N == Len(t)
<1>1. /\ u \in Seq(Row) /\ Len(u) = N + 1 /\ u[N + 1] = row /\ N \in Nat
      /\ \A k \in 1 .. N : u[k] = t[k]
      /\ DOMAIN t = 1 .. N /\ DOMAIN u = 1 .. N + 1 /\ N + 1 \notin 1 .. N
  OBVIOUS
<1> HIDE DEF u, N
<1>2. 1 .. N + 1 = (1 .. N) \cup {N + 1}
  BY <1>1
<1>3. LiveRows(t) \in SUBSET (1 .. N) /\ VacantRows(t) \in SUBSET (1 .. N)
  BY <1>1 DEF LiveRows, VacantRows
<1>4. \A k : k \in LiveRows(u) <=> (k \in LiveRows(t) \/ (k = N + 1 /\ row \in Info))
  BY <1>1, <1>2 DEF LiveRows
<1>5. \A k : k \in VacantRows(u) <=> (k \in VacantRows(t) \/ (k = N + 1 /\ row \notin Info))
  BY <1>1, <1>2, <1>4 DEF VacantRows, LiveRows
<1>6. /\ LiveRows(u) = IF row \in Info THEN LiveRows(t) \cup {N + 1} ELSE LiveRows(t)
      /\ VacantRows(u) = IF row \in Info THEN VacantRows(t) ELSE VacantRows(t) \cup {N + 1}
  BY <1>4, <1>5
<1> QED
  BY <1>1, <1>3, <1>6 DEF u, N

(* A table and its first rows. *)
LEMMA OneRowLess ==
  ASSUME NEW t \in Seq(Row), NEW n \in 1 .. Len(t)
  PROVE  /\ SubSeq(t, 1, n - 1) \in Seq(Row) /\ t[n] \in Row
         /\ SubSeq(t, 1, n) = Append(SubSeq(t, 1, n - 1), t[n])
<1> DEFINE v == SubSeq(t, 1, n - 1)
           w == SubSeq(t, 1, n)
           x == Append(v, t[n])
<1>1. /\ v \in Seq(Row) /\ Len(v) = n - 1 /\ \A k \in 1 .. n - 1 : v[k] = t[k]
      /\ w \in Seq(Row) /\ Len(w) = n /\ \A k \in 1 .. n : w[k] = t[k]
      /\ t[n] \in Row /\ n \in Nat /\ n - 1 \in Nat /\ (n - 1) + 1 = n
  OBVIOUS
<1> HIDE DEF v, w
<1>2. x \in Seq(Row) /\ Len(x) = n /\ x[n] = t[n] /\ \A k \in 1 .. n - 1 : x[k] = v[k]
  BY <1>1
<1> HIDE DEF x
<1>3. \A k \in 1 .. n : w[k] = x[k]
  BY <1>1, <1>2
<1>4. w = x
  BY <1>1, <1>2, <1>3
<1> QED
  BY <1>1, <1>4 DEF v, w, x

(* The three parts of a sorted table. *)
LEMMA SortedParts ==
  ASSUME NEW t \in Seq(Row), NEW k \in 1 .. Len(t)
  PROVE  /\ k <= EntriesLen(t) => SortRows(t)[k] \in Info /\ Kth(LiveRows(t), k) \in LiveRows(t)
         /\ k > EntriesLen(t) /\ k <= AheadLen(t) => SortRows(t)[k] = OtherKind(t)
         /\ k > EntriesLen(t) /\ k > AheadLen(t) => SortRows(t)[k] = LastKind(t)
         /\ k > EntriesLen(t) => SortRows(t)[k] \in {Struck, Blank}
<1>1. EntriesLen(t) \in 0 .. Len(t) /\ AheadLen(t) \in EntriesLen(t) .. Len(t) /\ Len(t) \in Nat
  BY AheadCount
<1>2. CASE k <= EntriesLen(t)
  <2>1. LiveRows(t) \in SUBSET Nat /\ IsFiniteSet(LiveRows(t))
    BY CountingRows, SMTT(30) DEF LiveRows
  <2>2. k \in 1 .. Cardinality(LiveRows(t))
    BY <1>1, <1>2 DEF EntriesLen
  <2>3. Kth(LiveRows(t), k) \in LiveRows(t)
    BY <2>1, <2>2, KthType
  <2>4. SortRows(t)[k] = t[Kth(LiveRows(t), k)]
    BY <1>2, SortRowsValues
  <2>5. SortRows(t)[k] \in Info
    BY <2>3, <2>4 DEF LiveRows
  <2> QED
    BY <1>1, <1>2, <2>3, <2>5
<1>3. CASE k > EntriesLen(t)
  <2>1. VacantRows(t) # {}
    <3>1. VacantRows(t) = {} => LiveRows(t) = DOMAIN t
      BY DEF VacantRows, LiveRows
    <3>2. Cardinality(DOMAIN t) = Len(t)
      BY RowsAreFinite
    <3> QED
      BY <1>1, <1>3, <3>1, <3>2 DEF EntriesLen
  <2>2. SortRows(t)[k] = IF k <= AheadLen(t) THEN OtherKind(t) ELSE LastKind(t)
    BY <1>1, <1>3, SortRowsValues
  <2>3. LastKind(t) \in {Struck, Blank} /\ OtherKind(t) \in {Struck, Blank}
    BY <2>1, AheadCount DEF OtherKind
  <2> QED
    BY <1>1, <1>3, <2>2, <2>3
<1> QED
  BY <1>1, <1>2, <1>3

(* The counts and the kinds of a table with one more row. *)
LEMMA OneMoreEntry ==
  ASSUME NEW t \in Seq(Row), NEW row \in Info
  PROVE  LET u == Append(t, row)
             e == EntriesLen(t)
         IN  /\ EntriesLen(u) = e + 1
             /\ \A k \in 1 .. e : u[Kth(LiveRows(u), k)] = t[Kth(LiveRows(t), k)]
             /\ u[Kth(LiveRows(u), e + 1)] = row
             /\ VacantRows(t) # {} => /\ LastKind(u) = LastKind(t)
                                      /\ OtherKind(u) = OtherKind(t)
                                      /\ AheadLen(u) = AheadLen(t) + 1
<1> DEFINE u == Append(t, row)
           e == EntriesLen(t)
           N == Len(t)
<1>1. row \in Row
  BY DEF Row
<1>2. /\ u \in Seq(Row) /\ Len(u) = N + 1 /\ u[N + 1] = row /\ N \in Nat
      /\ \A k \in 1 .. N : u[k] = t[k]
      /\ LiveRows(t) \in SUBSET (1 .. N) /\ VacantRows(t) \in SUBSET (1 .. N)
      /\ LiveRows(u) = LiveRows(t) \cup {N + 1}
      /\ VacantRows(u) = VacantRows(t)
  BY <1>1, OneMoreRow
<1> HIDE DEF u
<1>3. IsFiniteSet(LiveRows(t)) /\ Cardinality(LiveRows(t)) = e /\ e \in 0 .. N
  BY CountingRows DEF EntriesLen
<1> HIDE DEF N, e
<1>4. /\ Cardinality(LiveRows(u)) = e + 1
      /\ \A k \in 1 .. e : Kth(LiveRows(u), k) = Kth(LiveRows(t), k)
      /\ Kth(LiveRows(u), e + 1) = N + 1
  BY <1>2, <1>3, KthOfOneMore
<1>5. EntriesLen(u) = e + 1
  BY <1>4 DEF EntriesLen
<1>6. ASSUME NEW k \in 1 .. e PROVE u[Kth(LiveRows(u), k)] = t[Kth(LiveRows(t), k)]
  <2>1. LiveRows(t) \in SUBSET Nat
    BY <1>2
  <2>2. Kth(LiveRows(t), k) \in 1 .. N
    BY <1>2, <1>3, <2>1, KthType
  <2> QED
    BY <1>2, <1>4, <2>2
<1>7. u[Kth(LiveRows(u), e + 1)] = row
  BY <1>2, <1>4
<1>8. ASSUME VacantRows(t) # {}
      PROVE  /\ LastKind(u) = LastKind(t)
             /\ OtherKind(u) = OtherKind(t)
             /\ AheadLen(u) = AheadLen(t) + 1
  <2>1. VacantRows(t) \in SUBSET Nat
    BY <1>2
  <2>2. Min(VacantRows(t)) \in 1 .. N
    BY <1>2, <1>8, <2>1, MinOfRows
  <2>3. LastKind(u) = LastKind(t)
    BY <1>2, <2>2 DEF LastKind
  <2>4. OtherKind(u) = OtherKind(t)
    BY <2>3 DEF OtherKind
  <2>5. DOMAIN t = 1 .. N /\ DOMAIN u = (1 .. N) \cup {N + 1} /\ N + 1 \notin 1 .. N
    BY <1>2 DEF N
  <2>6. Ahead(u) = Ahead(t) \cup {N + 1} /\ Ahead(t) \in SUBSET (1 .. N)
    BY <1>2, <2>4, <2>5 DEF Ahead
  <2>7. IsFiniteSet(Ahead(t))
    BY AheadCount
  <2>8. AheadLen(u) = AheadLen(t) + 1
    BY <1>2, <2>6, <2>7, KthOfOneMore DEF AheadLen
  <2> QED
    BY <2>3, <2>4, <2>8
<1> QED
  BY <1>5, <1>6, <1>7, <1>8 DEF u, e

LEMMA OneMoreVacantRow ==
  ASSUME NEW t \in Seq(Row), NEW row \in {Struck, Blank}
  PROVE  LET u == Append(t, row)
             e == EntriesLen(t)
         IN  /\ EntriesLen(u) = e
             /\ \A k \in 1 .. e : u[Kth(LiveRows(u), k)] = t[Kth(LiveRows(t), k)]
             /\ VacantRows(t) = {} =>
                  /\ LastKind(u) = row /\ AheadLen(u) = Len(t) /\ e = Len(t)
             /\ VacantRows(t) # {} =>
                  /\ LastKind(u) = LastKind(t)
                  /\ OtherKind(u) = OtherKind(t)
                  /\ row = LastKind(t) \/ row = OtherKind(t)
                  /\ LastKind(t) # OtherKind(t)
                  /\ AheadLen(u) = IF row = OtherKind(t) THEN AheadLen(t) + 1 ELSE AheadLen(t)
<1> DEFINE u == Append(t, row)
           e == EntriesLen(t)
           N == Len(t)
<1>1. row \in Row /\ row \notin Info
  BY RowAssumption DEF Row
<1>2. /\ u \in Seq(Row) /\ Len(u) = N + 1 /\ u[N + 1] = row /\ N \in Nat
      /\ \A k \in 1 .. N : u[k] = t[k]
      /\ LiveRows(t) \in SUBSET (1 .. N) /\ VacantRows(t) \in SUBSET (1 .. N)
      /\ LiveRows(u) = LiveRows(t)
      /\ VacantRows(u) = VacantRows(t) \cup {N + 1}
  BY <1>1, OneMoreRow
<1> HIDE DEF u
<1>3. IsFiniteSet(LiveRows(t)) /\ Cardinality(LiveRows(t)) = e /\ e \in 0 .. N
  BY CountingRows DEF EntriesLen
<1>4. DOMAIN t = 1 .. N /\ DOMAIN u = (1 .. N) \cup {N + 1} /\ N + 1 \notin 1 .. N
  BY <1>2
<1>5. VacantRows(t) = {} => e = N
  <2>1. VacantRows(t) = {} => LiveRows(t) = DOMAIN t
    BY DEF VacantRows, LiveRows
  <2>2. Cardinality(DOMAIN t) = N
    BY RowsAreFinite
  <2> QED
    BY <1>3, <2>1, <2>2
<1> HIDE DEF N, e
<1>6. EntriesLen(u) = e
  BY <1>2, <1>3 DEF EntriesLen
<1>7. ASSUME NEW k \in 1 .. e PROVE u[Kth(LiveRows(u), k)] = t[Kth(LiveRows(t), k)]
  <2>1. LiveRows(t) \in SUBSET Nat
    BY <1>2
  <2>2. Kth(LiveRows(t), k) \in 1 .. N
    BY <1>2, <1>3, <2>1, KthType
  <2> QED
    BY <1>2, <2>2
<1>8. VacantRows(u) # {} /\ VacantRows(u) \in SUBSET Nat
  BY <1>2
<1>9. ASSUME VacantRows(t) = {} PROVE LastKind(u) = row /\ AheadLen(u) = N
  <2>1. Min(VacantRows(u)) = N + 1
    BY <1>2, <1>8, <1>9, MinOfRows
  <2>2. LastKind(u) = row
    BY <1>2, <2>1 DEF LastKind
  <2>3. AheadLen(u) \in e .. N + 1 /\ AheadLen(u) < N + 1
    BY <1>2, <1>6, <1>8, AheadCount
  <2> QED
    BY <1>2, <1>3, <1>5, <1>9, <2>2, <2>3
<1>10. ASSUME VacantRows(t) # {}
       PROVE  /\ LastKind(u) = LastKind(t)
              /\ OtherKind(u) = OtherKind(t)
              /\ row = LastKind(t) \/ row = OtherKind(t)
              /\ LastKind(t) # OtherKind(t)
              /\ AheadLen(u) = IF row = OtherKind(t) THEN AheadLen(t) + 1 ELSE AheadLen(t)
  <2> DEFINE m == Min(VacantRows(t))
  <2>1. m \in VacantRows(t) /\ \A r \in VacantRows(t) : m <= r
    <3>1. VacantRows(t) \in SUBSET Nat
      BY <1>2
    <3> QED
      BY <1>10, <3>1, MinOfRows
  <2> HIDE DEF m
  <2>2. m \in 1 .. N
    BY <1>2, <2>1
  <2>3. Min(VacantRows(u)) = m
    <3> DEFINE n == Min(VacantRows(u))
    <3>1. n \in VacantRows(u) /\ \A r \in VacantRows(u) : n <= r
      BY <1>8, MinOfRows
    <3> HIDE DEF n
    <3>2. n \in Nat /\ n <= m
      BY <1>2, <1>8, <2>1, <3>1
    <3>3. n # N + 1
      BY <1>2, <2>2, <3>2
    <3>4. m <= n
      BY <1>2, <2>1, <3>1, <3>3
    <3> QED
      BY <2>2, <3>2, <3>4 DEF n
  <2>4. LastKind(u) = LastKind(t)
    BY <1>2, <2>2, <2>3 DEF LastKind, m
  <2>5. OtherKind(u) = OtherKind(t)
    BY <2>4 DEF OtherKind
  <2>6. LastKind(t) \in {Struck, Blank}
    BY <1>10, AheadCount
  <2>7. (row = LastKind(t) \/ row = OtherKind(t)) /\ LastKind(t) # OtherKind(t)
    BY <2>6, RowAssumption DEF OtherKind
  <2>8. IsFiniteSet(Ahead(t)) /\ Ahead(t) \in SUBSET (1 .. N)
    BY <1>4, AheadCount DEF Ahead
  <2>9. CASE row = OtherKind(t)
    <3>1. Ahead(u) = Ahead(t) \cup {N + 1}
      BY <1>2, <1>4, <2>5, <2>9 DEF Ahead
    <3>2. AheadLen(u) = AheadLen(t) + 1
      BY <1>2, <2>8, <3>1, KthOfOneMore DEF AheadLen
    <3> QED
      BY <2>4, <2>5, <2>7, <2>9, <3>2
  <2>10. CASE row # OtherKind(t)
    <3>1. Ahead(u) = Ahead(t)
      BY <1>1, <1>2, <1>4, <2>5, <2>10 DEF Ahead
    <3> QED
      BY <2>4, <2>5, <2>7, <2>10, <3>1 DEF AheadLen
  <2> QED
    BY <2>9, <2>10
<1> QED
  BY <1>5, <1>6, <1>7, <1>9, <1>10 DEF u, e, N

(* The rows that are left when a sorted table is cut: as many of its       *)
(* entries as fit, in their order.                                         *)
LEMMA CutKeepsEntries ==
  ASSUME NEW t \in Seq(Row), NEW count \in 0 .. Len(t)
  PROVE  LET cut  == SubSeq(SortRows(t), 1, count)
             left == IF EntriesLen(t) <= count THEN EntriesLen(t) ELSE count
         IN  /\ cut \in Seq(Row) /\ EntriesLen(cut) = left
             /\ \A k \in 1 .. left : cut[Kth(LiveRows(cut), k)] = t[Kth(LiveRows(t), k)]
<1> DEFINE s    == SortRows(t)
           cut  == SubSeq(s, 1, count)
           e    == EntriesLen(t)
           left == IF e <= count THEN e ELSE count
<1>1. e \in 0 .. Len(t) /\ Len(t) \in Nat /\ count \in Nat /\ count <= Len(t)
  BY AheadCount
<1>2. s \in Seq(Row) /\ Len(s) = Len(t)
  BY SortRowsType
<1>3. ASSUME NEW k \in 1 .. Len(t)
      PROVE  /\ k <= e => s[k] \in Info
             /\ k <= e => s[k] = t[Kth(LiveRows(t), k)]
             /\ k > e => s[k] \in {Struck, Blank}
  BY SortedParts, SortRowsValues
<1> HIDE DEF s, e
<1>4. cut \in Seq(Row) /\ Len(cut) = count /\ \A k \in 1 .. count : cut[k] = s[k]
  BY <1>1, <1>2
<1> HIDE DEF cut
<1>5. left \in Nat /\ left <= e /\ left <= count
  BY <1>1
<1>6. \A k \in 1 .. count : k \in 1 .. Len(t) /\ (k <= left <=> k <= e)
  BY <1>1
<1> HIDE DEF left
<1>7. LiveRows(cut) = 1 .. left
  <2>1. DOMAIN cut = 1 .. count
    BY <1>4
  <2>2. ASSUME NEW k \in 1 .. count PROVE cut[k] \in Info <=> k <= left
    <3>1. k \in 1 .. Len(t) /\ (k <= left <=> k <= e) /\ cut[k] = s[k]
      BY <1>4, <1>6
    <3>2. CASE k <= e
      BY <1>1, <1>3, <3>1, <3>2
    <3>3. CASE k > e
      <4>1. cut[k] \notin Info
        BY <1>1, <1>3, <3>1, <3>3, RowAssumption
      <4> QED
        BY <1>1, <3>1, <3>3, <4>1
    <3> QED
      BY <1>1, <3>2, <3>3
  <2>3. LiveRows(cut) = {k \in 1 .. count : k <= left}
    BY <2>1, <2>2 DEF LiveRows
  <2> QED
    BY <1>1, <1>5, <2>3
<1>8. IsFiniteSet(1 .. left) /\ Cardinality(1 .. left) = left
  BY <1>5, FS_Interval
<1>9. ASSUME NEW k \in 1 .. left PROVE Kth(1 .. left, k) = k
  <2>1. {q \in 1 .. left : q <= k} = 1 .. k
    BY <1>5
  <2>2. Cardinality(1 .. k) = k
    BY <1>5, FS_Interval
  <2>3. 1 .. left \in SUBSET Nat
    BY <1>5
  <2>4. Kth(1 .. left, Cardinality({q \in 1 .. left : q <= k})) = k
    BY <1>8, <2>3, KthOfRank
  <2> QED
    BY <2>1, <2>2, <2>4
<1>10. EntriesLen(cut) = left
  BY <1>7, <1>8 DEF EntriesLen
<1>11. ASSUME NEW k \in 1 .. left PROVE cut[Kth(LiveRows(cut), k)] = t[Kth(LiveRows(t), k)]
  <2>1. k \in 1 .. count /\ k <= e /\ k \in 1 .. Len(t)
    BY <1>1, <1>5
  <2>2. Kth(LiveRows(cut), k) = k
    BY <1>7, <1>9
  <2>3. cut[k] = s[k] /\ s[k] = t[Kth(LiveRows(t), k)]
    BY <1>1, <1>3, <1>4, <2>1
  <2> QED
    BY <2>2, <2>3
<1> QED
  BY <1>4, <1>10, <1>11 DEF cut, left, e, s
-----------------------------------------------------------------------------
(* Deleting keeps the size of the table, and moves items from the overflow *)
(* to the table or leaves them.                                            *)
LEMMA MarkType ==
  ASSUME NEW rows \in Seq(Row), NEW row \in Nat, NEW overflow \in Seq(Info)
  PROVE  /\ MarkRow(rows, row, overflow) \in Seq(Row)
         /\ Len(MarkRow(rows, row, overflow)) = Len(rows)
         /\ MarkOverflow(rows, row, overflow) \in Seq(Info)
<1>1. /\ MarkRow(rows, row, overflow) \in Seq(Row)
      /\ Len(MarkRow(rows, row, overflow)) = Len(rows)
  BY DEF MarkRow, LiveRows, Row, Last
<1>2. MarkOverflow(rows, row, overflow) \in Seq(Info)
  BY DEF MarkOverflow, Front
<1> QED
  BY <1>1, <1>2

LEMMA ClearType ==
  ASSUME NEW rows \in Seq(Row), NEW overflow \in Seq(Info)
  PROVE  /\ ClearRows(rows, overflow) \in Seq(Row)
         /\ Len(ClearRows(rows, overflow)) = Len(rows)
         /\ ClearOverflow(rows, overflow) \in Seq(Info)
<1>1. DOMAIN rows = 1 .. Len(rows) /\ Len(rows) \in Nat
  BY RowsAreFinite
<1>2. ASSUME NEW r \in 1 .. Len(rows)
      PROVE  (IF r <= Len(overflow) THEN overflow[Len(overflow) + 1 - r]
              ELSE IF rows[r] \in Info THEN Struck ELSE rows[r]) \in Row
  BY DEF Row
<1>3. /\ ClearRows(rows, overflow) \in Seq(Row)
      /\ Len(ClearRows(rows, overflow)) = Len(rows)
  BY <1>1, <1>2 DEF ClearRows
<1>4. ClearOverflow(rows, overflow) \in Seq(Info)
  BY DEF ClearOverflow
<1> QED
  BY <1>3, <1>4
=============================================================================
