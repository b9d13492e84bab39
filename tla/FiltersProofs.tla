---------------------------- MODULE FiltersProofs ----------------------------
(***************************************************************************)
(* Proofs about Filters, for texts of any length, and the induction, the   *)
(* recursive functions over numbers and the walks over sequences that they *)
(* and other proofs need.                                                  *)
(***************************************************************************)
EXTENDS Filters, FiniteSetTheorems, FunctionTheorems, TLAPS

(* A set of numbers has a least member; and so there is induction. *)
LEMMA LeastNumber ==
  ASSUME NEW S \in SUBSET Nat, S # {}
  PROVE  \E m \in S : \A r \in S : m <= r
<1> DEFINE Less == {p \in Nat \X Nat : p[1] < p[2]}
<1>1. OpToRel(<, Nat) = Less
  BY Zenon DEF OpToRel
<1>2. PICK m \in S : \A r \in S : <<r, m>> \notin Less
  BY <1>1, NatLessThanWellFounded, WFMin, Zenon
<1>3. ASSUME NEW r \in S PROVE m <= r
  <2>1. <<r, m>> \in Nat \X Nat /\ <<r, m>>[1] = r /\ <<r, m>>[2] = m
    OBVIOUS
  <2>2. <<r, m>> \notin Less
    BY <1>2
  <2>3. ~ (r < m)
    BY <2>1, <2>2
  <2> QED
    BY <2>3
<1> QED
  BY <1>3

LEMMA EveryNumber ==
  ASSUME NEW S \in SUBSET Nat, 0 \in S, \A n \in S : n + 1 \in S
  PROVE  \A n \in Nat : n \in S
<1>1. SUFFICES ASSUME Nat \ S # {} PROVE FALSE
  OBVIOUS
<1>2. PICK m \in Nat \ S : \A r \in Nat \ S : m <= r
  BY <1>1, LeastNumber
<1>3. m # 0 /\ m - 1 \in Nat /\ ~ (m <= m - 1)
  BY <1>2
<1>4. m - 1 \in S
  BY <1>2, <1>3
<1> QED
  BY <1>2, <1>3, <1>4

(* A function defined by recursion over the numbers is there, and has the  *)
(* values that its definition says.                                        *)
Prefix(f, n, X, base, step) ==
  /\ f \in [0 .. n -> X]
  /\ f[0] = base
  /\ \A k \in 0 .. n - 1 : f[k + 1] = step[k][f[k]]

LEMMA RecursionPrefixes ==
  ASSUME NEW X, NEW base \in X, NEW step \in [Nat -> [X -> X]]
  PROVE  \A n \in Nat : \E f : Prefix(f, n, X, base, step)
<1> DEFINE S == {n \in Nat : \E f : Prefix(f, n, X, base, step)}
<1>1. 0 \in S
  <2>1. Prefix([k \in 0 .. 0 |-> base], 0, X, base, step)
    BY DEF Prefix
  <2> QED
    BY <2>1
<1>2. ASSUME NEW n \in S PROVE n + 1 \in S
  <2>1. PICK f : Prefix(f, n, X, base, step)
    OBVIOUS
  <2> DEFINE g == [k \in 0 .. n + 1 |-> IF k <= n THEN f[k] ELSE step[n][f[n]]]
  <2>2. f[n] \in X /\ step[n][f[n]] \in X /\ n \in Nat
    BY <2>1 DEF Prefix
  <2>3. g \in [0 .. n + 1 -> X] /\ g[0] = base
    BY <2>1, <2>2 DEF Prefix
  <2>4. ASSUME NEW k \in 0 .. n PROVE g[k + 1] = step[k][g[k]]
    <3>1. CASE k = n
      BY <2>2, <3>1
    <3>2. CASE k < n
      <4>1. k \in 0 .. n - 1 /\ k + 1 \in 0 .. n
        BY <2>2, <3>2
      <4> QED
        BY <2>1, <4>1 DEF Prefix
    <3> QED
      BY <2>2, <3>1, <3>2
  <2> HIDE DEF g
  <2>5. 0 .. n + 1 - 1 = 0 .. n
    BY <2>2
  <2>6. Prefix(g, n + 1, X, base, step)
    BY <2>3, <2>4, <2>5 DEF Prefix
  <2> QED
    BY <2>2, <2>6
<1>3. S \in SUBSET Nat
  OBVIOUS
<1> HIDE DEF S
<1>4. \A n \in Nat : n \in S
  BY <1>1, <1>2, <1>3, EveryNumber
<1> QED
  BY <1>4 DEF S

LEMMA RecursionPrefixesAgree ==
  ASSUME NEW X, NEW base \in X, NEW step \in [Nat -> [X -> X]],
         NEW m \in Nat, NEW n \in Nat, m <= n, NEW f, NEW g,
         Prefix(f, m, X, base, step), Prefix(g, n, X, base, step)
  PROVE  \A k \in 0 .. m : f[k] = g[k]
<1> DEFINE S == {k \in Nat : k <= m => f[k] = g[k]}
<1>1. 0 \in S
  BY DEF Prefix
<1>2. ASSUME NEW k \in S PROVE k + 1 \in S
  BY DEF Prefix
<1>3. S \in SUBSET Nat
  OBVIOUS
<1> HIDE DEF S
<1>4. \A k \in Nat : k \in S
  BY <1>1, <1>2, <1>3, EveryNumber
<1> QED
  BY <1>4 DEF S

Recursive(f, X, base, step) ==
  /\ f \in [Nat -> X]
  /\ f[0] = base
  /\ \A n \in Nat : f[n + 1] = step[n][f[n]]

LEMMA Recursion ==
  ASSUME NEW X, NEW base \in X, NEW step \in [Nat -> [X -> X]]
  PROVE  \E f : Recursive(f, X, base, step)
<1> DEFINE g(n) == CHOOSE f : Prefix(f, n, X, base, step)
           f    == [n \in Nat |-> g(n)[n]]
<1>1. ASSUME NEW n \in Nat PROVE Prefix(g(n), n, X, base, step)
  BY RecursionPrefixes, Zenon
<1> HIDE DEF g
<1>2. f \in [Nat -> X]
  BY <1>1 DEF Prefix
<1>3. f[0] = base
  BY <1>1 DEF Prefix
<1>4. ASSUME NEW n \in Nat PROVE f[n + 1] = step[n][f[n]]
  <2>1. g(n + 1)[n + 1] = step[n][g(n + 1)[n]]
    BY <1>1 DEF Prefix
  <2>2. n + 1 \in Nat /\ n <= n + 1 /\ n \in 0 .. n
    OBVIOUS
  <2>3. Prefix(g(n), n, X, base, step) /\ Prefix(g(n + 1), n + 1, X, base, step)
    BY <1>1, <2>2
  <2>4. g(n)[n] = g(n + 1)[n]
    BY <2>2, <2>3, RecursionPrefixesAgree
  <2> QED
    BY <2>1, <2>4
<1> QED
  BY <1>2, <1>3, <1>4 DEF Recursive
-----------------------------------------------------------------------------
(* What a walk over a sequence keeps of it: the members in a set, in the   *)
(* order they had.                                                         *)
Sifted(kept, s, keep) ==
  /\ kept[0] = <<>>
  /\ \A n \in 1 .. Len(s) :
       kept[n] = IF s[n] \in keep THEN Append(kept[n - 1], s[n]) ELSE kept[n - 1]

LEMMA SiftedIsThere ==
  ASSUME NEW X, NEW s \in Seq(X), NEW keep
  PROVE  \E kept : Sifted(kept, s, keep)
<1> DEFINE S    == Seq(X)
           next == [n \in Nat |-> [x \in S |->
                     IF n + 1 \in 1 .. Len(s) /\ s[n + 1] \in keep THEN Append(x, s[n + 1]) ELSE x]]
<1>1. next \in [Nat -> [S -> S]]
  OBVIOUS
<1>2. <<>> \in S
  OBVIOUS
<1> HIDE DEF next, S
<1>3. PICK kept : Recursive(kept, S, <<>>, next)
  BY <1>1, <1>2, Recursion, Zenon
<1>4. ASSUME NEW n \in 1 .. Len(s)
      PROVE  kept[n] = IF s[n] \in keep THEN Append(kept[n - 1], s[n]) ELSE kept[n - 1]
  <2>1. n - 1 \in Nat /\ (n - 1) + 1 = n
    OBVIOUS
  <2>2. kept[n] = next[n - 1][kept[n - 1]] /\ kept[n - 1] \in S
    BY <1>3, <2>1 DEF Recursive
  <2> QED
    BY <2>1, <2>2 DEF next
<1> QED
  BY <1>3, <1>4 DEF Recursive, Sifted

(* What is kept of the first n members. *)
KeptOf(few, s, keep, X, n) ==
  /\ few \in Seq(X) /\ Len(few) <= n
  /\ \E at \in [1 .. Len(few) -> 1 .. n] :
       /\ \A j \in 1 .. Len(few) : s[at[j]] \in keep /\ few[j] = s[at[j]]
       /\ \A j, k \in 1 .. Len(few) : j < k => at[j] < at[k]

LEMMA SiftedMembers ==
  ASSUME NEW X, NEW s \in Seq(X), NEW keep, NEW kept, Sifted(kept, s, keep)
  PROVE  \A n \in 0 .. Len(s) : KeptOf(kept[n], s, keep, X, n)
<1> DEFINE N        == Len(s)
           Place(at, n) == /\ at \in [1 .. Len(kept[n]) -> 1 .. n]
                           /\ \A j \in 1 .. Len(kept[n]) : s[at[j]] \in keep /\ kept[n][j] = s[at[j]]
                           /\ \A j, k \in 1 .. Len(kept[n]) : j < k => at[j] < at[k]
           Good(n)  == kept[n] \in Seq(X) /\ Len(kept[n]) <= n /\ \E at : Place(at, n)
           S        == {n \in Nat : n <= N => Good(n)}
<1>1. N \in Nat
  OBVIOUS
<1> HIDE DEF Place, Good
<1>2. 0 \in S
  <2>1. kept[0] = <<>>
    BY DEF Sifted
  <2>2. kept[0] \in Seq(X) /\ Len(kept[0]) = 0
    BY <2>1
  <2>3. Place([j \in 1 .. 0 |-> 1], 0)
    BY <2>2 DEF Place
  <2>4. Good(0)
    BY <2>2, <2>3 DEF Good
  <2> QED
    BY <2>4
<1>3. ASSUME NEW n \in S PROVE n + 1 \in S
  <2>1. SUFFICES ASSUME n + 1 <= N PROVE Good(n + 1)
    OBVIOUS
  <2>2. n \in Nat /\ Good(n) /\ n + 1 \in 1 .. N /\ (n + 1) - 1 = n
    BY <1>1, <2>1
  <2>3. PICK at : Place(at, n)
    BY <2>2 DEF Good
  <2>4. kept[n] \in Seq(X) /\ Len(kept[n]) <= n
    BY <2>2 DEF Good
  <2>5. kept[n + 1] = IF s[n + 1] \in keep THEN Append(kept[n], s[n + 1]) ELSE kept[n]
    BY <2>2 DEF Sifted
  <2>6. CASE s[n + 1] \notin keep
    <3>1. kept[n + 1] = kept[n]
      BY <2>5, <2>6
    <3>2. Place(at, n + 1)
      BY <2>2, <2>3, <3>1 DEF Place
    <3>3. Len(kept[n + 1]) <= n + 1
      BY <2>2, <2>4, <3>1
    <3> QED
      BY <2>4, <3>1, <3>2, <3>3 DEF Good
  <2>7. CASE s[n + 1] \in keep
    <3> DEFINE m  == Len(kept[n])
               to == [j \in 1 .. m + 1 |-> IF j <= m THEN at[j] ELSE n + 1]
    <3>1. /\ kept[n + 1] \in Seq(X) /\ Len(kept[n + 1]) = m + 1 /\ m \in Nat
          /\ kept[n + 1][m + 1] = s[n + 1]
          /\ \A j \in 1 .. m : kept[n + 1][j] = kept[n][j]
      <4>1. kept[n + 1] = Append(kept[n], s[n + 1]) /\ s[n + 1] \in X
        BY <2>2, <2>5, <2>7
      <4> QED
        BY <2>4, <4>1
    <3>2. /\ at \in [1 .. m -> 1 .. n]
          /\ \A j \in 1 .. m : s[at[j]] \in keep /\ kept[n][j] = s[at[j]]
          /\ \A j, k \in 1 .. m : j < k => at[j] < at[k]
      BY <2>3 DEF Place
    <3> HIDE DEF m
    <3>3. to \in [1 .. m + 1 -> 1 .. n + 1]
      BY <2>2, <3>1, <3>2
    <3>4. ASSUME NEW j \in 1 .. m + 1
          PROVE  s[to[j]] \in keep /\ kept[n + 1][j] = s[to[j]]
      <4>1. CASE j <= m
        BY <3>1, <3>2, <4>1
      <4>2. CASE j = m + 1
        BY <2>7, <3>1, <4>2
      <4> QED
        BY <3>1, <4>1, <4>2
    <3>5. ASSUME NEW j \in 1 .. m + 1, NEW k \in 1 .. m + 1, j < k
          PROVE  to[j] < to[k]
      <4>1. j \in 1 .. m /\ to[j] = at[j]
        BY <3>1, <3>5
      <4>2. at[j] \in 1 .. n
        BY <3>2, <4>1
      <4>3. CASE k <= m
        BY <3>1, <3>2, <3>5, <4>1, <4>3
      <4>4. CASE k = m + 1
        BY <2>2, <3>1, <4>1, <4>2, <4>4
      <4> QED
        BY <3>1, <4>3, <4>4
    <3> HIDE DEF to
    <3>6. Place(to, n + 1)
      BY <3>1, <3>3, <3>4, <3>5 DEF Place
    <3>7. Len(kept[n + 1]) <= n + 1
      BY <2>2, <2>4, <3>1 DEF m
    <3> QED
      BY <3>1, <3>6, <3>7 DEF Good
  <2> QED
    BY <2>6, <2>7
<1>4. S \in SUBSET Nat
  OBVIOUS
<1> HIDE DEF S
<1>5. \A n \in Nat : n \in S
  BY <1>2, <1>3, <1>4, EveryNumber
<1>6. \A n \in 0 .. N : Good(n)
  BY <1>1, <1>5 DEF S
<1> QED
  BY <1>6 DEF Good, Place, KeptOf
-----------------------------------------------------------------------------
(* A word of a text is what stands at one of its places.                   *)
IsPlace(text, separators, i, j) ==
  /\ i \in 1 .. Len(text) /\ j \in 1 .. Len(text) /\ i <= j
  /\ \A k \in i .. j : text[k] \notin separators
  /\ i = 1 \/ text[i - 1] \in separators
  /\ j = Len(text) \/ text[j + 1] \in separators

LEMMA WordsAtPlaces ==
  ASSUME NEW text \in Text, NEW separators, NEW word
  PROVE  word \in Words(text, separators)
           <=> \E i, j \in 1 .. Len(text) :
                 IsPlace(text, separators, i, j) /\ word = SubSeq(text, i, j)
<1> DEFINE Within(i, j) == \A k \in i .. j : text[k] \notin separators
           Ends(i, j)   == /\ i = 1 \/ text[i - 1] \in separators
                           /\ j = Len(text) \/ text[j + 1] \in separators
           At(p)        == p[1] <= p[2] /\ Within(p[1], p[2]) /\ Ends(p[1], p[2])
           Places       == {p \in (DOMAIN text) \X (DOMAIN text) : At(p)}
<1>1. DOMAIN text = 1 .. Len(text)
  BY DEF Text
<1>2. Words(text, separators) = {SubSeq(text, p[1], p[2]) : p \in Places}
  BY DEF Words
<1>3. ASSUME NEW p \in Places
      PROVE  /\ p[1] \in 1 .. Len(text) /\ p[2] \in 1 .. Len(text)
             /\ IsPlace(text, separators, p[1], p[2])
  BY <1>1 DEF IsPlace
<1>4. ASSUME NEW i \in 1 .. Len(text), NEW j \in 1 .. Len(text), IsPlace(text, separators, i, j)
      PROVE  <<i, j>> \in Places /\ <<i, j>>[1] = i /\ <<i, j>>[2] = j
  BY <1>1, <1>4 DEF IsPlace
<1> HIDE DEF Places
<1>5. ASSUME word \in Words(text, separators)
      PROVE  \E i, j \in 1 .. Len(text) : IsPlace(text, separators, i, j) /\ word = SubSeq(text, i, j)
  <2>1. PICK p \in Places : word = SubSeq(text, p[1], p[2])
    BY <1>2, <1>5
  <2> QED
    BY <1>3, <2>1
<1>6. ASSUME NEW i \in 1 .. Len(text), NEW j \in 1 .. Len(text), IsPlace(text, separators, i, j)
      PROVE  SubSeq(text, i, j) \in Words(text, separators)
  <2>1. <<i, j>> \in Places /\ <<i, j>>[1] = i /\ <<i, j>>[2] = j
    BY <1>4, <1>6
  <2>2. SubSeq(text, <<i, j>>[1], <<i, j>>[2]) \in Words(text, separators)
    BY <1>2, <2>1
  <2> QED
    BY <2>1, <2>2
<1> QED
  BY <1>5, <1>6
-----------------------------------------------------------------------------
(* Lower keeps the length of a text and the places of its separators.      *)
LEMMA LowerType ==
  ASSUME NEW text \in Text
  PROVE  /\ Lower(text) \in Text
         /\ Len(Lower(text)) = Len(text)
         /\ \A k \in 1 .. Len(text), s \in Char \ Letter : Lower(text)[k] = s <=> text[k] = s
<1>1. /\ Lower(text) = [k \in 1 .. Len(text) |-> IF text[k] \in Letter THEN Lowercase(text[k]) ELSE text[k]]
      /\ Len(text) \in Nat
      /\ \A k \in 1 .. Len(text) : text[k] \in Char
  BY DEF Lower, Text
<1>2. \A c \in Letter : Lowercase(c) \in Letter
  BY FiltersAssumption
<1>3. \A c \in Letter : c \in Char
  BY DEF Char
<1>4. Lower(text) \in Text /\ Len(Lower(text)) = Len(text)
  BY <1>1, <1>2, <1>3 DEF Text
<1>5. ASSUME NEW k \in 1 .. Len(text), NEW s \in Char \ Letter
      PROVE  Lower(text)[k] = s <=> text[k] = s
  BY <1>1, <1>2
<1> QED
  BY <1>4, <1>5

LEMMA LowerTwice ==
  ASSUME NEW text \in Text
  PROVE  Lower(Lower(text)) = Lower(text)
<1>1. \A c \in Letter : Lowercase(c) \in Letter /\ Lowercase(Lowercase(c)) = Lowercase(c)
  BY FiltersAssumption
<1> QED
  BY <1>1 DEF Lower, Text

(* A part of a text, in lower case. *)
LEMMA LowerPart ==
  ASSUME NEW text \in Text, NEW i \in 1 .. Len(text), NEW j \in 1 .. Len(text), i <= j
  PROVE  /\ SubSeq(text, i, j) \in Text
         /\ Lower(SubSeq(text, i, j)) = SubSeq(Lower(text), i, j)
<1>1. Len(text) \in Nat /\ Lower(text) \in Text /\ Len(Lower(text)) = Len(text)
  BY LowerType DEF Text
<1>2. SubSeq(text, i, j) \in Text
  BY <1>1 DEF Text
<1>3. /\ Len(SubSeq(text, i, j)) = j - i + 1
      /\ \A k \in 1 .. j - i + 1 : SubSeq(text, i, j)[k] = text[i + k - 1]
  BY <1>1 DEF Text
<1>4. /\ Len(SubSeq(Lower(text), i, j)) = j - i + 1
      /\ \A k \in 1 .. j - i + 1 : SubSeq(Lower(text), i, j)[k] = Lower(text)[i + k - 1]
  BY <1>1 DEF Text
<1>5. /\ Lower(SubSeq(text, i, j)) \in Text /\ Len(Lower(SubSeq(text, i, j))) = j - i + 1
      /\ SubSeq(Lower(text), i, j) \in Text
  <2>1. SubSeq(Lower(text), i, j) \in Text
    BY <1>1 DEF Text
  <2> QED
    BY <1>2, <1>3, <2>1, LowerType
<1>6. ASSUME NEW k \in 1 .. j - i + 1
      PROVE  Lower(SubSeq(text, i, j))[k] = SubSeq(Lower(text), i, j)[k]
  <2>1. i + k - 1 \in 1 .. Len(text)
    BY <1>1
  <2>2. k \in DOMAIN SubSeq(text, i, j) /\ i + k - 1 \in DOMAIN text
    BY <1>2, <1>3, <2>1 DEF Text
  <2> QED
    BY <1>3, <1>4, <2>2 DEF Lower
<1> QED
  BY <1>2, <1>4, <1>5, <1>6 DEF Text

(* The words of a text in lower case are its words in lower case. *)
LEMMA LowerPlaces ==
  ASSUME NEW text \in Text, NEW separators \in SUBSET (Char \ Letter),
         NEW i \in 1 .. Len(text), NEW j \in 1 .. Len(text)
  PROVE  IsPlace(Lower(text), separators, i, j) <=> IsPlace(text, separators, i, j)
<1>1. Len(Lower(text)) = Len(text) /\ Len(text) \in Nat
  BY LowerType DEF Text
<1>2. ASSUME NEW k \in 1 .. Len(text)
      PROVE  Lower(text)[k] \in separators <=> text[k] \in separators
  BY LowerType
<1>3. \A k \in i .. j : k \in 1 .. Len(text)
  BY <1>1
<1>4. i = 1 \/ i - 1 \in 1 .. Len(text)
  BY <1>1
<1>5. j = Len(text) \/ j + 1 \in 1 .. Len(text)
  BY <1>1
<1> QED
  BY <1>1, <1>2, <1>3, <1>4, <1>5 DEF IsPlace

LEMMA LowerWords ==
  ASSUME NEW text \in Text, NEW separators \in SUBSET (Char \ Letter)
  PROVE  {Lower(word) : word \in Words(text, separators)} = Words(Lower(text), separators)
<1>1. Lower(text) \in Text /\ Len(Lower(text)) = Len(text)
  BY LowerType
<1>2. ASSUME NEW word \in Words(text, separators)
      PROVE  Lower(word) \in Words(Lower(text), separators)
  <2>1. PICK i, j \in 1 .. Len(text) : IsPlace(text, separators, i, j) /\ word = SubSeq(text, i, j)
    BY WordsAtPlaces
  <2>2. i <= j
    BY <2>1 DEF IsPlace
  <2>3. Lower(word) = SubSeq(Lower(text), i, j) /\ IsPlace(Lower(text), separators, i, j)
    BY <2>1, <2>2, LowerPart, LowerPlaces
  <2> QED
    BY <1>1, <2>3, WordsAtPlaces
<1>3. ASSUME NEW word \in Words(Lower(text), separators)
      PROVE  \E w \in Words(text, separators) : word = Lower(w)
  <2>1. PICK i, j \in 1 .. Len(text) : IsPlace(Lower(text), separators, i, j) /\ word = SubSeq(Lower(text), i, j)
    BY <1>1, WordsAtPlaces
  <2>2. IsPlace(text, separators, i, j)
    BY <2>1, LowerPlaces
  <2>3. i <= j
    BY <2>2 DEF IsPlace
  <2>4. Lower(SubSeq(text, i, j)) = word
    BY <2>1, <2>3, LowerPart
  <2>5. SubSeq(text, i, j) \in Words(text, separators)
    BY <2>2, WordsAtPlaces
  <2> QED
    BY <2>4, <2>5
<1> QED
  BY <1>2, <1>3

(* A word is a text that is not empty and has none of the separators. *)
LEMMA WordType ==
  ASSUME NEW text \in Text, NEW separators, NEW word \in Words(text, separators)
  PROVE  /\ word \in Text /\ word # <<>>
         /\ \A k \in 1 .. Len(word) : word[k] \notin separators
<1>1. PICK i, j \in 1 .. Len(text) : IsPlace(text, separators, i, j) /\ word = SubSeq(text, i, j)
  BY WordsAtPlaces
<1>2. i <= j /\ Len(text) \in Nat
  BY <1>1 DEF IsPlace, Text
<1>3. Len(word) = j - i + 1 /\ \A k \in 1 .. j - i + 1 : word[k] = text[i + k - 1]
  BY <1>1, <1>2 DEF Text
<1>4. \A k \in 1 .. j - i + 1 : i + k - 1 \in i .. j
  BY <1>2
<1>5. \A k \in 1 .. Len(word) : word[k] \notin separators
  BY <1>1, <1>3, <1>4 DEF IsPlace
<1>6. word \in Text
  BY <1>1, <1>2, LowerPart
<1>7. Len(word) # 0
  BY <1>2, <1>3
<1> QED
  BY <1>5, <1>6, <1>7

LEMMA NoWords ==
  ASSUME NEW separators
  PROVE  Words(<<>>, separators) = {}
<1>1. <<>> \in Text /\ Len(<<>>) = 0
  BY DEF Text
<1>2. ASSUME NEW word \in Words(<<>>, separators) PROVE FALSE
  BY <1>1, WordsAtPlaces
<1> QED
  BY <1>2

(* A text without separators is its only word. *)
LEMMA WordAlone ==
  ASSUME NEW separators, NEW word \in Text, word # <<>>,
         \A k \in 1 .. Len(word) : word[k] \notin separators
  PROVE  Words(word, separators) = {word}
<1>1. word \in Text /\ Len(word) \in Nat /\ Len(word) # 0
  BY DEF Text
<1>2. SubSeq(word, 1, Len(word)) = word
  BY <1>1 DEF Text
<1>3. IsPlace(word, separators, 1, Len(word))
  BY <1>1 DEF IsPlace
<1>4. ASSUME NEW i \in 1 .. Len(word), NEW j \in 1 .. Len(word), IsPlace(word, separators, i, j)
      PROVE  i = 1 /\ j = Len(word)
  <2>1. i # 1 => i - 1 \in 1 .. Len(word)
    BY <1>1
  <2>2. j # Len(word) => j + 1 \in 1 .. Len(word)
    BY <1>1
  <2> QED
    BY <1>4, <2>1, <2>2 DEF IsPlace
<1>5. 1 \in 1 .. Len(word) /\ Len(word) \in 1 .. Len(word)
  BY <1>1
<1>6. word \in Words(word, separators)
  BY <1>1, <1>2, <1>3, <1>5, WordsAtPlaces
<1>7. ASSUME NEW w \in Words(word, separators) PROVE w = word
  <2>1. PICK i, j \in 1 .. Len(word) : IsPlace(word, separators, i, j) /\ w = SubSeq(word, i, j)
    BY <1>1, WordsAtPlaces
  <2>2. i = 1 /\ j = Len(word)
    BY <1>4, <2>1
  <2> QED
    BY <1>2, <2>1, <2>2
<1> QED
  BY <1>6, <1>7

(* A stretch without separators is in a word. *)
LEMMA StretchInPlace ==
  ASSUME NEW text \in Text, NEW separators,
         NEW a \in 1 .. Len(text), NEW b \in 1 .. Len(text), a <= b,
         \A k \in a .. b : text[k] \notin separators
  PROVE  \E i, j \in 1 .. Len(text) : i <= a /\ b <= j /\ IsPlace(text, separators, i, j)
<1>1. Len(text) \in Nat
  BY DEF Text
<1>2. PICK j \in b .. Len(text) :
        /\ j = Len(text) \/ text[j + 1] \in separators
        /\ \A k \in b + 1 .. j : text[k] \notin separators
  <2> DEFINE E == {j \in b .. Len(text) : j = Len(text) \/ text[j + 1] \in separators}
  <2>1. Len(text) \in E /\ E \in SUBSET Nat
    BY <1>1
  <2>2. PICK j \in E : \A r \in E : ~ (r < j)
    <3> HIDE DEF E
    <3>1. \E j \in E : \A r \in E : j <= r
      BY <2>1, LeastNumber
    <3> QED
      BY <2>1, <3>1
  <2>3. ASSUME NEW k \in b + 1 .. j PROVE text[k] \notin separators
    <3>1. k - 1 \in b .. Len(text) /\ k - 1 < j /\ (k - 1) + 1 = k
      BY <1>1
    <3>2. k - 1 \notin E
      BY <2>2, <3>1
    <3> QED
      BY <3>1, <3>2
  <2> QED
    BY <2>2, <2>3
<1>3. PICK i \in 1 .. a :
        /\ i = 1 \/ text[i - 1] \in separators
        /\ \A k \in i .. a - 1 : text[k] \notin separators
  <2> DEFINE D == {d \in 0 .. a - 1 : a - d = 1 \/ text[a - d - 1] \in separators}
  <2>1. a - 1 \in D /\ D \in SUBSET Nat
    BY <1>1
  <2>2. PICK d \in D : \A r \in D : ~ (r < d)
    <3> HIDE DEF D
    <3>1. \E d \in D : \A r \in D : d <= r
      BY <2>1, LeastNumber
    <3> QED
      BY <2>1, <3>1
  <2>3. ASSUME NEW k \in a - d .. a - 1 PROVE text[k] \notin separators
    <3>1. a - k - 1 \in 0 .. a - 1 /\ a - k - 1 < d /\ a - (a - k - 1) - 1 = k
      BY <1>1
    <3>2. a - k - 1 \notin D
      BY <2>2, <3>1
    <3> QED
      BY <3>1, <3>2
  <2>4. a - d \in 1 .. a /\ (a - d = 1 \/ text[(a - d) - 1] \in separators)
    BY <1>1
  <2> QED
    BY <2>3, <2>4
<1>4. \A k \in i .. j : k \in i .. a - 1 \/ k \in a .. b \/ k \in b + 1 .. j
  BY <1>1
<1>5. i \in 1 .. Len(text) /\ j \in 1 .. Len(text) /\ i <= a /\ b <= j /\ i <= j
  BY <1>1
<1> QED
  BY <1>2, <1>3, <1>4, <1>5 DEF IsPlace

LEMMA PartOfPart ==
  ASSUME NEW text \in Text, NEW i \in 1 .. Len(text), NEW j \in 1 .. Len(text), i <= j
  PROVE  /\ SubSeq(text, i, j) \in Text /\ Len(SubSeq(text, i, j)) = j - i + 1
         /\ \A k \in 1 .. j - i + 1 : SubSeq(text, i, j)[k] = text[i + k - 1]
         /\ \A p, q \in 1 .. j - i + 1 :
              p <= q => SubSeq(SubSeq(text, i, j), p, q) = SubSeq(text, i + p - 1, i + q - 1)
<1> DEFINE part == SubSeq(text, i, j)
<1>1. Len(text) \in Nat
  BY DEF Text
<1>2. /\ part \in Seq(Char) /\ Len(part) = j - i + 1
      /\ \A k \in 1 .. j - i + 1 : part[k] = text[i + k - 1]
  BY <1>1 DEF Text
<1> HIDE DEF part
<1>3. ASSUME NEW p \in 1 .. j - i + 1, NEW q \in 1 .. j - i + 1, p <= q
      PROVE  SubSeq(part, p, q) = SubSeq(text, i + p - 1, i + q - 1)
  <2>1. i + p - 1 \in 1 .. Len(text) /\ i + q - 1 \in 1 .. Len(text) /\ i + q - 1 - (i + p - 1) + 1 = q - p + 1
    BY <1>1
  <2>2. /\ SubSeq(part, p, q) \in Seq(Char) /\ Len(SubSeq(part, p, q)) = q - p + 1
        /\ \A k \in 1 .. q - p + 1 : SubSeq(part, p, q)[k] = part[p + k - 1]
    BY <1>1, <1>2, <1>3
  <2>3. /\ SubSeq(text, i + p - 1, i + q - 1) \in Seq(Char)
        /\ Len(SubSeq(text, i + p - 1, i + q - 1)) = q - p + 1
        /\ \A k \in 1 .. q - p + 1 : SubSeq(text, i + p - 1, i + q - 1)[k] = text[i + p - 1 + k - 1]
    BY <1>1, <1>3, <2>1 DEF Text
  <2>4. ASSUME NEW k \in 1 .. q - p + 1 PROVE part[p + k - 1] = text[i + p - 1 + k - 1]
    <3>1. p + k - 1 \in 1 .. j - i + 1 /\ i + (p + k - 1) - 1 = i + p - 1 + k - 1
      BY <1>1
    <3> QED
      BY <1>2, <3>1
  <2> DEFINE u == SubSeq(part, p, q)
             v == SubSeq(text, i + p - 1, i + q - 1)
  <2>5. u \in Seq(Char) /\ v \in Seq(Char) /\ Len(u) = Len(v)
    BY <2>2, <2>3
  <2>6. \A k \in 1 .. Len(u) : u[k] = v[k]
    BY <2>2, <2>3, <2>4
  <2> HIDE DEF u, v
  <2>7. u = v
    BY <2>5, <2>6
  <2> QED
    BY <2>7 DEF u, v
<1> QED
  BY <1>2, <1>3 DEF part, Text

(* Splitting the words again is splitting at either kind of separator.     *)
LEMMA SplitTwice ==
  ASSUME NEW text \in Text, NEW S, NEW T
  PROVE  UNION {Words(word, T) : word \in Words(text, S)} = Words(text, S \cup T)
<1>1. Len(text) \in Nat
  BY DEF Text
<1>2. ASSUME NEW word \in Words(text, S), NEW part \in Words(word, T)
      PROVE  part \in Words(text, S \cup T)
  <2>1. PICK i, j \in 1 .. Len(text) : IsPlace(text, S, i, j) /\ word = SubSeq(text, i, j)
    BY WordsAtPlaces
  <2>2. /\ i <= j /\ word \in Text /\ Len(word) = j - i + 1
        /\ \A k \in 1 .. j - i + 1 : word[k] = text[i + k - 1]
    BY <2>1, PartOfPart DEF IsPlace
  <2>3. PICK p, q \in 1 .. j - i + 1 : IsPlace(word, T, p, q) /\ part = SubSeq(word, p, q)
    <3>1. \E p, q \in 1 .. Len(word) : IsPlace(word, T, p, q) /\ part = SubSeq(word, p, q)
      <4>1. word \in Text
        BY <2>2
      <4> QED
        BY <4>1, WordsAtPlaces
    <3> QED
      BY <2>2, <3>1
  <2> DEFINE a == i + p - 1
             b == i + q - 1
  <2>4. /\ p <= q /\ a \in 1 .. Len(text) /\ b \in 1 .. Len(text) /\ a <= b
        /\ i <= a /\ b <= j
    BY <1>1, <2>2, <2>3 DEF IsPlace
  <2>5. part = SubSeq(text, a, b)
    BY <2>1, <2>2, <2>3, <2>4, PartOfPart
  <2>6. ASSUME NEW k \in i .. j
        PROVE  k - i + 1 \in 1 .. j - i + 1 /\ text[k] = word[k - i + 1]
    <3>1. k - i + 1 \in 1 .. j - i + 1 /\ i + (k - i + 1) - 1 = k
      BY <1>1
    <3> QED
      BY <2>2, <3>1
  <2>7. ASSUME NEW k \in a .. b PROVE text[k] \notin S \cup T
    <3>1. k \in i .. j /\ k - i + 1 \in p .. q
      BY <1>1, <2>4
    <3> QED
      BY <2>1, <2>3, <2>6, <3>1 DEF IsPlace
  <2>8. a = 1 \/ text[a - 1] \in S \cup T
    <3>1. CASE p = 1
      BY <1>1, <2>1, <3>1 DEF IsPlace
    <3>2. CASE p # 1
      <4>1. a - 1 \in i .. j /\ (a - 1) - i + 1 = p - 1
        BY <1>1, <2>2, <3>2
      <4> QED
        BY <2>3, <2>6, <3>2, <4>1 DEF IsPlace
    <3> QED
      BY <3>1, <3>2
  <2>9. b = Len(text) \/ text[b + 1] \in S \cup T
    <3>1. CASE q = j - i + 1
      BY <1>1, <2>1, <3>1 DEF IsPlace
    <3>2. CASE q # j - i + 1
      <4>1. b + 1 \in i .. j /\ (b + 1) - i + 1 = q + 1
        BY <1>1, <2>2, <3>2
      <4> QED
        BY <2>2, <2>3, <2>6, <3>2, <4>1 DEF IsPlace
    <3> QED
      BY <3>1, <3>2
  <2>10. IsPlace(text, S \cup T, a, b)
    BY <2>4, <2>7, <2>8, <2>9 DEF IsPlace
  <2> QED
    BY <2>4, <2>5, <2>10, WordsAtPlaces
<1>3. ASSUME NEW part \in Words(text, S \cup T)
      PROVE  \E word \in Words(text, S) : part \in Words(word, T)
  <2>1. PICK a, b \in 1 .. Len(text) : IsPlace(text, S \cup T, a, b) /\ part = SubSeq(text, a, b)
    BY WordsAtPlaces
  <2>2. a <= b /\ \A k \in a .. b : text[k] \notin S /\ text[k] \notin T
    BY <2>1 DEF IsPlace
  <2>3. PICK i, j \in 1 .. Len(text) : i <= a /\ b <= j /\ IsPlace(text, S, i, j)
    BY <2>2, StretchInPlace
  <2> DEFINE word == SubSeq(text, i, j)
             p == a - i + 1
             q == b - i + 1
  <2>4. i <= j /\ p \in 1 .. j - i + 1 /\ q \in 1 .. j - i + 1 /\ p <= q /\ i + p - 1 = a /\ i + q - 1 = b
    BY <1>1, <2>2, <2>3
  <2>5. /\ word \in Text /\ Len(word) = j - i + 1
        /\ \A k \in 1 .. j - i + 1 : word[k] = text[i + k - 1]
        /\ SubSeq(word, p, q) = SubSeq(text, a, b)
    BY <2>4, PartOfPart
  <2>6. word \in Words(text, S)
    BY <2>3, WordsAtPlaces
  <2> HIDE DEF word
  <2>7. ASSUME NEW k \in p .. q PROVE word[k] \notin T
    <3>1. k \in 1 .. j - i + 1 /\ i + k - 1 \in a .. b
      BY <1>1, <2>4
    <3> QED
      BY <2>2, <2>5, <3>1
  <2>8. p = 1 \/ word[p - 1] \in T
    <3>1. SUFFICES ASSUME p # 1 PROVE word[p - 1] \in T
      OBVIOUS
    <3>2. p - 1 \in 1 .. j - i + 1 /\ i + (p - 1) - 1 = a - 1 /\ a - 1 \in i .. j /\ a # 1
      BY <1>1, <2>2, <2>3, <3>1, SMTT(30)
    <3>3. word[p - 1] = text[a - 1]
      BY <2>5, <3>2
    <3>4. text[a - 1] \in S \cup T /\ text[a - 1] \notin S
      BY <2>1, <2>3, <3>2 DEF IsPlace
    <3> QED
      BY <3>3, <3>4
  <2>9. q = j - i + 1 \/ word[q + 1] \in T
    <3>1. SUFFICES ASSUME q # j - i + 1 PROVE word[q + 1] \in T
      OBVIOUS
    <3>2. q + 1 \in 1 .. j - i + 1 /\ i + (q + 1) - 1 = b + 1 /\ b + 1 \in i .. j /\ b # Len(text)
      BY <1>1, <2>2, <2>3, <3>1
    <3>3. word[q + 1] = text[b + 1]
      BY <2>5, <3>2
    <3>4. text[b + 1] \in S \cup T /\ text[b + 1] \notin S
      BY <2>1, <2>3, <3>2 DEF IsPlace
    <3> QED
      BY <3>3, <3>4
  <2>10. IsPlace(word, T, p, q)
    BY <2>4, <2>5, <2>7, <2>8, <2>9 DEF IsPlace
  <2> HIDE DEF p, q
  <2>11. part \in Words(word, T)
    BY <2>1, <2>4, <2>5, <2>10, WordsAtPlaces
  <2> QED
    BY <2>6, <2>11
<1> QED
  BY <1>2, <1>3
-----------------------------------------------------------------------------
(* What a crate is compared by is the lower case of its texts, and nothing *)
(* else of them.                                                           *)
LowerAll(words) == {Lower(word) : word \in words}

LEMMA DescriptionWordsInLowerCase ==
  ASSUME NEW description \in Text
  PROVE  LowerAll(DescriptionWords(description)) = DescriptionWords(Lower(description))
<1> DEFINE whole == Words(description, {" "})
           lower == Words(Lower(description), {" "})
<1>1. {" "} \in SUBSET (Char \ Letter) /\ Dashes \in SUBSET (Char \ Letter)
  BY FiltersAssumption DEF Char, Dashes
<1>2. LowerAll(whole) = lower
  BY <1>1, LowerWords DEF LowerAll
<1>3. ASSUME NEW word \in whole PROVE LowerAll(Words(word, Dashes)) = Words(Lower(word), Dashes)
  BY <1>1, LowerWords, WordType DEF LowerAll
<1> HIDE DEF whole, lower
<1>4. LowerAll(UNION {Words(word, Dashes) : word \in whole}) = UNION {Words(word, Dashes) : word \in lower}
  <2>1. ASSUME NEW w \in LowerAll(UNION {Words(word, Dashes) : word \in whole})
        PROVE  w \in UNION {Words(word, Dashes) : word \in lower}
    <3>1. PICK word \in whole : \E part \in Words(word, Dashes) : w = Lower(part)
      BY DEF LowerAll
    <3>2. w \in LowerAll(Words(word, Dashes)) /\ Lower(word) \in lower
      BY <1>2, <3>1 DEF LowerAll
    <3> QED
      BY <1>3, <3>2
  <2>2. ASSUME NEW w \in UNION {Words(word, Dashes) : word \in lower}
        PROVE  w \in LowerAll(UNION {Words(word, Dashes) : word \in whole})
    <3>1. PICK word \in whole : w \in Words(Lower(word), Dashes)
      BY <1>2 DEF LowerAll
    <3>2. PICK part \in Words(word, Dashes) : w = Lower(part)
      BY <1>3, <3>1 DEF LowerAll
    <3> QED
      BY <3>2 DEF LowerAll
  <2> QED
    BY <2>1, <2>2
<1>5. DescriptionWords(description) = whole \cup UNION {Words(word, Dashes) : word \in whole}
  BY DEF DescriptionWords, whole
<1>6. DescriptionWords(Lower(description)) = lower \cup UNION {Words(word, Dashes) : word \in lower}
  BY DEF DescriptionWords, lower
<1>7. \A A, B : LowerAll(A \cup B) = LowerAll(A) \cup LowerAll(B)
  BY DEF LowerAll
<1> QED
  BY <1>2, <1>4, <1>5, <1>6, <1>7, ZenonT(40)

LEMMA CategoryWordsInLowerCase ==
  ASSUME NEW category \in Text
  PROVE  LowerAll(CategoryWords(category)) = CategoryWords(Lower(category))
<1>1. {"::"} \in SUBSET (Char \ Letter)
  BY FiltersAssumption DEF Char
<1>2. LowerAll(Words(category, {"::"})) = Words(Lower(category), {"::"})
  BY <1>1, LowerWords DEF LowerAll
<1>3. LowerAll({category} \cup Words(category, {"::"})) = {Lower(category)} \cup LowerAll(Words(category, {"::"}))
  BY DEF LowerAll
<1> QED
  BY <1>2, <1>3 DEF CategoryWords

(* The texts of a crate. *)
CrateTexts(info) ==
  /\ info.name \in Text /\ info.description \in Text
  /\ info.keywords \in SUBSET Text /\ info.categories \in SUBSET Text

LEMMA CandidatesInLowerCase ==
  ASSUME NEW info, CrateTexts(info)
  PROVE  LowerAll(Candidates(info))
           = NameWords(Lower(info.name)) \cup DescriptionWords(Lower(info.description))
               \cup LowerAll(info.keywords)
               \cup UNION {CategoryWords(category) : category \in LowerAll(info.categories)}
<1> DEFINE cats == info.categories
<1>1. LowerAll(NameWords(info.name)) = NameWords(Lower(info.name))
  <2>1. Dashes \in SUBSET (Char \ Letter)
    BY FiltersAssumption DEF Char, Dashes
  <2> QED
    BY <2>1, LowerWords DEF LowerAll, NameWords, CrateTexts
<1>2. LowerAll(DescriptionWords(info.description)) = DescriptionWords(Lower(info.description))
  BY DescriptionWordsInLowerCase DEF CrateTexts
<1>3. \A category \in cats : LowerAll(CategoryWords(category)) = CategoryWords(Lower(category))
  BY CategoryWordsInLowerCase DEF CrateTexts
<1>4. LowerAll(UNION {CategoryWords(category) : category \in cats})
        = UNION {CategoryWords(category) : category \in LowerAll(cats)}
  <2>1. ASSUME NEW w \in LowerAll(UNION {CategoryWords(category) : category \in cats})
        PROVE  w \in UNION {CategoryWords(category) : category \in LowerAll(cats)}
    <3>1. PICK category \in cats : \E part \in CategoryWords(category) : w = Lower(part)
      BY DEF LowerAll
    <3>2. w \in LowerAll(CategoryWords(category)) /\ Lower(category) \in LowerAll(cats)
      BY <3>1 DEF LowerAll
    <3> QED
      BY <1>3, <3>2
  <2>2. ASSUME NEW w \in UNION {CategoryWords(category) : category \in LowerAll(cats)}
        PROVE  w \in LowerAll(UNION {CategoryWords(category) : category \in cats})
    <3>1. PICK category \in cats : w \in CategoryWords(Lower(category))
      BY DEF LowerAll
    <3>2. PICK part \in CategoryWords(category) : w = Lower(part)
      BY <1>3, <3>1 DEF LowerAll
    <3> QED
      BY <3>2 DEF LowerAll
  <2> QED
    BY <2>1, <2>2
<1>5. \A A, B, C, D : LowerAll(A \cup B \cup C \cup D) = LowerAll(A) \cup LowerAll(B) \cup LowerAll(C) \cup LowerAll(D)
  BY DEF LowerAll
<1> DEFINE A == NameWords(info.name)
           B == DescriptionWords(info.description)
           D == UNION {CategoryWords(category) : category \in cats}
<1>6. Candidates(info) = A \cup B \cup info.keywords \cup D
  BY DEF Candidates
<1> HIDE DEF A, B, D
<1>7. LowerAll(Candidates(info)) = LowerAll(A) \cup LowerAll(B) \cup LowerAll(info.keywords) \cup LowerAll(D)
  BY <1>5, <1>6, SMTT(30)
<1> QED
  BY <1>1, <1>2, <1>4, <1>7 DEF A, B, D

LEMMA HasKeywordInLowerCase ==
  ASSUME NEW keywords, NEW info
  PROVE  HasKeyword(keywords, info) <=> LowerAll(Candidates(info)) \cap keywords # {}
BY DEF HasKeyword, LowerAll

LEMMA KeywordsInLowerCase ==
  ASSUME NEW text \in Text
  PROVE  KeywordsOf(text) = Words(Lower(text), {" ", ","})
<1>1. {" ", ","} \in SUBSET (Char \ Letter)
  BY FiltersAssumption DEF Char
<1> QED
  BY <1>1, LowerWords DEF KeywordsOf
-----------------------------------------------------------------------------
(* The texts of keywords mean those keywords.                              *)
(*                                                                         *)
(* A text is put together from its parts one after the other. *)
LEMMA FlattenSteps ==
  ASSUME NEW parts \in Seq(Text), Len(parts) # 0
  PROVE  \E f \in [1 .. Len(parts) -> Text] :
           /\ f[1] = parts[1]
           /\ \A i \in 1 .. Len(parts) - 1 : f[i + 1] = f[i] \o parts[i + 1]
           /\ FlattenSeq(parts) = f[Len(parts)]
<1> DEFINE N == Len(parts)
           Part(n) == IF n + 2 <= N THEN parts[n + 2] ELSE <<>>
           step == [n \in Nat |-> [x \in Text |-> x \o Part(n)]]
<1>1. N \in Nat /\ N >= 1 /\ parts[1] \in Text /\ \A i \in 1 .. N : parts[i] \in Text
  OBVIOUS
<1>2. \A x, y \in Text : x \o y \in Text
  BY DEF Text
<1>3. \A n \in Nat : Part(n) \in Text
  BY <1>1 DEF Text
<1> HIDE DEF N, Part
<1>4. step \in [Nat -> [Text -> Text]]
  BY <1>2, <1>3
<1> HIDE DEF step
<1>5. PICK g : Recursive(g, Text, parts[1], step)
  BY <1>1, <1>4, Recursion, Zenon
<1> DEFINE f == [i \in 1 .. N |-> g[i - 1]]
           Flat(h) == [i \in 1 .. N |-> IF i = 1 THEN parts[i] ELSE h[i - 1] \o parts[i]]
<1>6. f \in [1 .. N -> Text] /\ f[1] = parts[1]
  BY <1>1, <1>5 DEF Recursive
<1>7. ASSUME NEW i \in 1 .. N - 1 PROVE f[i + 1] = f[i] \o parts[i + 1]
  <2>1. /\ i \in Nat /\ i - 1 \in Nat /\ i + 1 \in 1 .. N /\ i \in 1 .. N
        /\ (i - 1) + 1 = i /\ (i - 1) + 2 = i + 1 /\ (i + 1) - 1 = i
    BY <1>1
  <2>2. f[i + 1] = g[i] /\ f[i] = g[i - 1] /\ g[i - 1] \in Text
    BY <1>5, <2>1 DEF Recursive
  <2>3. g[i] = step[i - 1][g[i - 1]]
    BY <1>5, <2>1 DEF Recursive
  <2>4. step[i - 1][g[i - 1]] = g[i - 1] \o Part(i - 1)
    BY <2>1, <2>2 DEF step
  <2>5. Part(i - 1) = parts[i + 1]
    BY <2>1 DEF Part
  <2> QED
    BY <2>2, <2>3, <2>4, <2>5
<1>8. f = Flat(f)
  <2>1. ASSUME NEW i \in 1 .. N PROVE f[i] = Flat(f)[i]
    <3>1. CASE i = 1
      BY <1>6, <3>1
    <3>2. CASE i # 1
      <4>1. i - 1 \in 1 .. N - 1 /\ (i - 1) + 1 = i
        BY <1>1, <3>2
      <4>2. f[i] = f[i - 1] \o parts[i]
        BY <1>7, <4>1
      <4>3. Flat(f)[i] = f[i - 1] \o parts[i]
        BY <3>2
      <4> QED
        BY <4>2, <4>3
    <3> QED
      BY <3>1, <3>2
  <2> QED
    BY <2>1
<1> DEFINE flatten == CHOOSE h : h = Flat(h)
<1>9. flatten = Flat(flatten)
  BY <1>8
<1>10. FlattenSeq(parts) = flatten[N]
  BY <1>1 DEF FlattenSeq, N
<1> HIDE DEF f, flatten
<1>11. \A n \in Nat : n + 1 <= N => flatten[n + 1] = f[n + 1]
  <2> DEFINE S == {n \in Nat : n + 1 <= N => flatten[n + 1] = f[n + 1]}
  <2>1. 0 \in S
    BY <1>1, <1>6, <1>9
  <2>2. ASSUME NEW n \in S PROVE n + 1 \in S
    <3>1. SUFFICES ASSUME n + 2 <= N PROVE flatten[n + 2] = f[n + 2]
      OBVIOUS
    <3>2. n + 2 \in 1 .. N /\ n + 2 # 1 /\ (n + 2) - 1 = n + 1 /\ n + 1 \in 1 .. N - 1 /\ (n + 1) + 1 = n + 2
      BY <1>1, <3>1
    <3>3. flatten[n + 2] = flatten[n + 1] \o parts[n + 2]
      BY <1>9, <3>2
    <3>4. f[n + 2] = f[n + 1] \o parts[n + 2]
      BY <1>7, <3>2
    <3>5. flatten[n + 1] = f[n + 1]
      BY <1>1, <3>1
    <3> QED
      BY <3>3, <3>4, <3>5
  <2>3. S \in SUBSET Nat
    OBVIOUS
  <2> HIDE DEF S
  <2>4. \A n \in Nat : n \in S
    BY <2>1, <2>2, <2>3, EveryNumber
  <2> QED
    BY <2>4 DEF S
<1>12. flatten[N] = f[N]
  <2>1. N - 1 \in Nat /\ (N - 1) + 1 = N /\ N <= N
    BY <1>1
  <2> QED
    BY <1>11, <2>1
<1> QED
  BY <1>1, <1>6, <1>7, <1>10, <1>12 DEF N

(* Keywords as they are kept: words in lower case. *)
KeywordSeparators == {" ", ","}

PlainWord(word) ==
  /\ word \in Text /\ word # <<>> /\ Lower(word) = word
  /\ \A k \in 1 .. Len(word) : word[k] \notin KeywordSeparators

LEMMA TextBehindText ==
  ASSUME NEW s \in Text, NEW t \in Text
  PROVE  /\ s \o t \in Text /\ Len(s \o t) = Len(s) + Len(t)
         /\ \A k \in 1 .. Len(s) : (s \o t)[k] = s[k]
         /\ \A k \in 1 .. Len(t) : (s \o t)[Len(s) + k] = t[k]
BY DEF Text

(* A word behind two separators is one more word. *)
LEMMA OneMoreWord ==
  ASSUME NEW text \in Text, NEW word, PlainWord(word),
         NEW sep \in Text, Len(sep) = 2, sep[1] \in KeywordSeparators, sep[2] \in KeywordSeparators
  PROVE  /\ text \o (sep \o word) \in Text
         /\ Words(text \o (sep \o word), KeywordSeparators)
              = Words(text, KeywordSeparators) \cup {word}
<1> DEFINE S    == KeywordSeparators
           m    == Len(text)
           n    == Len(word)
           more == sep \o word
           all  == text \o more
<1>1. word \in Text /\ n \in Nat /\ n >= 1 /\ m \in Nat
  BY DEF PlainWord, Text
<1>2. /\ more \in Text /\ Len(more) = Len(sep) + Len(word)
      /\ \A k \in 1 .. Len(sep) : more[k] = sep[k]
      /\ \A k \in 1 .. Len(word) : more[Len(sep) + k] = word[k]
  BY <1>1, TextBehindText, Zenon
<1> HIDE DEF more
<1>3. Len(more) = 2 + n
  BY <1>2
<1>4. /\ more[1] = sep[1] /\ more[2] = sep[2]
      /\ \A k \in 1 .. n : more[2 + k] = word[k]
  BY <1>2
<1>5. all \in Seq(Char) /\ Len(all) = m + 2 + n
  <2>1. all \in Text /\ Len(all) = Len(text) + Len(more)
    BY <1>2, TextBehindText, Zenon
  <2>2. Len(all) = m + 2 + n
    BY <1>1, <1>3, <2>1
  <2> QED
    BY <2>1, <2>2 DEF Text
<1>6. \A k \in 1 .. m : all[k] = text[k]
  BY <1>2, TextBehindText, Zenon
<1>7. \A k \in 1 .. 2 + n : all[m + k] = more[k]
  <2>1. \A k \in 1 .. Len(more) : all[Len(text) + k] = more[k]
    BY <1>2, TextBehindText, Zenon
  <2> QED
    BY <1>3, <2>1
<1> HIDE DEF all
<1>8. all[m + 1] \in S /\ all[m + 2] \in S
  <2>1. 1 \in 1 .. 2 + n /\ 2 \in 1 .. 2 + n
    BY <1>1
  <2> QED
    BY <1>4, <1>7, <2>1
<1>9. \A k \in 1 .. n : all[m + 2 + k] = word[k]
  <2>1. ASSUME NEW k \in 1 .. n PROVE all[m + 2 + k] = word[k]
    <3>1. 2 + k \in 1 .. 2 + n /\ m + (2 + k) = m + 2 + k
      BY <1>1
    <3> QED
      BY <1>4, <1>7, <3>1
  <2> QED
    BY <2>1
<1>10. \A k \in m + 3 .. m + 2 + n : all[k] \notin S
  <2>1. ASSUME NEW k \in m + 3 .. m + 2 + n PROVE all[k] \notin S
    <3>1. k - m - 2 \in 1 .. n /\ m + 2 + (k - m - 2) = k
      BY <1>1
    <3> QED
      BY <1>9, <3>1 DEF PlainWord
  <2> QED
    BY <2>1
<1>11. all \in Text
  BY <1>5 DEF Text
<1>12. SubSeq(all, m + 3, m + 2 + n) = word
  <2>1. /\ SubSeq(all, m + 3, m + 2 + n) \in Seq(Char)
        /\ Len(SubSeq(all, m + 3, m + 2 + n)) = n
        /\ \A k \in 1 .. n : SubSeq(all, m + 3, m + 2 + n)[k] = all[m + 3 + k - 1]
    BY <1>1, <1>5
  <2>2. \A k \in 1 .. n : m + 3 + k - 1 = m + 2 + k
    BY <1>1
  <2>3. \A k \in 1 .. n : SubSeq(all, m + 3, m + 2 + n)[k] = word[k]
    BY <1>9, <2>1, <2>2
  <2>4. word \in Seq(Char)
    BY <1>1 DEF Text
  <2> QED
    BY <2>1, <2>3, <2>4
<1>13. ASSUME NEW i \in 1 .. m, NEW j \in 1 .. m, i <= j
       PROVE  SubSeq(all, i, j) = SubSeq(text, i, j)
  <2>1. /\ SubSeq(all, i, j) \in Seq(Char) /\ SubSeq(text, i, j) \in Seq(Char)
        /\ Len(SubSeq(all, i, j)) = j - i + 1 /\ Len(SubSeq(text, i, j)) = j - i + 1
        /\ \A k \in 1 .. j - i + 1 : /\ SubSeq(all, i, j)[k] = all[i + k - 1]
                                     /\ SubSeq(text, i, j)[k] = text[i + k - 1]
    BY <1>1, <1>5, <1>13, SMTT(30) DEF Text
  <2>2. \A k \in 1 .. j - i + 1 : i + k - 1 \in 1 .. m
    BY <1>1
  <2> QED
    BY <1>6, <2>1, <2>2, SMTT(30)
<1>14. ASSUME NEW i \in 1 .. m, NEW j \in 1 .. m
       PROVE  IsPlace(all, S, i, j) <=> IsPlace(text, S, i, j)
  <2>1. i \in 1 .. Len(all) /\ j \in 1 .. Len(all) /\ j # Len(all)
    BY <1>1, <1>5
  <2>2. \A k \in i .. j : all[k] = text[k]
    BY <1>1, <1>6
  <2>3. i = 1 \/ all[i - 1] = text[i - 1]
    BY <1>1, <1>6
  <2>4. IF j = m THEN all[j + 1] \in S ELSE all[j + 1] = text[j + 1]
    BY <1>1, <1>6, <1>8
  <2> QED
    BY <2>1, <2>2, <2>3, <2>4 DEF IsPlace
<1>15. ASSUME NEW i \in 1 .. Len(all), NEW j \in 1 .. Len(all), IsPlace(all, S, i, j)
       PROVE  (i \in 1 .. m /\ j \in 1 .. m) \/ (i = m + 3 /\ j = m + 2 + n)
  <2>1. i <= j /\ m + 1 \notin i .. j /\ m + 2 \notin i .. j
    BY <1>8, <1>15 DEF IsPlace
  <2>2. CASE j <= m
    BY <1>1, <1>5, <2>1, <2>2
  <2>3. CASE i >= m + 3
    <3>1. i # m + 3 => i - 1 \in m + 3 .. m + 2 + n
      BY <1>1, <1>5, <2>3, SMTT(30)
    <3>2. j # m + 2 + n => j + 1 \in m + 3 .. m + 2 + n
      BY <1>1, <1>5, <2>1, <2>3, SMTT(30)
    <3>3. i # 1
      BY <1>1, <2>3
    <3> QED
      BY <1>5, <1>10, <1>15, <3>1, <3>2, <3>3 DEF IsPlace
  <2> QED
    BY <1>1, <1>5, <2>1, <2>2, <2>3
<1>16. IsPlace(all, S, m + 3, m + 2 + n)
  <2>1. m + 3 \in 1 .. Len(all) /\ m + 2 + n \in 1 .. Len(all) /\ m + 3 <= m + 2 + n /\ m + 3 - 1 = m + 2
    BY <1>1, <1>5
  <2> QED
    BY <1>5, <1>8, <1>10, <2>1 DEF IsPlace
<1>17. ASSUME NEW w \in Words(all, S) PROVE w \in Words(text, S) \cup {word}
  <2>1. PICK i, j \in 1 .. Len(all) : IsPlace(all, S, i, j) /\ w = SubSeq(all, i, j)
    BY <1>11, WordsAtPlaces
  <2>2. i <= j
    BY <2>1 DEF IsPlace
  <2>3. CASE i \in 1 .. m /\ j \in 1 .. m
    <3>1. IsPlace(text, S, i, j) /\ w = SubSeq(text, i, j)
      BY <1>13, <1>14, <2>1, <2>2, <2>3
    <3> QED
      BY <2>3, <3>1, WordsAtPlaces
  <2> QED
    BY <1>12, <1>15, <2>1, <2>3
<1>18. word \in Words(all, S)
  <2>1. m + 3 \in 1 .. Len(all) /\ m + 2 + n \in 1 .. Len(all)
    BY <1>1, <1>5
  <2> QED
    BY <1>11, <1>12, <1>16, <2>1, WordsAtPlaces
<1>19. ASSUME NEW w \in Words(text, S) PROVE w \in Words(all, S)
  <2>1. PICK i, j \in 1 .. m : IsPlace(text, S, i, j) /\ w = SubSeq(text, i, j)
    BY WordsAtPlaces
  <2>2. i <= j /\ i \in 1 .. Len(all) /\ j \in 1 .. Len(all)
    BY <1>1, <1>5, <2>1, SMTT(30) DEF IsPlace
  <2>3. IsPlace(all, S, i, j) /\ w = SubSeq(all, i, j)
    BY <1>13, <1>14, <2>1, <2>2
  <2> QED
    BY <1>11, <2>2, <2>3, WordsAtPlaces
<1> QED
  BY <1>11, <1>17, <1>18, <1>19 DEF all, more

(* Whatever their order, the joined words are the words of the text. *)
LEMMA JoinedWords ==
  ASSUME NEW K, \A word \in K : PlainWord(word),
         NEW N \in Nat, NEW words \in [1 .. N -> K]
  PROVE  /\ Join(words) \in Text
         /\ Words(Join(words), KeywordSeparators) = {words[k] : k \in 1 .. N}
<1> DEFINE sep   == <<",", " ">>
           parts == [k \in 1 .. N |-> IF k = 1 THEN words[k] ELSE sep \o words[k]]
           Upto(n) == {words[k] : k \in 1 .. n}
<1>1. sep \in Text /\ Len(sep) = 2 /\ sep[1] \in KeywordSeparators /\ sep[2] \in KeywordSeparators
  BY DEF Text, Char, KeywordSeparators
<1>2. Join(words) = FlattenSeq(parts)
  <2>1. DOMAIN words = 1 .. N
    OBVIOUS
  <2> QED
    BY <2>1 DEF Join
<1> HIDE DEF sep
<1>3. \A k \in 1 .. N : words[k] \in Text /\ PlainWord(words[k])
  BY DEF PlainWord
<1>4. \A k \in 1 .. N : sep \o words[k] \in Text
  BY <1>1, <1>3, TextBehindText, Zenon
<1>5. parts \in Seq(Text) /\ Len(parts) = N
  BY <1>3, <1>4
<1>6. CASE N = 0
  <2>1. parts = <<>>
    BY <1>5, <1>6
  <2>2. Join(words) = <<>>
    BY <1>2, <2>1 DEF FlattenSeq
  <2>3. Upto(N) = {} /\ <<>> \in Text
    BY <1>6 DEF Text
  <2> QED
    BY <2>2, <2>3, NoWords
<1>7. CASE N # 0
  <2>1. PICK f \in [1 .. N -> Text] :
          /\ f[1] = parts[1]
          /\ \A i \in 1 .. N - 1 : f[i + 1] = f[i] \o parts[i + 1]
          /\ FlattenSeq(parts) = f[N]
    <3>1. Len(parts) # 0
      BY <1>5, <1>7
    <3> QED
      BY <1>5, <3>1, FlattenSteps
  <2> DEFINE S == {n \in Nat : n + 1 <= N => Words(f[n + 1], KeywordSeparators) = Upto(n + 1)}
  <2>2. 0 \in S
    <3>1. 1 \in 1 .. N /\ f[1] = words[1]
      BY <1>7, <2>1
    <3>2. Words(words[1], KeywordSeparators) = {words[1]}
      BY <1>3, <3>1, WordAlone DEF PlainWord
    <3>3. Upto(0 + 1) = {words[1]}
      OBVIOUS
    <3> HIDE DEF Upto
    <3> QED
      BY <3>1, <3>2, <3>3
  <2>3. ASSUME NEW n \in S PROVE n + 1 \in S
    <3>1. SUFFICES ASSUME n + 2 <= N
                   PROVE  Words(f[n + 2], KeywordSeparators) = Upto(n + 2)
      OBVIOUS
    <3>2. /\ n + 1 \in 1 .. N - 1 /\ n + 1 \in 1 .. N /\ n + 2 \in 1 .. N /\ n + 2 # 1
          /\ n + 1 <= N /\ (n + 1) + 1 = n + 2 /\ n \in Nat
      BY <3>1
    <3>3. f[n + 2] = f[n + 1] \o (sep \o words[n + 2])
      BY <2>1, <3>2
    <3>4. Words(f[n + 1], KeywordSeparators) = Upto(n + 1)
      BY <3>2
    <3>5. f[n + 1] \in Text
      BY <2>1, <3>2
    <3>6. Words(f[n + 2], KeywordSeparators) = Words(f[n + 1], KeywordSeparators) \cup {words[n + 2]}
      <4>1. PlainWord(words[n + 2])
        BY <1>3, <3>2
      <4>2. Words(f[n + 1] \o (sep \o words[n + 2]), KeywordSeparators)
              = Words(f[n + 1], KeywordSeparators) \cup {words[n + 2]}
        BY <1>1, <3>5, <4>1, OneMoreWord, Zenon
      <4> QED
        BY <3>3, <4>2
    <3>7. Upto(n + 2) = Upto(n + 1) \cup {words[n + 2]}
      <4>1. 1 .. n + 2 = (1 .. n + 1) \cup {n + 2}
        BY <3>2
      <4> QED
        BY <4>1
    <3> HIDE DEF Upto
    <3> QED
      BY <3>4, <3>6, <3>7
  <2>4. S \in SUBSET Nat
    OBVIOUS
  <2> HIDE DEF S
  <2>5. \A n \in Nat : n \in S
    BY <2>2, <2>3, <2>4, EveryNumber
  <2>6. N - 1 \in Nat /\ (N - 1) + 1 = N /\ N <= N /\ N \in 1 .. N
    BY <1>7
  <2>7. Words(f[N], KeywordSeparators) = Upto(N)
    BY <2>5, <2>6 DEF S
  <2> QED
    BY <1>2, <2>1, <2>6, <2>7
<1> QED
  BY <1>6, <1>7

(* TextsOf and KeywordsOf undo each other, for any finite set of keywords. *)
LEMMA TextsOfMean ==
  ASSUME NEW K, IsFiniteSet(K), \A word \in K : PlainWord(word),
         NEW text \in TextsOf(K)
  PROVE  text \in Text /\ KeywordsOf(text) = K
<1> DEFINE N == Cardinality(K)
<1>1. N \in Nat
  BY FS_CardinalityType
<1>2. PICK words \in SetToSeqs(K) : text = Join(words)
  BY DEF TextsOf
<1>3. words \in [1 .. N -> K] /\ \A i, j \in 1 .. N : i # j => words[i] # words[j]
  BY <1>2 DEF SetToSeqs
<1>4. words \in Injection(1 .. N, K)
  BY <1>3, Fun_IsInj
<1>5. IsFiniteSet(1 .. N) /\ Cardinality(1 .. N) = N
  BY <1>1, FS_Interval
<1>6. words \in Surjection(1 .. N, K)
  BY <1>4, <1>5, FS_Injection
<1>7. {words[k] : k \in 1 .. N} = K
  <2>1. \A w \in K : \E k \in 1 .. N : words[k] = w
    BY <1>6 DEF Surjection
  <2> QED
    BY <1>3, <2>1
<1>8. text \in Text /\ Words(text, KeywordSeparators) = K
  BY <1>1, <1>2, <1>3, <1>7, JoinedWords
<1>9. {Lower(word) : word \in K} = K
  BY DEF PlainWord
<1> QED
  BY <1>8, <1>9 DEF KeywordsOf, KeywordSeparators

(* What a text means is finitely many such keywords. *)
LEMMA KeywordsArePlain ==
  ASSUME NEW text \in Text
  PROVE  IsFiniteSet(KeywordsOf(text)) /\ \A word \in KeywordsOf(text) : PlainWord(word)
<1>1. KeywordsOf(text) = Words(Lower(text), KeywordSeparators) /\ Lower(text) \in Text
  BY KeywordsInLowerCase, LowerType DEF KeywordSeparators
<1>2. ASSUME NEW word \in KeywordsOf(text) PROVE PlainWord(word)
  <2>1. /\ word \in Text /\ word # <<>>
        /\ \A k \in 1 .. Len(word) : word[k] \notin KeywordSeparators
    BY <1>1, WordType
  <2>2. PICK w \in Words(text, KeywordSeparators) : word = Lower(w)
    BY DEF KeywordsOf, KeywordSeparators
  <2>3. Lower(word) = word
    BY <2>2, WordType, LowerTwice
  <2> QED
    BY <2>1, <2>3 DEF PlainWord
<1>3. IsFiniteSet(KeywordsOf(text))
  <2> DEFINE low == Lower(text)
             D   == 1 .. Len(low)
             P   == {p \in D \X D : IsPlace(low, KeywordSeparators, p[1], p[2])}
             f   == [p \in P |-> SubSeq(low, p[1], p[2])]
  <2>1. low \in Text /\ Len(low) \in Nat
    BY <1>1 DEF Text
  <2>2. IsFiniteSet(D \X D)
    <3>1. IsFiniteSet(D)
      BY <2>1, FS_Interval
    <3> QED
      BY <3>1, FS_Product, Zenon
  <2>3. IsFiniteSet(P)
    BY <2>2, FS_Subset
  <2>4. f \in Surjection(P, Words(low, KeywordSeparators))
    <3>1. ASSUME NEW p \in P PROVE f[p] \in Words(low, KeywordSeparators)
      BY <2>1, WordsAtPlaces
    <3>2. ASSUME NEW w \in Words(low, KeywordSeparators) PROVE \E p \in P : f[p] = w
      <4>1. PICK i, j \in D : IsPlace(low, KeywordSeparators, i, j) /\ w = SubSeq(low, i, j)
        BY <2>1, WordsAtPlaces
      <4>2. <<i, j>> \in P /\ f[<<i, j>>] = w
        BY <4>1
      <4> QED
        BY <4>2
    <3> HIDE DEF P
    <3>3. f \in [P -> Words(low, KeywordSeparators)]
      BY <3>1
    <3> HIDE DEF f
    <3> QED
      BY <3>2, <3>3, Fun_IsSurj
  <2> HIDE DEF P, f, low
  <2>5. IsFiniteSet(Words(low, KeywordSeparators))
    BY <2>3, <2>4, FS_Surjection
  <2> QED
    BY <1>1, <2>5 DEF low
<1> QED
  BY <1>2, <1>3
=============================================================================
