----------------------------- MODULE FilteredProofs -----------------------------
(***************************************************************************)
(* A filtered list has the elements at the places that were kept, each one *)
(* where the number of places kept up to its own says.                     *)
(***************************************************************************)
EXTENDS Filtered, FiniteSetTheorems, WellFoundedInduction, TLAPS

\* A set of natural numbers that is not empty has a least one.
LEMMA LeastPlace ==
  ASSUME NEW T \in SUBSET Nat, T # {}
  PROVE  \E i \in T : \A j \in T : i <= j
<1>1. IsWellFoundedOn(OpToRel(<, Nat), Nat)
  BY NatLessThanWellFounded
<1>2. PICK i \in T : \A j \in T : ~(<<j, i>> \in OpToRel(<, Nat))
  BY <1>1, WFMin
<1>3. \A j \in T : ~(j < i)
  BY <1>2 DEF OpToRel
<1> QED
  BY <1>3

LEMMA RankSteps ==
  ASSUME NEW n \in Nat, NEW at \in SUBSET (1 .. n)
  PROVE  /\ \A i \in Int : IsFiniteSet({j \in at : j <= i}) /\ Rank(at, i) \in Nat
         /\ Rank(at, 0) = 0
         /\ Rank(at, n) = Cardinality(at)
         /\ \A i \in 1 .. n : Rank(at, i) = Rank(at, i - 1) + (IF i \in at THEN 1 ELSE 0)
         /\ \A i, k \in Int : i <= k => Rank(at, i) <= Rank(at, k)
<1>0. \A j \in at : j \in Int /\ 1 <= j /\ j <= n
  OBVIOUS
<1>1. IsFiniteSet(1 .. n)
  BY FS_Interval
<1>2. \A i \in Int : IsFiniteSet({j \in at : j <= i})
  BY <1>1, FS_Subset
<1>3. \A i \in Int : Rank(at, i) \in Nat
  BY <1>2, FS_CardinalityType DEF Rank
<1>4. Rank(at, 0) = 0
  <2>1. \A j \in at : ~(j <= 0)
    BY <1>0
  <2>2. {j \in at : j <= 0} = {}
    BY <2>1, Zenon
  <2> QED
    BY <2>2, FS_EmptySet DEF Rank
<1>5. Rank(at, n) = Cardinality(at)
  <2>1. {j \in at : j <= n} = at
    BY <1>0
  <2> QED
    BY <2>1 DEF Rank
<1>6. ASSUME NEW i \in 1 .. n
      PROVE  Rank(at, i) = Rank(at, i - 1) + (IF i \in at THEN 1 ELSE 0)
  <2> DEFINE before == {j \in at : j <= i - 1}
  <2>1. {j \in at : j <= i} = IF i \in at THEN before \cup {i} ELSE before
    <3>1. i \in Int /\ \A j \in at : j <= i <=> (j <= i - 1 \/ j = i)
      BY <1>0
    <3> QED
      BY <3>1
  <2>2. IsFiniteSet(before) /\ i \notin before
    <3>1. i - 1 \in Int /\ ~(i <= i - 1)
      OBVIOUS
    <3>2. IsFiniteSet({j \in at : j <= i - 1})
      BY <1>2, <3>1, Zenon
    <3>3. i \notin {j \in at : j <= i - 1}
      BY <3>1, Zenon
    <3> QED
      BY <3>2, <3>3
  <2>3. Cardinality(before \cup {i}) = Cardinality(before) + 1
    BY <2>2, FS_AddElement
  <2>4. Rank(at, i - 1) \in Nat
    BY <1>3
  <2> QED
    BY <2>1, <2>3, <2>4 DEF Rank
<1>7. ASSUME NEW i \in Int, NEW k \in Int, i <= k
      PROVE  Rank(at, i) <= Rank(at, k)
  <2>1. \A j \in at : j <= i => j <= k
    BY <1>0, <1>7
  <2>2. {j \in at : j <= i} \subseteq {j \in at : j <= k}
    BY <2>1, Zenon
  <2> QED
    BY <1>2, <2>2, FS_Subset DEF Rank
<1> QED
  BY <1>2, <1>3, <1>4, <1>5, <1>6, <1>7

\* Every rank is that of one place.
LEMMA RankPlaces ==
  ASSUME NEW n \in Nat, NEW at \in SUBSET (1 .. n)
  PROVE  /\ Cardinality(at) \in Nat
         /\ \A i \in at : Rank(at, i) \in 1 .. Cardinality(at)
         /\ \A i, j \in at : i < j => Rank(at, i) < Rank(at, j)
         /\ \A i, j \in at : Rank(at, i) = Rank(at, j) => i = j
         /\ \A k \in 1 .. Cardinality(at) : \E i \in at : Rank(at, i) = k
<1>1. /\ \A i \in Int : Rank(at, i) \in Nat
      /\ Rank(at, 0) = 0
      /\ Rank(at, n) = Cardinality(at)
      /\ \A i \in 1 .. n : Rank(at, i) = Rank(at, i - 1) + (IF i \in at THEN 1 ELSE 0)
      /\ \A i, k \in Int : i <= k => Rank(at, i) <= Rank(at, k)
  BY RankSteps
<1>2. Cardinality(at) \in Nat
  BY <1>1
<1>3. \A i \in at : Rank(at, i) \in 1 .. Cardinality(at)
  <2> SUFFICES ASSUME NEW i \in at
               PROVE  Rank(at, i) \in 1 .. Cardinality(at)
    OBVIOUS
  <2>1. i \in 1 .. n /\ i - 1 \in Int /\ i <= n
    OBVIOUS
  <2>2. Rank(at, i) = Rank(at, i - 1) + 1 /\ Rank(at, i - 1) \in Nat
    BY <1>1, <2>1
  <2>3. Rank(at, i) <= Rank(at, n)
    BY <1>1, <2>1
  <2> QED
    BY <1>1, <1>2, <2>2, <2>3
<1>4. ASSUME NEW i \in at, NEW j \in at, i < j
      PROVE  Rank(at, i) < Rank(at, j)
  <2>1. j \in 1 .. n /\ j - 1 \in Int /\ i \in Int /\ i <= j - 1
    BY <1>4
  <2>2. Rank(at, j) = Rank(at, j - 1) + 1
    BY <1>1, <2>1
  <2>3. Rank(at, i) <= Rank(at, j - 1)
    BY <1>1, <2>1
  <2>4. Rank(at, i) \in Nat /\ Rank(at, j - 1) \in Nat
    BY <1>1, <2>1
  <2> QED
    BY <2>2, <2>3, <2>4
<1>5. ASSUME NEW i \in at, NEW j \in at, Rank(at, i) = Rank(at, j)
      PROVE  i = j
  <2>1. ~(i < j) /\ ~(j < i)
    BY <1>1, <1>4, <1>5
  <2> QED
    BY <2>1
<1>6. ASSUME NEW k \in 1 .. Cardinality(at)
      PROVE  \E i \in at : Rank(at, i) = k
  <2> DEFINE U == {i \in 0 .. n : k <= Rank(at, i)}
  <2>1. n \in U
    BY <1>1
  <2>2. PICK i \in U : \A j \in U : i <= j
    <3> HIDE DEF U
    <3>1. U \in SUBSET Nat /\ U # {}
      BY <2>1 DEF U
    <3> QED
      BY <3>1, LeastPlace
  <2>3. i # 0
    BY <1>1, <2>2
  <2>4. i \in 1 .. n /\ i - 1 \in 0 .. n /\ i - 1 \notin U
    BY <2>2, <2>3
  <2>5. Rank(at, i - 1) < k /\ k <= Rank(at, i)
    BY <1>1, <2>2, <2>4
  <2>6. Rank(at, i - 1) \in Nat /\ Rank(at, i) = Rank(at, i - 1) + (IF i \in at THEN 1 ELSE 0)
    BY <1>1, <2>4
  <2>7. i \in at /\ Rank(at, i) = k
    BY <2>5, <2>6
  <2> QED
    BY <2>7
<1> QED
  BY <1>2, <1>3, <1>4, <1>5, <1>6

\* Places in a list of some length.
ArePlaces(at) == \E n \in Nat : at \in SUBSET (1 .. n)

\* What a filtered list holds, and where.
LEMMA FilteredIs ==
  ASSUME NEW at, ArePlaces(at), NEW s
  PROVE  /\ Cardinality(at) \in Nat
         /\ DOMAIN Filtered(s, at) = 1 .. Cardinality(at)
         /\ Len(Filtered(s, at)) = Cardinality(at)
         /\ \A i \in at : /\ Rank(at, i) \in 1 .. Cardinality(at)
                          /\ Filtered(s, at)[Rank(at, i)] = s[i]
         /\ \A k \in 1 .. Cardinality(at) :
              \E i \in at : Rank(at, i) = k /\ Filtered(s, at)[k] = s[i]
<1> DEFINE f == Filtered(s, at)
           place(k) == CHOOSE i \in at : Rank(at, i) = k
<1>0. PICK n \in Nat : at \in SUBSET (1 .. n)
  BY DEF ArePlaces
<1>1. /\ Cardinality(at) \in Nat
      /\ \A i \in at : Rank(at, i) \in 1 .. Cardinality(at)
      /\ \A i, j \in at : Rank(at, i) = Rank(at, j) => i = j
      /\ \A k \in 1 .. Cardinality(at) : \E i \in at : Rank(at, i) = k
  BY <1>0, RankPlaces
<1>2. \A k \in 1 .. Cardinality(at) : place(k) \in at /\ Rank(at, place(k)) = k
  BY <1>1
<1>3. /\ DOMAIN f = 1 .. Cardinality(at)
      /\ \A k \in 1 .. Cardinality(at) : f[k] = s[place(k)]
      /\ f = [k \in 1 .. Cardinality(at) |-> f[k]]
  BY DEF Filtered
<1> HIDE DEF f, place
<1>4. \A i \in at : f[Rank(at, i)] = s[i]
  <2> SUFFICES ASSUME NEW i \in at
               PROVE  f[Rank(at, i)] = s[i]
    OBVIOUS
  <2>1. place(Rank(at, i)) = i
    BY <1>1, <1>2
  <2> QED
    BY <1>1, <1>3, <2>1
<1>5. \A k \in 1 .. Cardinality(at) : \E i \in at : Rank(at, i) = k /\ f[k] = s[i]
  BY <1>2, <1>3
<1>6. Len(f) = Cardinality(at)
  BY <1>1, <1>3
<1> QED
  BY <1>1, <1>3, <1>4, <1>5, <1>6 DEF f

\* It is a list of what was at the places.
LEMMA FilteredIsSeq ==
  ASSUME NEW at, ArePlaces(at), NEW s, NEW S, \A i \in at : s[i] \in S
  PROVE  Filtered(s, at) \in Seq(S)
<1> DEFINE c == Cardinality(at)
           f == Filtered(s, at)
<1>1. /\ c \in Nat
      /\ \A k \in 1 .. c : \E i \in at : Rank(at, i) = k /\ f[k] = s[i]
  BY FilteredIs
<1>2. f = [k \in 1 .. c |-> f[k]]
  BY DEF Filtered
<1> HIDE DEF c, f
<1>3. f \in [1 .. c -> S]
  BY <1>1, <1>2
<1>4. f \in Seq(S)
  BY <1>1, <1>3
<1> QED
  BY <1>4 DEF f

\* The order of the places is kept.
LEMMA FilteredOrder ==
  ASSUME NEW at, ArePlaces(at)
  PROVE  /\ at \in SUBSET Int
         /\ \A i \in at : Rank(at, i) \in Nat
         /\ \A i, j \in at : i < j => Rank(at, i) < Rank(at, j)
         /\ \A i, j \in at : Rank(at, i) = Rank(at, j) => i = j
<1>1. PICK n \in Nat : at \in SUBSET (1 .. n)
  BY DEF ArePlaces
<1>2. /\ Cardinality(at) \in Nat
      /\ \A i \in at : Rank(at, i) \in 1 .. Cardinality(at)
      /\ \A i, j \in at : i < j => Rank(at, i) < Rank(at, j)
      /\ \A i, j \in at : Rank(at, i) = Rank(at, j) => i = j
  BY <1>1, RankPlaces
<1>3. at \in SUBSET Int
  BY <1>1
<1>4. \A i \in at : Rank(at, i) \in Nat
  BY <1>2
<1> QED
  BY <1>2, <1>3, <1>4

\* The last place has the greatest rank.
LEMMA LastPlace ==
  ASSUME NEW at, ArePlaces(at), at # {}
  PROVE  \E i \in at : \A k \in at : k <= i
<1>1. PICK n \in Nat : at \in SUBSET (1 .. n)
  BY DEF ArePlaces
<1>2. /\ Cardinality(at) \in Nat
      /\ \A i \in at : Rank(at, i) \in 1 .. Cardinality(at)
      /\ \A i, j \in at : i < j => Rank(at, i) < Rank(at, j)
      /\ \A k \in 1 .. Cardinality(at) : \E i \in at : Rank(at, i) = k
  BY <1>1, RankPlaces
<1>3. Cardinality(at) \in 1 .. Cardinality(at)
  BY <1>2
<1>4. PICK i \in at : Rank(at, i) = Cardinality(at)
  BY <1>2, <1>3
<1>5. ASSUME NEW k \in at
      PROVE  k <= i
  <2>1. ~(Rank(at, i) < Rank(at, k))
    BY <1>2, <1>4
  <2>2. ~(i < k) /\ i \in Int /\ k \in Int
    BY <1>1, <1>2, <2>1
  <2> QED
    BY <2>2
<1> QED
  BY <1>5

\* Of a list whose first places are kept, they are where they were.
LEMMA FilteredHead ==
  ASSUME NEW m \in Nat, NEW s
  PROVE  /\ Len(Filtered(s, 1 .. m)) = m /\ DOMAIN Filtered(s, 1 .. m) = 1 .. m
         /\ \A i \in 1 .. m : Filtered(s, 1 .. m)[i] = s[i]
<1> DEFINE at == 1 .. m
<1>1. ArePlaces(at)
  BY DEF ArePlaces
<1>4. Cardinality(at) = m
  BY FS_Interval
<1>2. \A i \in at : Rank(at, i) = i
  <2> SUFFICES ASSUME NEW i \in at
               PROVE  Rank(at, i) = i
    OBVIOUS
  <2>1. {j \in at : j <= i} = 1 .. i
    OBVIOUS
  <2>2. Cardinality(1 .. i) = i
    BY FS_Interval
  <2> QED
    BY <2>1, <2>2 DEF Rank
<1>3. /\ DOMAIN Filtered(s, at) = 1 .. Cardinality(at)
      /\ Len(Filtered(s, at)) = Cardinality(at)
      /\ \A i \in at : Filtered(s, at)[Rank(at, i)] = s[i]
  <2> HIDE DEF at
  <2> QED
    BY <1>1, FilteredIs
<1> QED
  BY <1>2, <1>3, <1>4

\* Where every place is kept the list is what it was.
LEMMA FilteredAll ==
  ASSUME NEW S, NEW s \in Seq(S)
  PROVE  Filtered(s, DOMAIN s) = s
<1>1. Len(s) \in Nat /\ DOMAIN s = 1 .. Len(s) /\ s = [i \in 1 .. Len(s) |-> s[i]]
  OBVIOUS
<1> DEFINE f == Filtered(s, 1 .. Len(s))
<1>2. DOMAIN f = 1 .. Len(s) /\ \A i \in 1 .. Len(s) : f[i] = s[i]
  BY <1>1, FilteredHead
<1>3. f = [i \in DOMAIN f |-> f[i]]
  BY DEF Filtered
<1> HIDE DEF f
<1>4. f = s
  BY <1>1, <1>2, <1>3
<1> QED
  BY <1>1, <1>4 DEF f

\* The ranks of places when a later one is added.
LEMMA RankLater ==
  ASSUME NEW n \in Nat, NEW at \in SUBSET (1 .. n)
  PROVE  /\ ArePlaces(at) /\ ArePlaces(at \cup {n + 1})
         /\ Cardinality(at) \in Nat
         /\ Cardinality(at \cup {n + 1}) = Cardinality(at) + 1
         /\ \A i \in at : Rank(at \cup {n + 1}, i) = Rank(at, i)
         /\ Rank(at \cup {n + 1}, n + 1) = Cardinality(at) + 1
<1> DEFINE more == at \cup {n + 1}
<1>1. ArePlaces(at)
  BY DEF ArePlaces
<1>2. more \in SUBSET (1 .. n + 1) /\ n + 1 \in Nat
  OBVIOUS
<1>3. ArePlaces(more)
  BY <1>2 DEF ArePlaces
<1>4. IsFiniteSet(at)
  <2>1. IsFiniteSet(1 .. n)
    BY FS_Interval
  <2> QED
    BY <2>1, FS_Subset
<1>5. n + 1 \notin at
  OBVIOUS
<1>6. Cardinality(at) \in Nat /\ Cardinality(more) = Cardinality(at) + 1
  BY <1>4, <1>5, FS_AddElement, FS_CardinalityType
<1>7. \A i \in at : Rank(more, i) = Rank(at, i)
  <2> SUFFICES ASSUME NEW i \in at
               PROVE  Rank(more, i) = Rank(at, i)
    OBVIOUS
  <2>1. \A j : j \in more /\ j <= i <=> j \in at /\ j <= i
    OBVIOUS
  <2> HIDE DEF more
  <2>2. {j \in more : j <= i} = {j \in at : j <= i}
    BY <2>1
  <2> QED
    BY <2>2 DEF Rank
<1>8. Rank(more, n + 1) = Cardinality(more)
  BY <1>2, RankSteps
<1> QED
  BY <1>1, <1>3, <1>6, <1>7, <1>8

\* A filtered list is known by what it has at the ranks.
LEMMA FilteredBy ==
  ASSUME NEW at, ArePlaces(at), NEW s, NEW S, NEW f \in Seq(S), Len(f) = Cardinality(at),
         \A i \in at : f[Rank(at, i)] = s[i]
  PROVE  f = Filtered(s, at)
<1> DEFINE g == Filtered(s, at)
<1>1. /\ DOMAIN g = 1 .. Cardinality(at)
      /\ \A k \in 1 .. Cardinality(at) : \E i \in at : Rank(at, i) = k /\ g[k] = s[i]
  BY FilteredIs
<1>2. g = [k \in DOMAIN g |-> g[k]]
  BY DEF Filtered
<1> HIDE DEF g
<1>3. \A k \in 1 .. Cardinality(at) : g[k] = f[k]
  BY <1>1
<1>0. DOMAIN f = 1 .. Cardinality(at) /\ f = [k \in 1 .. Cardinality(at) |-> f[k]]
  OBVIOUS
<1>4. f = g
  BY <1>0, <1>1, <1>2, <1>3
<1> QED
  BY <1>4 DEF g

LEMMA FilteredAppend ==
  ASSUME NEW S, NEW s \in Seq(S), NEW x \in S, NEW at \in SUBSET DOMAIN s
  PROVE  /\ Filtered(Append(s, x), at) = Filtered(s, at)
         /\ Filtered(Append(s, x), at \cup {Len(s) + 1}) = Append(Filtered(s, at), x)
<1> DEFINE n == Len(s)
           l == Append(s, x)
           f == Filtered(s, at)
           g == Append(f, x)
<1>1. /\ n \in Nat /\ at \in SUBSET (1 .. n)
      /\ \A i \in at : l[i] = s[i] /\ s[i] \in S
      /\ l[n + 1] = x
  OBVIOUS
<1> HIDE DEF l, n
<1>2. /\ ArePlaces(at) /\ ArePlaces(at \cup {n + 1})
      /\ Cardinality(at) \in Nat
      /\ Cardinality(at \cup {n + 1}) = Cardinality(at) + 1
      /\ \A i \in at : Rank(at \cup {n + 1}, i) = Rank(at, i)
      /\ Rank(at \cup {n + 1}, n + 1) = Cardinality(at) + 1
  BY <1>1, RankLater
<1>3. /\ f \in Seq(S) /\ Len(f) = Cardinality(at) /\ DOMAIN f = 1 .. Cardinality(at)
      /\ \A i \in at : Rank(at, i) \in DOMAIN f /\ f[Rank(at, i)] = s[i]
  BY <1>1, <1>2, FilteredIs, FilteredIsSeq
<1> HIDE DEF f
<1>5. f = Filtered(l, at)
  <2>1. \A i \in at : f[Rank(at, i)] = l[i]
    BY <1>1, <1>3
  <2> QED
    BY <1>2, <1>3, <2>1, FilteredBy
<1>6. g = Filtered(l, at \cup {n + 1})
  <2>1. /\ g \in Seq(S) /\ Len(g) = Cardinality(at) + 1
        /\ g[Cardinality(at) + 1] = x
        /\ \A k \in DOMAIN f : g[k] = f[k]
    BY <1>2, <1>3
  <2> HIDE DEF g
  <2>2. \A i \in at \cup {n + 1} : g[Rank(at \cup {n + 1}, i)] = l[i]
    <3>1. \A i \in at : g[Rank(at \cup {n + 1}, i)] = l[i]
      BY <1>1, <1>2, <1>3, <2>1
    <3>2. g[Rank(at \cup {n + 1}, n + 1)] = l[n + 1]
      BY <1>1, <1>2, <2>1
    <3> QED
      BY <3>1, <3>2
  <2> DEFINE more == at \cup {n + 1}
  <2>3. /\ ArePlaces(more) /\ Len(g) = Cardinality(more)
        /\ \A i \in more : g[Rank(more, i)] = l[i]
    BY <1>2, <2>1, <2>2
  <2> HIDE DEF more
  <2>4. g = Filtered(l, more)
    BY <2>1, <2>3, FilteredBy
  <2> QED
    BY <2>4 DEF more
<1> QED
  BY <1>5, <1>6 DEF f, g, l, n

-----------------------------------------------------------------------------
(* Walks: what a function on places computes, place by place.              *)

\* What holds of 0, and of a number when it does of the one before, holds of all.
LEMMA EveryPlace ==
  ASSUME NEW S, 0 \in S, \A n \in Nat : n \in S => n + 1 \in S
  PROVE  Nat \subseteq S
<1> SUFFICES ASSUME NEW m \in Nat, m \notin S
             PROVE  FALSE
  OBVIOUS
<1> DEFINE T == Nat \ S
<1>1. T \in SUBSET Nat /\ T # {}
  OBVIOUS
<1>2. PICK i \in T : \A j \in T : i <= j
  <2> HIDE DEF T
  <2> QED
    BY <1>1, LeastPlace
<1>3. i # 0 /\ i - 1 \in Nat /\ ~(i <= i - 1) /\ i = (i - 1) + 1
  BY <1>2
<1>4. i - 1 \in S
  BY <1>2, <1>3
<1> QED
  BY <1>2, <1>3, <1>4

\* What holds at the first place, and at a place when it does at the one before, holds at
\* every place.
LEMMA Along ==
  ASSUME NEW at, NEW S, NEW m \in Nat, at[0] \in S,
         \A n \in 1 .. m : at[n - 1] \in S => at[n] \in S
  PROVE  \A n \in 0 .. m : at[n] \in S
<1> DEFINE T == {n \in Nat : n <= m => at[n] \in S}
<1>1. 0 \in T
  OBVIOUS
<1>2. ASSUME NEW n \in Nat, n \in T PROVE n + 1 \in T
  <2> SUFFICES ASSUME n + 1 <= m
               PROVE  at[n + 1] \in S
    OBVIOUS
  <2>1. n + 1 \in 1 .. m /\ (n + 1) - 1 = n /\ n <= m
    OBVIOUS
  <2> QED
    BY <1>2, <2>1
<1>3. Nat \subseteq T
  <2> HIDE DEF T
  <2> QED
    BY <1>1, <1>2, EveryPlace
<1> QED
  BY <1>3

\* There is a walk of any length that starts here and goes on by these steps.
Steps(F, m, S) == \A n \in 1 .. m : \A s \in S : F[n][s] \in S
Walk(at, a, F, m, S) ==
  at \in [0 .. m -> S] /\ at[0] = a /\ \A n \in 1 .. m : at[n] = F[n][at[n - 1]]
LEMMA WalkIs ==
  ASSUME NEW S, NEW a \in S, NEW m \in Nat, NEW F, Steps(F, m, S)
  PROVE  \E at : Walk(at, a, F, m, S)
<1> DEFINE Is(at, k) == /\ at = [n \in 0 .. k |-> at[n]]
                        /\ at[0] = a /\ \A n \in 1 .. k : at[n] = F[n][at[n - 1]]
           T == {k \in Nat : \E at : Is(at, k)}
<1>1. 0 \in T
  <2> DEFINE at == [n \in 0 .. 0 |-> a]
  <2>1. Is(at, 0)
    OBVIOUS
  <2> QED
    BY <2>1
<1>2. ASSUME NEW k \in Nat, k \in T PROVE k + 1 \in T
  <2>1. PICK at : Is(at, k)
    BY <1>2
  <2> DEFINE more == [n \in 0 .. k + 1 |-> IF n = k + 1 THEN F[k + 1][at[k]] ELSE at[n]]
  <2>2. /\ more = [n \in 0 .. k + 1 |-> more[n]]
        /\ \A n \in 0 .. k : more[n] = at[n]
        /\ more[k + 1] = F[k + 1][at[k]]
    OBVIOUS
  <2> HIDE DEF more
  <2>3. at[0] = a /\ \A n \in 1 .. k : at[n] = F[n][at[n - 1]]
    BY <2>1
  <2>4. more[0] = a
    <3>1. 0 \in 0 .. k
      OBVIOUS
    <3> QED
      BY <2>2, <2>3, <3>1, Zenon
  <2>5. ASSUME NEW n \in 1 .. k + 1 PROVE more[n] = F[n][more[n - 1]]
    <3>1. n - 1 \in 0 .. k /\ ((n \in 1 .. k /\ n \in 0 .. k) \/ (n = k + 1 /\ n - 1 = k))
      OBVIOUS
    <3> QED
      BY <2>2, <2>3, <3>1, Zenon
  <2>6. Is(more, k + 1)
    BY <2>2, <2>4, <2>5, Zenon
  <2> HIDE DEF Is
  <2> QED
    BY <2>6
<1>3. m \in T
  <2> HIDE DEF T
  <2> QED
    BY <1>1, <1>2, EveryPlace
<1>4. PICK at : Is(at, m)
  BY <1>3
<1>5. \A n \in 0 .. m : at[n] \in S
  <2>1. at[0] \in S /\ \A n \in 1 .. m : at[n - 1] \in S => at[n] \in S
    BY <1>4 DEF Steps
  <2> QED
    BY <2>1, Along
<1>6. at \in [0 .. m -> S]
  BY <1>4, <1>5
<1> QED
  BY <1>4, <1>6 DEF Walk
=============================================================================
