--------------------------- MODULE AnalysisProofs ---------------------------
(***************************************************************************)
(* Proofs about Analysis and the two copies of the engines, for every      *)
(* form, every region, every set of rules and any model constants that     *)
(* ConstantsAssumption and DepositsAssumption allow.                       *)
(*                                                                         *)
(* First what the lists and sorts of both texts do, then the invariant of  *)
(* the endpoint and what it says of verdicts, then E1 to E4 of the server, *)
(* and last the browser's text, function by function, until both answers   *)
(* are the same.                                                           *)
(***************************************************************************)
EXTENDS Analysis, FiniteSetTheorems, TLAPS

-----------------------------------------------------------------------------
(***************************************************************************)
(* Positions.  The elements of a finite set under a strict total order     *)
(* have the ranks from 0, each just one.                                   *)
(***************************************************************************)
Below(D, R, i) == {j \in D : <<j, i>> \in R}

StrictOrder(D, R) ==
    /\ \A i \in D : <<i, i>> \notin R
    /\ \A i, j, k \in D : <<i, j>> \in R /\ <<j, k>> \in R => <<i, k>> \in R
    /\ \A i, j \in D : i # j => <<i, j>> \in R \/ <<j, i>> \in R

LEMMA Ranks ==
    ASSUME NEW D, IsFiniteSet(D), NEW R, StrictOrder(D, R)
    PROVE  /\ \A i \in D : Cardinality(Below(D, R, i)) \in 0 .. Cardinality(D) - 1
           /\ \A i, j \in D : <<i, j>> \in R =>
                Cardinality(Below(D, R, i)) < Cardinality(Below(D, R, j))
           /\ \A i, j \in D : Cardinality(Below(D, R, i)) = Cardinality(Below(D, R, j)) => i = j
           /\ \A k \in 1 .. Cardinality(D) : \E i \in D : Cardinality(Below(D, R, i)) = k - 1
<1> DEFINE rank(i) == Cardinality(Below(D, R, i))
           n == Cardinality(D)
<1>1. n \in Nat
  BY FS_CardinalityType
<1>2. \A i \in D : Below(D, R, i) \in SUBSET D /\ i \notin Below(D, R, i)
  BY DEF Below, StrictOrder
<1>3. \A i \in D : IsFiniteSet(Below(D, R, i)) /\ rank(i) \in Nat
  BY <1>2, FS_Subset, FS_CardinalityType
<1>4. ASSUME NEW i \in D, NEW S \in SUBSET D, IsFiniteSet(S), Below(D, R, i) \subseteq S, i \in S
      PROVE  rank(i) < Cardinality(S)
  <2>1. Below(D, R, i) \in SUBSET S /\ Below(D, R, i) # S
    BY <1>2, <1>4
  <2>2. rank(i) <= Cardinality(S) /\ rank(i) # Cardinality(S)
    BY <1>4, <2>1, FS_Subset
  <2>3. Cardinality(S) \in Nat
    BY <1>4, FS_CardinalityType
  <2> QED
    BY <1>3, <2>2, <2>3
<1>5. \A i \in D : rank(i) \in 0 .. n - 1
  <2> SUFFICES ASSUME NEW i \in D PROVE rank(i) \in 0 .. n - 1
    OBVIOUS
  <2>1. rank(i) < n
    BY <1>2, <1>4
  <2> QED
    BY <1>1, <1>3, <2>1
<1>6. \A i, j \in D : <<i, j>> \in R => rank(i) < rank(j)
  <2> SUFFICES ASSUME NEW i \in D, NEW j \in D, <<i, j>> \in R PROVE rank(i) < rank(j)
    OBVIOUS
  <2>1. Below(D, R, i) \subseteq Below(D, R, j) /\ i \in Below(D, R, j)
    BY DEF Below, StrictOrder
  <2>2. Below(D, R, j) \in SUBSET D /\ IsFiniteSet(Below(D, R, j))
    BY <1>2, <1>3
  <2> QED
    BY <1>4, <2>1, <2>2
<1>7. \A i, j \in D : rank(i) = rank(j) => i = j
  <2> SUFFICES ASSUME NEW i \in D, NEW j \in D, rank(i) = rank(j), i # j PROVE FALSE
    OBVIOUS
  <2>1. rank(i) < rank(j) \/ rank(j) < rank(i)
    BY <1>6 DEF StrictOrder
  <2> QED
    BY <1>3, <2>1
<1> DEFINE f == [i \in D |-> rank(i) + 1]
<1>8. f \in [D -> 1 .. n]
  BY <1>1, <1>5
<1>9. f \in Injection(D, 1 .. n)
  <2> SUFFICES ASSUME NEW i \in D, NEW j \in D, f[i] = f[j] PROVE i = j
    BY <1>8 DEF Injection, IsInjective
  <2>1. rank(i) = rank(j)
    BY <1>3
  <2> QED
    BY <1>7, <2>1
<1>10. IsFiniteSet(1 .. n) /\ Cardinality(1 .. n) = n
  BY <1>1, FS_Interval
<1>11. f \in Surjection(D, 1 .. n)
  BY <1>9, <1>10, FS_Injection
<1>12. \A k \in 1 .. n : \E i \in D : f[i] = k
  BY <1>11 DEF Surjection
<1>13. \A k \in 1 .. n : \E i \in D : rank(i) = k - 1
  <2> SUFFICES ASSUME NEW k \in 1 .. n PROVE \E i \in D : rank(i) = k - 1
    OBVIOUS
  <2>1. PICK i \in D : f[i] = k
    BY <1>12
  <2>2. rank(i) + 1 = k /\ rank(i) \in Nat
    BY <1>3, <2>1
  <2> QED
    BY <2>2
<1> QED
  BY <1>5, <1>6, <1>7, <1>13

(***************************************************************************)
(* Kept: its k-th element is the one of rank k - 1 among the positions.    *)
(***************************************************************************)
Less(D) == {p \in D \X D : p[1] < p[2]}

LEMMA LessOrder == ASSUME NEW D \in SUBSET Nat PROVE StrictOrder(D, Less(D))
  BY DEF StrictOrder, Less

Place(D) == [k \in 1 .. Cardinality(D) |-> CHOOSE i \in D : Cardinality(Before(D, i)) = k - 1]

LEMMA RanksOfPositions ==
    ASSUME NEW D, IsFiniteSet(D), StrictOrder(D, Less(D))
    PROVE  /\ \A i \in D : Cardinality(Before(D, i)) \in 0 .. Cardinality(D) - 1
           /\ \A i, j \in D : <<i, j>> \in Less(D) =>
                Cardinality(Before(D, i)) < Cardinality(Before(D, j))
           /\ \A i, j \in D : Cardinality(Before(D, i)) = Cardinality(Before(D, j)) => i = j
           /\ \A k \in 1 .. Cardinality(D) : \E i \in D : Cardinality(Before(D, i)) = k - 1
<1>1. \A i \in D : Before(D, i) = Below(D, Less(D), i)
  BY DEF Before, Below, Less
<1> DEFINE rank(i) == Cardinality(Below(D, Less(D), i))
           n == Cardinality(D)
<1>2. /\ \A i \in D : rank(i) \in 0 .. n - 1
      /\ \A i, j \in D : <<i, j>> \in Less(D) => rank(i) < rank(j)
      /\ \A i, j \in D : rank(i) = rank(j) => i = j
      /\ \A k \in 1 .. n : \E i \in D : rank(i) = k - 1
  BY Ranks
<1>3. \A i \in D : Cardinality(Before(D, i)) = rank(i)
  BY <1>1
<1> HIDE DEF rank, n
<1> QED
  BY <1>2, <1>3 DEF n

LEMMA Places ==
    ASSUME NEW D \in SUBSET Nat, IsFiniteSet(D)
    PROVE  /\ Cardinality(D) \in Nat
           /\ Place(D) \in [1 .. Cardinality(D) -> D]
           /\ \A i \in D : \E k \in 1 .. Cardinality(D) : Place(D)[k] = i
           /\ \A k, l \in 1 .. Cardinality(D) : k < l <=> Place(D)[k] < Place(D)[l]
<1> DEFINE rank(i) == Cardinality(Before(D, i))
           n == Cardinality(D)
<1>1. n \in Nat
  BY FS_CardinalityType
<1>2. StrictOrder(D, Less(D)) /\ \A i, j \in D : <<i, j>> \in Less(D) <=> i < j
  BY LessOrder DEF Less
<1>3. /\ \A i \in D : rank(i) \in 0 .. n - 1
      /\ \A i, j \in D : <<i, j>> \in Less(D) => rank(i) < rank(j)
      /\ \A i, j \in D : rank(i) = rank(j) => i = j
      /\ \A k \in 1 .. n : \E i \in D : rank(i) = k - 1
  BY <1>2, RanksOfPositions
<1>4. /\ \A i \in D : rank(i) \in 0 .. n - 1
      /\ \A i, j \in D : i < j => rank(i) < rank(j)
      /\ \A i, j \in D : rank(i) = rank(j) => i = j
      /\ \A k \in 1 .. n : \E i \in D : rank(i) = k - 1
  <2> HIDE DEF rank, n
  <2> QED
    BY <1>2, <1>3
<1> HIDE DEF rank, n
<1>5. \A k \in 1 .. n : Place(D)[k] \in D /\ rank(Place(D)[k]) = k - 1
  BY <1>4 DEF Place, rank, n
<1>6. Place(D) \in [1 .. n -> D]
  BY <1>5 DEF Place, n
<1>7. ASSUME NEW i \in D PROVE \E k \in 1 .. n : Place(D)[k] = i
  <2>1. rank(i) + 1 \in 1 .. n
    BY <1>1, <1>4
  <2>2. rank(Place(D)[rank(i) + 1]) = rank(i) /\ Place(D)[rank(i) + 1] \in D
    BY <1>4, <1>5, <2>1
  <2> QED
    BY <1>4, <2>1, <2>2
<1>8. ASSUME NEW k \in 1 .. n, NEW l \in 1 .. n PROVE k < l <=> Place(D)[k] < Place(D)[l]
  <2> DEFINE i == Place(D)[k]
             j == Place(D)[l]
  <2>1. i \in D /\ j \in D /\ rank(i) = k - 1 /\ rank(j) = l - 1 /\ i \in Nat /\ j \in Nat
    BY <1>5
  <2>2. k \in Nat /\ l \in Nat
    BY <1>1
  <2> HIDE DEF i, j
  <2>3. i < j => k < l
    BY <1>4, <2>1, <2>2
  <2>4. j < i => l < k
    BY <1>4, <2>1, <2>2
  <2>5. i = j => k = l
    BY <2>1, <2>2
  <2> QED
    BY <2>1, <2>2, <2>3, <2>4, <2>5 DEF i, j
<1> QED
  BY <1>1, <1>6, <1>7, <1>8 DEF n

LEMMA KeptFacts ==
    ASSUME NEW S, NEW s \in Seq(S), NEW D \in SUBSET DOMAIN s
    PROVE  /\ IsFiniteSet(D) /\ Cardinality(D) \in Nat
           /\ Kept(s, D) \in Seq(S) /\ DOMAIN Kept(s, D) = 1 .. Cardinality(D)
           /\ Len(Kept(s, D)) = Cardinality(D)
           /\ Place(D) \in [1 .. Cardinality(D) -> D]
           /\ \A k \in 1 .. Cardinality(D) : Kept(s, D)[k] = s[Place(D)[k]]
           /\ \A i \in D : \E k \in 1 .. Cardinality(D) : Place(D)[k] = i
           /\ \A k, l \in 1 .. Cardinality(D) : k < l <=> Place(D)[k] < Place(D)[l]
<1>1. DOMAIN s = 1 .. Len(s) /\ Len(s) \in Nat
  OBVIOUS
<1>2. IsFiniteSet(D) /\ D \in SUBSET Nat
  <2>1. IsFiniteSet(1 .. Len(s)) /\ D \in SUBSET (1 .. Len(s))
    BY <1>1, FS_Interval
  <2> QED
    BY <1>1, <2>1, FS_Subset
<1>3. Kept(s, D) = [k \in 1 .. Cardinality(D) |-> s[Place(D)[k]]]
  BY DEF Kept, Place
<1>4. Place(D) \in [1 .. Cardinality(D) -> D] /\ Cardinality(D) \in Nat
  BY <1>2, Places
<1>5. \A k \in 1 .. Cardinality(D) : s[Place(D)[k]] \in S
  BY <1>1, <1>4
<1>6. Kept(s, D) \in [1 .. Cardinality(D) -> S]
  BY <1>3, <1>5
<1>7. Kept(s, D) \in Seq(S) /\ Len(Kept(s, D)) = Cardinality(D)
  BY <1>4, <1>6
<1> QED
  BY <1>2, <1>3, <1>6, <1>7, Places

(***************************************************************************)
(* Sorting: what both stable sorts do, for the order R of the positions.   *)
(***************************************************************************)
Sorted(s, R) ==
    [k \in DOMAIN s |-> s[CHOOSE i \in DOMAIN s : Cardinality(Below(DOMAIN s, R, i)) = k - 1]]

LEMMA SortedFacts ==
    ASSUME NEW S, NEW s \in Seq(S), NEW R, StrictOrder(DOMAIN s, R)
    PROVE  /\ Sorted(s, R) \in Seq(S) /\ DOMAIN Sorted(s, R) = DOMAIN s /\ Len(Sorted(s, R)) = Len(s)
           /\ \A k \in DOMAIN s : \E i \in DOMAIN s : Sorted(s, R)[k] = s[i]
           /\ \A i \in DOMAIN s : \E k \in DOMAIN s : Sorted(s, R)[k] = s[i]
<1> DEFINE D == DOMAIN s
           rank(i) == Cardinality(Below(D, R, i))
           at(k) == CHOOSE i \in D : rank(i) = k - 1
<1>1. D = 1 .. Len(s) /\ Len(s) \in Nat /\ \A i \in D : s[i] \in S
  OBVIOUS
<1>2. IsFiniteSet(D) /\ Cardinality(D) = Len(s)
  BY <1>1, FS_Interval
<1>3. /\ \A i \in D : rank(i) \in 0 .. Len(s) - 1
      /\ \A i, j \in D : rank(i) = rank(j) => i = j
      /\ \A k \in 1 .. Len(s) : \E i \in D : rank(i) = k - 1
  BY <1>2, Ranks
<1> HIDE DEF rank
<1>4. \A k \in D : at(k) \in D /\ rank(at(k)) = k - 1
  BY <1>1, <1>3
<1>5. Sorted(s, R) = [k \in D |-> s[at(k)]]
  BY DEF Sorted, rank
<1>6. \A i \in D : rank(i) + 1 \in D /\ at(rank(i) + 1) = i
  <2> SUFFICES ASSUME NEW i \in D PROVE rank(i) + 1 \in D /\ at(rank(i) + 1) = i
    OBVIOUS
  <2>1. rank(i) + 1 \in D /\ rank(i) \in Nat
    BY <1>1, <1>3
  <2>2. at(rank(i) + 1) \in D /\ rank(at(rank(i) + 1)) = rank(i)
    BY <1>4, <2>1
  <2> HIDE DEF at
  <2> QED
    BY <1>3, <2>1, <2>2
<1> HIDE DEF at, D
<1>7. Sorted(s, R) \in [D -> S]
  BY <1>1, <1>4, <1>5
<1>8. Sorted(s, R) \in Seq(S) /\ Len(Sorted(s, R)) = Len(s)
  BY <1>1, <1>7
<1>9. \A k \in D : \E i \in D : Sorted(s, R)[k] = s[i]
  BY <1>4, <1>5
<1>10. \A i \in D : \E k \in D : Sorted(s, R)[k] = s[i]
  BY <1>5, <1>6
<1> QED
  BY <1>7, <1>8, <1>9, <1>10 DEF D

\* by a, then by b, then by position
Lex(D, a, b) ==
    {p \in D \X D : \/ a[p[1]] < a[p[2]]
                    \/ a[p[1]] = a[p[2]] /\ b[p[1]] < b[p[2]]
                    \/ a[p[1]] = a[p[2]] /\ b[p[1]] = b[p[2]] /\ p[1] < p[2]}

LEMMA LexOrderOf ==
    ASSUME NEW D, \A i \in D : i \in Int, NEW a, NEW b, \A i \in D : a[i] \in Int /\ b[i] \in Int
    PROVE  StrictOrder(D, Lex(D, a, b))
<1> DEFINE Ahead(i, j) == \/ a[i] < a[j]
                          \/ a[i] = a[j] /\ b[i] < b[j]
                          \/ a[i] = a[j] /\ b[i] = b[j] /\ i < j
<1>1. \A i, j \in D : <<i, j>> \in Lex(D, a, b) <=> Ahead(i, j)
  BY DEF Lex
<1>2. \A i \in D : ~Ahead(i, i)
  OBVIOUS
<1>3. \A i, j, k \in D : Ahead(i, j) /\ Ahead(j, k) => Ahead(i, k)
  OBVIOUS
<1>4. \A i, j \in D : i # j => Ahead(i, j) \/ Ahead(j, i)
  OBVIOUS
<1> HIDE DEF Ahead
<1> QED
  BY <1>1, <1>2, <1>3, <1>4 DEF StrictOrder

LEMMA LexOrder ==
    ASSUME NEW n \in Nat, NEW a \in [1 .. n -> Int], NEW b \in [1 .. n -> Int]
    PROVE  StrictOrder(1 .. n, Lex(1 .. n, a, b))
  BY LexOrderOf

\* t is s in the order R
InOrder(t, s, R) ==
    /\ DOMAIN t = DOMAIN s
    /\ \A k \in DOMAIN s : \E i \in DOMAIN s :
          t[k] = s[i] /\ Cardinality(Below(DOMAIN s, R, i)) = k - 1

LEMMA SamePlace ==
    ASSUME NEW S, NEW s \in Seq(S), NEW R, StrictOrder(DOMAIN s, R), NEW t, InOrder(t, s, R)
    PROVE  \A k \in DOMAIN s : t[k] = Sorted(s, R)[k]
<1> DEFINE D == DOMAIN s
           rank(i) == Cardinality(Below(D, R, i))
<1>1. D = 1 .. Len(s) /\ Len(s) \in Nat
  OBVIOUS
<1>2. IsFiniteSet(D) /\ Cardinality(D) = Len(s)
  BY <1>1, FS_Interval
<1>3. /\ \A i, j \in D : rank(i) = rank(j) => i = j
      /\ \A k \in 1 .. Len(s) : \E i \in D : rank(i) = k - 1
  BY <1>2, Ranks
<1>4. \A k \in D : Sorted(s, R)[k] = s[CHOOSE i \in D : rank(i) = k - 1]
  BY DEF Sorted
<1>5. \A k \in D : \E i \in D : t[k] = s[i] /\ rank(i) = k - 1
  BY DEF InOrder
<1> HIDE DEF rank, D
<1> QED
  BY <1>1, <1>3, <1>4, <1>5 DEF D
LEMMA Positions ==
    ASSUME NEW S, NEW s \in Seq(S)
    PROVE  /\ DOMAIN s = 1 .. Len(s) /\ Len(s) \in Nat
           /\ IsFiniteSet(DOMAIN s) /\ Cardinality(DOMAIN s) = Len(s)
           /\ \A i \in DOMAIN s : s[i] \in S
<1>1. DOMAIN s = 1 .. Len(s) /\ Len(s) \in Nat
  OBVIOUS
<1> QED
  BY <1>1, FS_Interval

(***************************************************************************)
(* Both sorts put a list in the lexicographic order of two keys: the       *)
(* browser is given the keys, the server compares the elements.            *)
(***************************************************************************)
Keys(s, a) == a \in [DOMAIN s -> Int]

LEMMA LocalSort ==
    ASSUME NEW S, NEW s \in Seq(S), NEW a, NEW b, Keys(s, a) /\ Keys(s, b)
    PROVE  stableSort(s, [i \in DOMAIN s |-> <<a[i], b[i]>>]) = Sorted(s, Lex(DOMAIN s, a, b))
<1> DEFINE D == DOMAIN s
           R == Lex(D, a, b)
           keys == [i \in D |-> <<a[i], b[i]>>]
           before(i, j) ==
               \/ keys[i][1] < keys[j][1]
               \/ keys[i][1] = keys[j][1] /\ keys[i][2] < keys[j][2]
               \/ keys[i] = keys[j] /\ i < j
           rank(i) == Cardinality({j \in D : before(j, i)})
           t == [k \in D |-> s[CHOOSE i \in D : rank(i) = k - 1]]
<1>1. D = 1 .. Len(s) /\ Len(s) \in Nat /\ IsFiniteSet(D) /\ Cardinality(D) = Len(s)
  BY Positions
<1>2. StrictOrder(D, R)
  BY <1>1, LexOrder DEF Keys
<1>3. \A i \in D : {j \in D : before(j, i)} = Below(D, R, i)
  <2>1. \A i, j \in D : before(j, i) <=> <<j, i>> \in R
    BY DEF Lex, Keys
  <2> QED
    BY <2>1 DEF Below
<1>4. \A i \in D : rank(i) = Cardinality(Below(D, R, i))
  BY <1>3
<1>5. stableSort(s, keys) = t
  BY DEF stableSort
<1> HIDE DEF rank, before, R, t, keys
<1>6. \A k \in 1 .. Cardinality(D) : \E i \in D : Cardinality(Below(D, R, i)) = k - 1
  <2> HIDE DEF D
  <2> QED
    BY <1>1, <1>2, Ranks
<1>7. \A k \in D : \E i \in D : Cardinality(Below(D, R, i)) = k - 1
  BY <1>1, <1>6
<1>8. \A k \in D : \E i \in D : rank(i) = k - 1
  BY <1>4, <1>7
<1>9. \A k \in D : \E i \in D : t[k] = s[i] /\ rank(i) = k - 1
  BY <1>8 DEF t
<1>10. InOrder(t, s, R)
  BY <1>4, <1>9 DEF InOrder, t
<1>11. \A k \in D : t[k] = Sorted(s, R)[k]
  BY <1>2, <1>10, SamePlace
<1>12. t = Sorted(s, R)
  BY <1>11 DEF Sorted, t
<1> QED
  BY <1>5, <1>12 DEF keys, R

Statuses == {"eligible", "conditional", "ineligible"}

Reasons == {"age", "income", "assets", "homeless", "newlywed", "sme", "region"}

Verdicts == [id : STRING, status : Statuses, failures : SUBSET Reasons, max : Nat, rate : Nat]

Standing(list) == [i \in DOMAIN list |-> StatusOrder[list[i].status]]
Lending(list) == [i \in DOMAIN list |-> -list[i].max]
ByStatus(list) == Lex(DOMAIN list, Standing(list), Lending(list))

\* t takes different places of s at different places
Apart(t, s) ==
    \A k, l \in DOMAIN s : k # l => \E i, j \in DOMAIN s : i # j /\ t[k] = s[i] /\ t[l] = s[j]

LEMMA SortedApart ==
    ASSUME NEW S, NEW s \in Seq(S), NEW R, StrictOrder(DOMAIN s, R)
    PROVE  Apart(Sorted(s, R), s)
<1> DEFINE D == DOMAIN s
           rank(i) == Cardinality(Below(D, R, i))
           at(k) == CHOOSE i \in D : rank(i) = k - 1
<1>1. D = 1 .. Len(s) /\ Len(s) \in Nat /\ IsFiniteSet(D) /\ Cardinality(D) = Len(s)
  BY Positions
<1>2. \A k \in 1 .. Len(s) : \E i \in D : rank(i) = k - 1
  BY <1>1, Ranks
<1> HIDE DEF rank
<1>3. \A k \in D : at(k) \in D /\ rank(at(k)) = k - 1
  BY <1>1, <1>2
<1>4. Sorted(s, R) = [k \in D |-> s[at(k)]]
  BY DEF Sorted, rank
<1> HIDE DEF at, D
<1>5. \A k, l \in D : k # l => at(k) # at(l)
  <2>1. \A k, l \in D : k # l => k - 1 # l - 1
    BY <1>1
  <2> QED
    BY <1>3, <2>1
<1> QED
  BY <1>3, <1>4, <1>5 DEF Apart, D

LEMMA StatusNumbers ==
    /\ \A x \in Statuses : StatusOrder[x] \in 0 .. 2
    /\ \A x, y \in Statuses : StatusOrder[x] = StatusOrder[y] => x = y
    /\ StatusOrder["eligible"] = 0 /\ StatusOrder["conditional"] = 1 /\ StatusOrder["ineligible"] = 2
    /\ POLICY_STATUS_ORDER = StatusOrder
  BY DEF Statuses, StatusOrder, POLICY_STATUS_ORDER

LEMMA StandingType ==
    ASSUME NEW list \in Seq(Verdicts)
    PROVE  /\ \A i \in DOMAIN list : list[i].status \in Statuses /\ list[i].max \in Nat
           /\ Keys(list, Standing(list)) /\ Keys(list, Lending(list))
<1>1. \A i \in DOMAIN list : list[i] \in Verdicts
  OBVIOUS
<1>2. \A i \in DOMAIN list : list[i].status \in Statuses /\ list[i].max \in Nat
  BY <1>1 DEF Verdicts
<1>3. \A i \in DOMAIN list : StatusOrder[list[i].status] \in Int /\ -list[i].max \in Int
  BY <1>2, StatusNumbers
<1> QED
  BY <1>2, <1>3 DEF Standing, Lending, Keys

Evaluated(p, policies) == [i \in DOMAIN policies |-> evaluate_policy(p, policies[i])]

LEMMA ServerSortsPolicies ==
    ASSUME NEW p, NEW policies, Evaluated(p, policies) \in Seq(Verdicts)
    PROVE  evaluate_policies(p, policies)
             = Sorted(Evaluated(p, policies), ByStatus(Evaluated(p, policies)))
<1> DEFINE list == Evaluated(p, policies)
           D == DOMAIN list
           R == ByStatus(list)
           Bef(i, j) == \/ StatusOrder[list[i].status] < StatusOrder[list[j].status]
                        \/ list[i].status = list[j].status /\ list[i].max > list[j].max
           Ahead(i, j) == Bef(i, j) \/ (i < j /\ ~Bef(j, i))
           place(i) == 1 + Cardinality({j \in D \ {i} : Ahead(j, i)})
           t == [k \in D |-> list[CHOOSE i \in D : place(i) = k]]
<1>1. evaluate_policies(p, policies) = t
  BY DEF evaluate_policies, StableSort, Evaluated
<1> HIDE DEF list, Bef, Ahead, place, t, R
<1>2. list \in Seq(Verdicts)
  BY DEF list
<1>3. D = 1 .. Len(list) /\ Len(list) \in Nat /\ IsFiniteSet(D) /\ Cardinality(D) = Len(list)
  BY <1>2, Positions
<1>4. Keys(list, Standing(list)) /\ Keys(list, Lending(list))
  BY <1>2, StandingType
<1>5. StrictOrder(D, R)
  BY <1>3, <1>4, LexOrder DEF ByStatus, R, Keys
<1>6. \A i \in D : list[i].status \in Statuses /\ list[i].max \in Nat
  BY <1>2, StandingType
<1>7. \A i, j \in D : <<i, j>> \in R <=>
        \/ StatusOrder[list[i].status] < StatusOrder[list[j].status]
        \/ StatusOrder[list[i].status] = StatusOrder[list[j].status] /\ -list[i].max < -list[j].max
        \/ StatusOrder[list[i].status] = StatusOrder[list[j].status] /\ -list[i].max = -list[j].max /\ i < j
  BY DEF ByStatus, Lex, Standing, Lending, R
<1>8. \A i, j \in D : i # j => (Ahead(i, j) <=> <<i, j>> \in R)
  <2> SUFFICES ASSUME NEW i \in D, NEW j \in D, i # j PROVE Ahead(i, j) <=> <<i, j>> \in R
    OBVIOUS
  <2>1. i \in Int /\ j \in Int
    BY <1>3
  <2> DEFINE x == list[i].status
             y == list[j].status
             m == list[i].max
             n == list[j].max
  <2>2. x \in Statuses /\ y \in Statuses /\ m \in Nat /\ n \in Nat
    BY <1>6
  <2>3. /\ StatusOrder[x] \in Int /\ StatusOrder[y] \in Int
        /\ StatusOrder[x] = StatusOrder[y] <=> x = y
    BY <2>2, StatusNumbers
  <2>4. <<i, j>> \in R <=>
          \/ StatusOrder[x] < StatusOrder[y]
          \/ (StatusOrder[x] = StatusOrder[y] /\ -m < -n)
          \/ (StatusOrder[x] = StatusOrder[y] /\ -m = -n /\ i < j)
    BY <1>7
  <2>5. /\ Bef(i, j) <=> (StatusOrder[x] < StatusOrder[y]) \/ (x = y /\ m > n)
        /\ Bef(j, i) <=> (StatusOrder[y] < StatusOrder[x]) \/ (y = x /\ n > m)
    BY DEF Bef
  <2>6. Ahead(i, j) <=> Bef(i, j) \/ (i < j /\ ~Bef(j, i))
    BY DEF Ahead
  <2> HIDE DEF x, y, m, n
  <2> QED
    BY <2>1, <2>2, <2>3, <2>4, <2>5, <2>6
<1>9. \A i \in D : {j \in D \ {i} : Ahead(j, i)} = Below(D, R, i)
  <2>1. \A i \in D : <<i, i>> \notin R
    BY <1>5 DEF StrictOrder
  <2> HIDE DEF D
  <2> QED
    BY <1>8, <2>1 DEF Below
<1>10. /\ \A k \in 1 .. Cardinality(D) : \E i \in D : Cardinality(Below(D, R, i)) = k - 1
       /\ \A i \in D : Cardinality(Below(D, R, i)) \in 0 .. Cardinality(D) - 1
  <2> HIDE DEF D
  <2> QED
    BY <1>3, <1>5, Ranks
<1>11. /\ \A k \in D : \E i \in D : Cardinality(Below(D, R, i)) = k - 1
       /\ \A i \in D : Cardinality(Below(D, R, i)) \in Int
  BY <1>3, <1>10
<1>12. \A i \in D : place(i) = 1 + Cardinality(Below(D, R, i))
  BY <1>9 DEF place
<1>13. \A k \in D : \E i \in D : place(i) = k
  BY <1>3, <1>11, <1>12
<1>14. \A k \in D : \E i \in D : t[k] = list[i] /\ place(i) = k
  BY <1>13 DEF t
<1>15. \A i \in D, k \in D : place(i) = k => Cardinality(Below(D, R, i)) = k - 1
  BY <1>3, <1>11, <1>12
<1>16. InOrder(t, list, R)
  BY <1>14, <1>15 DEF InOrder, t
<1>17. \A k \in D : t[k] = Sorted(list, R)[k]
  BY <1>2, <1>5, <1>16, SamePlace
<1>18. t = Sorted(list, R)
  BY <1>17 DEF Sorted, t
<1> QED
  BY <1>1, <1>18 DEF list, R
-----------------------------------------------------------------------------
(***************************************************************************)
(* E2: the verdict about one policy, without its list of reasons.          *)
(***************************************************************************)
Unmet(p, c) ==
    [age      |-> (c.ageMin > 0 /\ p.age < c.ageMin) \/ (c.ageMax < K.noAgeMax /\ p.age > c.ageMax),
     income   |-> c.incomeMax < K.noAmount /\ safe_int(p.annualIncome) > c.incomeMax,
     assets   |-> c.assetMax < K.noAmount /\ safe_int(p.assets) > c.assetMax,
     homeless |-> c.homeless /\ ~p.homeless,
     newlywed |-> c.newlywed /\ ~p.newlywed,
     sme      |-> c.sme /\ ~p.sme,
     region   |-> c.regions # {} /\ p.region \notin c.regions]

Failing(p, c) == {r \in Reasons : Unmet(p, c)[r]}

Doubtful(p, policy) ==
    \/ policy.checks
    \/ policy.criteria.ageMax < K.noAgeMax /\ policy.criteria.ageMax - p.age <= K.imminent
    \/ policy.criteria.incomeMax < K.noAmount
         /\ income_is_close(safe_int(p.annualIncome), policy.criteria.incomeMax)

Status(p, policy) ==
    IF Failing(p, policy.criteria) # {} THEN "ineligible"
    ELSE IF Doubtful(p, policy) THEN "conditional" ELSE "eligible"

LEMMA VerdictOf ==
    ASSUME NEW p, NEW policy
    PROVE  evaluate_policy(p, policy) =
             [id |-> policy.id, status |-> Status(p, policy), failures |-> Failing(p, policy.criteria),
              max |-> policy.max, rate |-> policy.rate]
<1> DEFINE c        == policy.criteria
           aged     == c.ageMin > 0
           young    == c.ageMax < K.noAgeMax
           capped   == c.incomeMax < K.noAmount
           unmet    == [age      |-> (aged /\ p.age < c.ageMin) \/ (young /\ p.age > c.ageMax),
                        income   |-> capped /\ safe_int(p.annualIncome) > c.incomeMax,
                        assets   |-> c.assetMax < K.noAmount /\ safe_int(p.assets) > c.assetMax,
                        homeless |-> c.homeless /\ ~p.homeless,
                        newlywed |-> c.newlywed /\ ~p.newlywed,
                        sme      |-> c.sme /\ ~p.sme,
                        region   |-> c.regions # {} /\ p.region \notin c.regions]
           failures == {r \in DOMAIN unmet : unmet[r]}
           caveats  == {r \in {"checks"} : policy.checks}
                          \union {r \in {"age"} : young /\ c.ageMax - p.age <= K.imminent}
                          \union {r \in {"income"} : capped /\ income_is_close(safe_int(p.annualIncome), c.incomeMax)}
<1>1. evaluate_policy(p, policy) =
        [id |-> policy.id,
         status |-> IF failures # {} THEN "ineligible"
                    ELSE IF caveats # {} THEN "conditional" ELSE "eligible",
         failures |-> failures, max |-> policy.max, rate |-> policy.rate]
  BY DEF evaluate_policy
<1>2. unmet = Unmet(p, c) /\ DOMAIN unmet = Reasons
  BY DEF Unmet, Reasons
<1>3. caveats # {} <=> Doubtful(p, policy)
  BY DEF Doubtful
<1> HIDE DEF unmet, caveats
<1>4. failures = Failing(p, policy.criteria)
  BY <1>2 DEF Failing
<1> HIDE DEF failures
<1> QED
  BY <1>1, <1>3, <1>4 DEF Status

LEMMA VerdictType ==
    ASSUME NEW p, NEW policy, RuleOK(policy)
    PROVE  evaluate_policy(p, policy) \in Verdicts
<1>1. Status(p, policy) \in Statuses
  BY DEF Status, Statuses
<1>2. Failing(p, policy.criteria) \in SUBSET Reasons
  BY DEF Failing
<1>3. policy.id \in STRING /\ policy.max \in Nat /\ policy.rate \in Nat
  BY DEF RuleOK
<1> QED
  BY <1>1, <1>2, <1>3, VerdictOf DEF Verdicts

(***************************************************************************)
(* The policies of an answer are the verdicts about the rules it is given, *)
(* each of them once or more, and nothing else.                            *)
(***************************************************************************)
LEMMA PoliciesOfAnswer ==
    ASSUME NEW p, NEW given, given \in Seq({q \in Rules : RuleOK(q)})
    PROVE  /\ evaluate_policies(p, given) \in Seq(Verdicts)
           /\ DOMAIN evaluate_policies(p, given) = DOMAIN given
           /\ \A k \in DOMAIN given : \E i \in DOMAIN given :
                evaluate_policies(p, given)[k] = evaluate_policy(p, given[i])
           /\ \A i \in DOMAIN given : \E k \in DOMAIN given :
                evaluate_policies(p, given)[k] = evaluate_policy(p, given[i])
<1> DEFINE list == Evaluated(p, given)
<1>1. DOMAIN given = 1 .. Len(given) /\ Len(given) \in Nat
  OBVIOUS
<1>2. \A i \in DOMAIN given : evaluate_policy(p, given[i]) \in Verdicts
  BY VerdictType
<1>3. list \in Seq(Verdicts) /\ DOMAIN list = DOMAIN given
  BY <1>1, <1>2 DEF Evaluated
<1>4. \A i \in DOMAIN given : list[i] = evaluate_policy(p, given[i])
  BY DEF Evaluated
<1> HIDE DEF list
<1>5. evaluate_policies(p, given) = Sorted(list, ByStatus(list))
  BY <1>3, ServerSortsPolicies DEF list
<1>6. StrictOrder(DOMAIN list, ByStatus(list))
  <2>1. Keys(list, Standing(list)) /\ Keys(list, Lending(list))
    BY <1>3, StandingType
  <2>2. DOMAIN list = 1 .. Len(given)
    BY <1>1, <1>3
  <2>3. Standing(list) \in [1 .. Len(given) -> Int] /\ Lending(list) \in [1 .. Len(given) -> Int]
    BY <2>1, <2>2 DEF Keys
  <2> QED
    BY <1>1, <2>2, <2>3, LexOrder DEF ByStatus
<1> DEFINE t == Sorted(list, ByStatus(list))
<1>7. /\ t \in Seq(Verdicts) /\ DOMAIN t = DOMAIN list
      /\ \A k \in DOMAIN list : \E i \in DOMAIN list : t[k] = list[i]
      /\ \A i \in DOMAIN list : \E k \in DOMAIN list : t[k] = list[i]
  BY <1>3, <1>6, SortedFacts
<1> HIDE DEF t
<1> QED
  BY <1>3, <1>4, <1>5, <1>7 DEF t
(***************************************************************************)
(* A higher income leaves every reason standing and every doubt.           *)
(***************************************************************************)
LEMMA CloseStaysClose ==
    ASSUME NEW income \in Nat, NEW more \in Nat, NEW limit \in Nat, income <= more,
           income_is_close(income, limit)
    PROVE  income_is_close(more, limit)
<1>1. K.margin \in Nat
  BY ConstantsAssumption
<1> DEFINE bound == (100 - K.margin) * limit
<1>2. bound \in Int
  BY <1>1
<1>3. limit > 0 /\ 100 * income >= bound
  BY DEF income_is_close
<1> HIDE DEF bound
<1>4. 100 * more >= bound
  BY <1>2, <1>3
<1> QED
  BY <1>3, <1>4 DEF income_is_close, bound

LEMMA EnteredType == ASSUME NEW n \in Int PROVE safe_int(n) \in Nat
  BY DEF safe_int, Most

LEMMA IncomeOnlyLowers ==
    ASSUME NEW p \in FormType, NEW n \in Int, n >= p.annualIncome, NEW policy, RuleOK(policy)
    PROVE  StatusOrder[evaluate_policy(p, policy).status]
             <= StatusOrder[evaluate_policy([p EXCEPT !.annualIncome = n], policy).status]
<1> DEFINE c == policy.criteria
           q == [p EXCEPT !.annualIncome = n]
<1>1. /\ q.age = p.age /\ q.assets = p.assets /\ q.homeless = p.homeless /\ q.newlywed = p.newlywed
      /\ q.sme = p.sme /\ q.region = p.region /\ q.annualIncome = n
      /\ p.annualIncome \in Int
  BY DEF FormType
<1>2. c.incomeMax \in Nat
  BY DEF RuleOK
<1> DEFINE before == safe_int(p.annualIncome)
           after  == safe_int(q.annualIncome)
<1>3. before \in Nat /\ after \in Nat /\ before <= after
  BY <1>1 DEF safe_int, Most
<1> HIDE DEF q, before, after
<1>4. Unmet(p, c)["income"] => Unmet(q, c)["income"]
  <2>1. Unmet(p, c)["income"] <=> (c.incomeMax < K.noAmount /\ before > c.incomeMax)
    BY DEF Unmet, before
  <2>2. Unmet(q, c)["income"] <=> (c.incomeMax < K.noAmount /\ after > c.incomeMax)
    BY DEF Unmet, after
  <2>3. before > c.incomeMax => after > c.incomeMax
    BY <1>2, <1>3
  <2> QED
    BY <2>1, <2>2, <2>3
<1>5. \A r \in Reasons : Unmet(p, c)[r] => Unmet(q, c)[r]
  BY <1>1, <1>4 DEF Unmet, Reasons
<1>6. Failing(p, c) # {} => Failing(q, c) # {}
  BY <1>5 DEF Failing
<1>7. Doubtful(p, policy) => Doubtful(q, policy)
  BY <1>1, <1>2, <1>3, CloseStaysClose DEF Doubtful, before, after
<1>8. StatusOrder[Status(p, policy)] <= StatusOrder[Status(q, policy)]
  BY <1>6, <1>7, StatusNumbers DEF Status
<1> QED
  BY <1>8, VerdictOf DEF q
-----------------------------------------------------------------------------
(***************************************************************************)
(* The inductive invariant.  Of one policy, versions are in force one      *)
(* after the other, so that at any time there is at most one; a version    *)
(* keeps its identity and payload; what a request has read stays true of   *)
(* the store, and is the seed's as long as the store is; and an answer is  *)
(* what the engines make of one such reading.                              *)
(***************************************************************************)
VersionsOK(vs) ==
    /\ vs \in Seq(VersionType)
    /\ \A i \in DOMAIN vs : vs[i].id = i /\ vs[i].from < Forever
    /\ \A i, j \in DOMAIN vs :
        i < j /\ vs[i].payload.id = vs[j].payload.id => vs[i].until <= vs[j].from
    /\ Len(vs) >= Len(SeedVersions)
    /\ Len(vs) = Len(SeedVersions) => vs = SeedVersions

RegionsOK(rs) == rs \in Seq(Regions) /\ DOMAIN rs = DOMAIN SeedRegions

GivenOK(given, vs) ==
    /\ given \in Seq(VersionType)
    /\ \A i, j \in DOMAIN given : given[i].payload.id = given[j].payload.id => i = j
    /\ \A i \in DOMAIN given :
        /\ given[i].id \in DOMAIN vs
        /\ vs[given[i].id].payload = given[i].payload

RegionsRead(read, rs) ==
    /\ read.form \in FormType /\ read.at \in Int
    /\ RegionsOK(read.regions)
    /\ rs = SeedRegions => read.regions = SeedRegions

ReadOK(read, rs, vs) ==
    /\ RegionsRead(read, rs)
    /\ GivenOK(read.given, vs)
    /\ vs = SeedVersions => read.given = activeRuleVersions(SeedVersions, read.at)

RequestOK ==
    \/ request = Idle
    \/ request.step = "regions" /\ RegionsRead(request, regions)
    \/ request.step = "read" /\ ReadOK(request, regions, versions)

Payloads(given) == [i \in DOMAIN given |-> given[i].payload]

Served(read) ==
    IF ~Known(read.form, read.regions)
    THEN [kind |-> "invalid_region", form |-> read.form, at |-> read.at, regions |-> read.regions]
    ELSE respond(read, analyze(read.form, read.regions, Payloads(read.given)))

OnlineOK == online = NoAnswer \/ \E read : ReadOK(read, regions, versions) /\ online = Served(read)

Shown(f, t) ==
    IF ~Known(f, SeedRegions) THEN [kind |-> "invalid_region", form |-> f, at |-> t]
    ELSE LET answer == analyzeLocally(f, SeedRegions, SeedVersions, t)
         IN  [kind |-> "answer", form |-> f, at |-> t, body |-> answer,
              lineage |-> buildLineage(RecordOf(answer.region, SeedRegions),
                                       activeRuleVersions(SeedVersions, t), answer.policies)]

OfflineOK == offline = NoAnswer \/ \E f \in FormType, t \in Int : offline = Shown(f, t)

Inv ==
    /\ form \in FormType /\ now \in 0 .. MaxTime
    /\ RegionsOK(regions) /\ VersionsOK(versions)
    /\ RequestOK /\ OnlineOK /\ OfflineOK

(***************************************************************************)
(* Editing a field leaves a form.                                          *)
(***************************************************************************)
LEMMA EditedForm ==
    ASSUME NEW f \in FormType, NEW e \in EditType
    PROVE  [f EXCEPT ![e.field] = e.value] \in FormType
<1>1. CASE e \in [field : {"age", "annualIncome", "netIncome", "assets", "debt", "household"}, value : Int]
  BY <1>1 DEF FormType
<1>2. CASE e \in [field : {"homeless", "newlywed", "sme"}, value : BOOLEAN]
  BY <1>2 DEF FormType
<1>3. CASE e \in [field : {"region", "preferred"}, value : STRING]
  BY <1>3 DEF FormType
<1> QED
  BY <1>1, <1>2, <1>3 DEF EditType

LEMMA OneVersionInForce ==
    ASSUME NEW vs, VersionsOK(vs), NEW t \in Int
    PROVE  GivenOK(activeRuleVersions(vs, t), vs)
<1> DEFINE D == {i \in DOMAIN vs : vs[i].from <= t /\ t < vs[i].until}
           given == activeRuleVersions(vs, t)
<1>1. vs \in Seq(VersionType) /\ D \in SUBSET DOMAIN vs
  BY DEF VersionsOK
<1>2. DOMAIN vs = 1 .. Len(vs) /\ Len(vs) \in Nat /\ \A i \in DOMAIN vs : vs[i] \in VersionType
  BY <1>1, Positions
<1>3. given = Kept(vs, D)
  BY DEF activeRuleVersions
<1>4. ASSUME NEW i \in D, NEW j \in D, i < j, vs[i].payload.id = vs[j].payload.id
      PROVE  FALSE
  <2>1. vs[i].until <= vs[j].from
    BY <1>4 DEF VersionsOK
  <2>2. vs[j].from <= t /\ t < vs[i].until /\ vs[j].from \in Int /\ vs[i].until \in Int
    BY <1>2 DEF VersionType
  <2> QED
    BY <2>1, <2>2
<1> HIDE DEF given, D
<1>5. /\ Kept(vs, D) \in Seq(VersionType) /\ DOMAIN Kept(vs, D) = 1 .. Cardinality(D)
      /\ Place(D) \in [1 .. Cardinality(D) -> D] /\ Cardinality(D) \in Nat
      /\ \A k \in 1 .. Cardinality(D) : Kept(vs, D)[k] = vs[Place(D)[k]]
      /\ \A k, l \in 1 .. Cardinality(D) : k < l <=> Place(D)[k] < Place(D)[l]
  BY <1>1, KeptFacts
<1>6. ASSUME NEW k \in DOMAIN given, NEW l \in DOMAIN given, given[k].payload.id = given[l].payload.id
      PROVE  k = l
  <2> DEFINE i == Place(D)[k]
             j == Place(D)[l]
  <2>1. i \in D /\ j \in D /\ given[k] = vs[i] /\ given[l] = vs[j]
    BY <1>3, <1>5
  <2>2. i \in Int /\ j \in Int /\ k \in Int /\ l \in Int
    BY <1>1, <1>2, <1>3, <1>5, <2>1
  <2>3. (k < l <=> i < j) /\ (l < k <=> j < i)
    BY <1>3, <1>5
  <2> HIDE DEF i, j
  <2>4. ~(i < j) /\ ~(j < i)
    BY <1>4, <1>6, <2>1
  <2> QED
    BY <2>2, <2>3, <2>4
<1>7. ASSUME NEW k \in DOMAIN given
      PROVE  given[k].id \in DOMAIN vs /\ vs[given[k].id].payload = given[k].payload
  <2> DEFINE i == Place(D)[k]
  <2>1. i \in DOMAIN vs /\ given[k] = vs[i]
    BY <1>1, <1>3, <1>5
  <2>2. vs[i].id = i
    BY <2>1 DEF VersionsOK
  <2> QED
    BY <2>1, <2>2
<1> QED
  <2>1. given \in Seq(VersionType)
    BY <1>3, <1>5
  <2>2. GivenOK(given, vs)
    BY <1>6, <1>7, <2>1 DEF GivenOK
  <2> QED
    BY <2>2 DEF given

(***************************************************************************)
(* Superseding a version.                                                  *)
(***************************************************************************)
Superseded(vs, i, t, payload) ==
    Append([vs EXCEPT ![i].until = t],
           [vs[i] EXCEPT !.id = Len(vs) + 1, !.from = t, !.payload = payload])

LEMMA SupersededVersions ==
    ASSUME NEW vs, VersionsOK(vs), NEW i \in DOMAIN vs, NEW t \in 0 .. MaxTime,
           vs[i].until = Forever, vs[i].from < t, NEW payload \in Amended(vs[i].payload)
    PROVE  /\ VersionsOK(Superseded(vs, i, t, payload))
           /\ Superseded(vs, i, t, payload) # SeedVersions
           /\ DOMAIN vs \subseteq DOMAIN Superseded(vs, i, t, payload)
           /\ \A j \in DOMAIN vs : Superseded(vs, i, t, payload)[j].payload = vs[j].payload
<1> DEFINE n == Len(vs)
           closed == [vs EXCEPT ![i].until = t]
           new == [vs[i] EXCEPT !.id = n + 1, !.from = t, !.payload = payload]
           us == Append(closed, new)
<1>1. /\ vs \in Seq(VersionType) /\ n \in Nat /\ DOMAIN vs = 1 .. n
      /\ \A j \in DOMAIN vs : vs[j] \in VersionType
  BY Positions DEF VersionsOK
<1>2. MaxTime \in Nat /\ t \in Int /\ t < Forever /\ Forever \in Int
  BY StoreAssumption DEF Forever
<1>3. payload \in Rules /\ payload.id = vs[i].payload.id
  <2>1. vs[i].payload \in Rules
    BY <1>1 DEF VersionType
  <2> QED
    BY <2>1, StoreAssumption
<1>4. new \in VersionType /\ new.id = n + 1 /\ new.from = t /\ new.until = Forever /\ new.payload = payload
  <2>1. vs[i] \in VersionType /\ n + 1 \in Nat /\ vs[i].until = Forever
    BY <1>1
  <2> DEFINE v == vs[i]
  <2>2. v \in VersionType /\ v.until = Forever
    BY <2>1
  <2>3. new = [v EXCEPT !.id = n + 1, !.from = t, !.payload = payload]
    OBVIOUS
  <2> HIDE DEF v, n, new
  <2> QED
    BY <1>2, <1>3, <2>1, <2>2, <2>3 DEF VersionType
<1>5. \A j \in DOMAIN vs : [vs[j] EXCEPT !.until = t] \in VersionType
  BY <1>1, <1>2 DEF VersionType
<1>6. closed \in Seq(VersionType) /\ Len(closed) = n
  BY <1>1, <1>5
<1>7. \A j \in DOMAIN vs :
        /\ closed[j].id = vs[j].id /\ closed[j].payload = vs[j].payload /\ closed[j].from = vs[j].from
        /\ closed[j].until = IF j = i THEN t ELSE vs[j].until
  BY <1>1 DEF VersionType
<1> HIDE DEF closed, new
<1>8. /\ us \in Seq(VersionType) /\ Len(us) = n + 1 /\ DOMAIN us = 1 .. n + 1
      /\ us[n + 1] = new /\ \A j \in DOMAIN vs : us[j] = closed[j]
  BY <1>1, <1>4, <1>6
<1> HIDE DEF us
<1>9. \A j \in DOMAIN us : us[j].id = j /\ us[j].from < Forever
  <2> SUFFICES ASSUME NEW j \in DOMAIN us PROVE us[j].id = j /\ us[j].from < Forever
    OBVIOUS
  <2>1. CASE j \in DOMAIN vs
    BY <1>7, <1>8, <2>1 DEF VersionsOK
  <2>2. CASE j = n + 1
    BY <1>2, <1>4, <1>8, <2>2
  <2> QED
    BY <1>1, <1>8, <2>1, <2>2
<1>10. ASSUME NEW j \in DOMAIN us, NEW k \in DOMAIN us, j < k, us[j].payload.id = us[k].payload.id
       PROVE  us[j].until <= us[k].from
  <2>1. j \in DOMAIN vs /\ us[j].payload = vs[j].payload /\ j \in Int /\ k \in Int
    BY <1>1, <1>7, <1>8, <1>10
  <2>2. vs[j].until \in Int /\ vs[j].from \in Int
    BY <1>1, <2>1 DEF VersionType
  <2>3. CASE k = n + 1
    <3>1. us[k].from = t /\ vs[j].payload.id = vs[i].payload.id
      BY <1>3, <1>4, <1>8, <1>10, <2>1, <2>3
    <3>2. us[j].until <= t
      <4>1. us[j].until = IF j = i THEN t ELSE vs[j].until
        BY <1>7, <1>8, <2>1
      <4>2. CASE j = i
        BY <1>2, <4>1, <4>2
      <4>3. CASE j < i
        <5>1. vs[j].until <= vs[i].from
          BY <2>1, <3>1, <4>3 DEF VersionsOK
        <5>2. vs[i].from \in Int
          BY <1>1 DEF VersionType
        <5> QED
          BY <1>2, <2>2, <4>1, <4>3, <5>1, <5>2
      <4>4. CASE i < j
        <5>1. vs[i].until <= vs[j].from
          BY <2>1, <3>1, <4>4 DEF VersionsOK
        <5>2. vs[j].from < Forever
          BY <2>1 DEF VersionsOK
        <5> QED
          BY <1>2, <2>2, <5>1, <5>2
      <4> QED
        BY <1>1, <2>1, <4>2, <4>3, <4>4
    <3> QED
      BY <3>1, <3>2
  <2>4. CASE k # n + 1
    <3>1. k \in DOMAIN vs /\ us[k].payload = vs[k].payload /\ us[k].from = vs[k].from
      BY <1>1, <1>7, <1>8, <2>1, <2>4
    <3>2. vs[j].until <= vs[k].from
      BY <1>10, <2>1, <3>1 DEF VersionsOK
    <3>3. us[j].until = IF j = i THEN t ELSE vs[j].until
      BY <1>7, <1>8, <2>1
    <3>4. CASE j = i
      <4>1. vs[k].from \in Int /\ vs[k].from < Forever
        BY <1>1, <3>1 DEF VersionType, VersionsOK
      <4> QED
        BY <1>2, <3>2, <3>4, <4>1
    <3> QED
      BY <3>1, <3>2, <3>3, <3>4
  <2> QED
    BY <2>3, <2>4
<1>11. Len(us) > Len(SeedVersions)
  <2>1. Len(SeedVersions) \in Nat /\ n >= Len(SeedVersions)
    BY StoreAssumption DEF VersionsOK
  <2> QED
    BY <1>1, <1>8, <2>1
<1>12. us # SeedVersions /\ Len(us) >= Len(SeedVersions) /\ Len(us) # Len(SeedVersions)
  <2>1. Len(SeedVersions) \in Nat /\ Len(us) \in Nat
    BY <1>1, <1>8, StoreAssumption
  <2> QED
    BY <1>11, <2>1
<1>13. VersionsOK(us)
  BY <1>8, <1>9, <1>10, <1>12 DEF VersionsOK
<1>14. us = Superseded(vs, i, t, payload)
  BY DEF us, closed, new, Superseded
<1>15. DOMAIN vs \subseteq DOMAIN us
  BY <1>1, <1>8
<1> QED
  BY <1>7, <1>8, <1>12, <1>13, <1>14, <1>15

LEMMA ReadStays ==
    ASSUME NEW read, NEW rs, NEW vs, ReadOK(read, rs, vs), NEW rs2, NEW vs2,
           rs2 = SeedRegions => rs = SeedRegions,
           vs2 = SeedVersions => vs = SeedVersions,
           DOMAIN vs \subseteq DOMAIN vs2,
           \A j \in DOMAIN vs : vs2[j].payload = vs[j].payload
    PROVE  ReadOK(read, rs2, vs2)
<1>1. RegionsRead(read, rs2)
  BY DEF ReadOK, RegionsRead
<1>2. GivenOK(read.given, vs2)
  BY DEF ReadOK, GivenOK
<1> QED
  BY <1>1, <1>2 DEF ReadOK

(***************************************************************************)
(* Every change of the store keeps what was read from it.                  *)
(***************************************************************************)
LEMMA StoreStays ==
    ASSUME Inv, [Next]_vars
    PROVE  /\ RegionsOK(regions)' /\ VersionsOK(versions)'
           /\ regions' = SeedRegions => regions = SeedRegions
           /\ versions' = SeedVersions => versions = SeedVersions
           /\ DOMAIN versions \subseteq DOMAIN versions'
           /\ \A j \in DOMAIN versions : versions'[j].payload = versions[j].payload
<1>1. RegionsOK(regions) /\ VersionsOK(versions) /\ now \in 0 .. MaxTime
  BY DEF Inv
<1>2. CASE Supersede
  <2>1. PICK i \in DOMAIN versions :
          /\ versions[i].until = Forever /\ versions[i].from < now
          /\ \E payload \in Amended(versions[i].payload) :
                versions' = Append([versions EXCEPT ![i].until = now],
                                   [versions[i] EXCEPT !.id = Len(versions) + 1, !.from = now, !.payload = payload])
    BY <1>2 DEF Supersede
  <2>2. PICK payload \in Amended(versions[i].payload) : versions' = Superseded(versions, i, now, payload)
    BY <2>1 DEF Superseded
  <2>3. regions' = regions
    BY <1>2 DEF Supersede
  <2>4. /\ VersionsOK(versions') /\ versions' # SeedVersions
        /\ DOMAIN versions \subseteq DOMAIN versions'
        /\ \A j \in DOMAIN versions : versions'[j].payload = versions[j].payload
    BY <1>1, <2>1, <2>2, SupersededVersions
  <2> QED
    BY <1>1, <2>3, <2>4
<1>3. CASE Collect
  <2>1. PICK i \in DOMAIN regions :
          regions[i] = SeedRegions[i] /\ \E r \in Collected(regions[i]) : regions' = [regions EXCEPT ![i] = r]
    BY <1>3 DEF Collect
  <2>2. PICK r \in Collected(regions[i]) : regions' = [regions EXCEPT ![i] = r]
    BY <2>1
  <2>3. versions' = versions
    BY <1>3 DEF Collect
  <2>4. r \in Regions /\ regions \in Seq(Regions) /\ DOMAIN regions = DOMAIN SeedRegions
    BY <1>1, <2>1, StoreAssumption DEF RegionsOK
  <2>5. RegionsOK(regions')
    BY <2>2, <2>4 DEF RegionsOK
  <2>6. ASSUME regions' = SeedRegions PROVE regions = SeedRegions
    <3>1. \A j \in DOMAIN regions : regions[j] = SeedRegions[j]
      BY <2>1, <2>2, <2>6
    <3>2. SeedRegions \in Seq(Regions)
      BY StoreAssumption
    <3> QED
      BY <2>4, <3>1, <3>2
  <2> QED
    BY <1>1, <2>3, <2>5, <2>6
<1>4. CASE UNCHANGED <<regions, versions>>
  BY <1>1, <1>4
<1>5. Supersede \/ Collect \/ UNCHANGED <<regions, versions>>
  BY DEF Next, vars, Edit, ReadRegions, ReadRules, Answer, AnswerOffline, Tick
<1> QED
  BY <1>2, <1>3, <1>4, <1>5

LEMMA InvInit == Init => Inv
<1> SUFFICES ASSUME Init PROVE Inv
  OBVIOUS
<1>1. form \in FormType
  BY FormsAssumption DEF Init
<1>2. now \in 0 .. MaxTime
  BY StoreAssumption DEF Init
<1>3. RegionsOK(regions)
  BY StoreAssumption DEF Init, RegionsOK
<1>4. VersionsOK(versions)
  <2>1. versions = SeedVersions
    BY DEF Init
  <2>2. /\ SeedVersions \in Seq(VersionType)
        /\ \A i \in DOMAIN SeedVersions : SeedVersions[i].id = i /\ SeedVersions[i].from < Forever
        /\ \A i, j \in DOMAIN SeedVersions :
            SeedVersions[i].payload.id = SeedVersions[j].payload.id => i = j
    BY StoreAssumption
  <2>3. DOMAIN SeedVersions \subseteq Int /\ Len(SeedVersions) \in Nat
    BY <2>2
  <2>4. \A i, j \in DOMAIN SeedVersions :
          ~(i < j /\ SeedVersions[i].payload.id = SeedVersions[j].payload.id)
    BY <2>2, <2>3
  <2>5. VersionsOK(SeedVersions)
    BY <2>2, <2>3, <2>4 DEF VersionsOK
  <2> QED
    BY <2>1, <2>5
<1>5. RequestOK /\ OnlineOK /\ OfflineOK
  BY DEF Init, RequestOK, OnlineOK, OfflineOK
<1> QED
  BY <1>1, <1>2, <1>3, <1>4, <1>5 DEF Inv

LEMMA InvNext == Inv /\ [Next]_vars => Inv'
<1> SUFFICES ASSUME Inv, [Next]_vars PROVE Inv'
  OBVIOUS
<1>1. /\ form \in FormType /\ now \in 0 .. MaxTime /\ MaxTime \in Nat
      /\ RegionsOK(regions) /\ VersionsOK(versions)
      /\ RequestOK /\ OnlineOK /\ OfflineOK
  BY StoreAssumption DEF Inv
<1>2. /\ RegionsOK(regions)' /\ VersionsOK(versions)'
      /\ regions' = SeedRegions => regions = SeedRegions
      /\ versions' = SeedVersions => versions = SeedVersions
      /\ DOMAIN versions \subseteq DOMAIN versions'
      /\ \A j \in DOMAIN versions : versions'[j].payload = versions[j].payload
  BY StoreStays
<1>3. form' \in FormType
  <2>1. CASE Edit
    <3>1. PICK e \in Edits : form' = [form EXCEPT ![e.field] = e.value]
      BY <2>1 DEF Edit
    <3>2. e \in EditType
      BY <3>1, FormsAssumption
    <3> QED
      BY <1>1, <3>1, <3>2, EditedForm
  <2>2. CASE form' = form
    BY <1>1, <2>2
  <2>3. Edit \/ form' = form
    BY DEF Next, vars, ReadRegions, ReadRules, Answer, AnswerOffline, Supersede, Collect, Tick
  <2> QED
    BY <2>1, <2>2, <2>3
<1>4. now' \in 0 .. MaxTime
  <2>1. CASE Tick
    BY <1>1, <2>1 DEF Tick
  <2>2. CASE now' = now
    BY <1>1, <2>2
  <2>3. Tick \/ now' = now
    BY DEF Next, vars, Edit, ReadRegions, ReadRules, Answer, AnswerOffline, Supersede, Collect
  <2> QED
    BY <2>1, <2>2, <2>3
<1>5. \A read : ReadOK(read, regions, versions) => ReadOK(read, regions', versions')
  BY <1>2, ReadStays
<1>6. \A read : RegionsRead(read, regions) => RegionsRead(read, regions')
  BY <1>2 DEF RegionsRead
<1>7. RequestOK'
  <2>1. CASE ReadRegions
    <3>1. /\ request' = [step |-> "regions", form |-> form, at |-> now, regions |-> regions]
          /\ regions' = regions
      BY <2>1 DEF ReadRegions
    <3>2. RegionsRead(request', regions') /\ request'.step = "regions"
      BY <1>1, <3>1 DEF RegionsRead
    <3> QED
      BY <3>2 DEF RequestOK
  <2>2. CASE ReadRules
    <3> DEFINE given == activeRuleVersions(versions, request.at)
    <3>1. /\ request.step = "regions"
          /\ request' = [step |-> "read", form |-> request.form, at |-> request.at,
                         regions |-> request.regions, given |-> active(request.at)]
          /\ regions' = regions /\ versions' = versions
      BY <2>2 DEF ReadRules
    <3>2. RegionsRead(request, regions)
      BY <1>1, <3>1 DEF RequestOK, Idle, ReadOK
    <3>3. active(request.at) = given
      BY DEF active, activeRuleVersions
    <3>4. GivenOK(given, versions)
      BY <1>1, <3>2, OneVersionInForce DEF RegionsRead
    <3>5. versions = SeedVersions => given = activeRuleVersions(SeedVersions, request.at)
      OBVIOUS
    <3> HIDE DEF given
    <3>6. /\ request'.form = request.form /\ request'.at = request.at /\ request'.step = "read"
          /\ request'.regions = request.regions /\ request'.given = given
      BY <3>1, <3>3
    <3>7. RegionsRead(request', regions)
      BY <3>2, <3>6 DEF RegionsRead
    <3>8. ReadOK(request', regions', versions')
      BY <3>1, <3>4, <3>5, <3>6, <3>7 DEF ReadOK
    <3> QED
      BY <3>6, <3>8 DEF RequestOK
  <2>3. CASE Answer
    BY <2>3 DEF Answer, RequestOK
  <2>4. CASE request' = request
    BY <1>1, <1>5, <1>6, <2>4 DEF RequestOK
  <2>5. ReadRegions \/ ReadRules \/ Answer \/ request' = request
    BY DEF Next, vars, Edit, AnswerOffline, Supersede, Collect, Tick
  <2> QED
    BY <2>1, <2>2, <2>3, <2>4, <2>5
<1>8. OnlineOK'
  <2>1. CASE Answer
    <3>1. request.step = "read" /\ online' = Served(request)
      BY <2>1 DEF Answer, Served, Payloads
    <3>2. ReadOK(request, regions', versions')
      BY <1>1, <1>5, <3>1 DEF RequestOK, Idle
    <3> QED
      BY <3>1, <3>2 DEF OnlineOK
  <2>2. CASE online' = online
    BY <1>1, <1>5, <2>2 DEF OnlineOK
  <2>3. Answer \/ online' = online
    BY DEF Next, vars, Edit, ReadRegions, ReadRules, AnswerOffline, Supersede, Collect, Tick
  <2> QED
    BY <2>1, <2>2, <2>3
<1>9. OfflineOK'
  <2>1. CASE AnswerOffline
    <3>1. offline' = Shown(form, now)
      BY <2>1 DEF AnswerOffline, Shown, respondLocally
    <3>2. now \in Int
      BY <1>1
    <3> QED
      BY <1>1, <3>1, <3>2 DEF OfflineOK
  <2>2. CASE offline' = offline
    BY <1>1, <2>2 DEF OfflineOK
  <2>3. AnswerOffline \/ offline' = offline
    BY DEF Next, vars, Edit, ReadRegions, ReadRules, Answer, Supersede, Collect, Tick
  <2> QED
    BY <2>1, <2>2, <2>3
<1> QED
  BY <1>2, <1>3, <1>4, <1>7, <1>8, <1>9 DEF Inv

(***************************************************************************)
(* Whatever is asked, superseded or collected in between: versions are     *)
(* numbered in their order and of one policy one is in force at a time, a  *)
(* request holds one rule at most of each policy, a version of the store,  *)
(* and each answer is what the engines make of one such reading (main.py   *)
(* 2648-2679).                                                             *)
(***************************************************************************)
THEOREM InvHolds == Spec => []Inv
<1>1. Init => Inv
  BY InvInit
<1>2. Inv /\ [Next]_vars => Inv'
  BY InvNext
<1> QED
  BY <1>1, <1>2, PTL DEF Spec

-----------------------------------------------------------------------------
(***************************************************************************)
(* What an answer consists of.                                             *)
(***************************************************************************)
Cap(p, rs) == guarantee_deposit_cap_for(find_region(p, rs))

Scenarios(p, rs, policies) ==
    build_scenarios(find_region(p, rs), safe_int(p.assets), assess_affordability(p),
        loan_option(evaluate_policies(p, policies), K.jeonsePriority,
                    find_region(p, rs).jeonse, safe_int(p.assets)),
        loan_option(evaluate_policies(p, policies), K.monthlyPriority,
                    find_region(p, rs).deposit, safe_int(p.assets)),
        preferred_type(p), Cap(p, rs))

LEMMA AnswerParts ==
    ASSUME NEW p, NEW rs, NEW policies
    PROVE  /\ analyze(p, rs, policies).affordability = assess_affordability(p)
           /\ analyze(p, rs, policies).policies = evaluate_policies(p, policies)
           /\ analyze(p, rs, policies).scenarios = Scenarios(p, rs, policies)
           /\ analyze(p, rs, policies).risk =
                scan_deposit_risk(Scenarios(p, rs, policies)[1].deposit,
                                  Scenarios(p, rs, policies)[1].loan, find_region(p, rs), Cap(p, rs))
           /\ analyze(p, rs, policies).region = find_region(p, rs).code
           /\ analyze(p, rs, policies).summary =
                build_summary(assess_affordability(p), Scenarios(p, rs, policies),
                              evaluate_policies(p, policies))
  BY DEF analyze, Scenarios, Cap

LEMMA RulesRead ==
    ASSUME NEW given, NEW vs, GivenOK(given, vs)
    PROVE  /\ Payloads(given) \in Seq({q \in Rules : RuleOK(q)})
           /\ DOMAIN Payloads(given) = DOMAIN given
           /\ \A i \in DOMAIN given : given[i] \in VersionType /\ RuleOK(given[i].payload)
<1>1. given \in Seq(VersionType)
  BY DEF GivenOK
<1>2. DOMAIN given = 1 .. Len(given) /\ Len(given) \in Nat /\ \A i \in DOMAIN given : given[i] \in VersionType
  BY <1>1
<1>3. \A v \in VersionType : v.payload \in Rules
  BY DEF VersionType
<1>4. \A q \in Rules : RuleOK(q)
  BY StoreAssumption
<1> QED
  BY <1>2, <1>3, <1>4 DEF Payloads

(* An answer, and the reading it was made from. *)
MadeFrom(answer, read) ==
    /\ Known(read.form, read.regions)
    /\ answer.form = read.form /\ answer.at = read.at
    /\ answer.body = analyze(read.form, read.regions, Payloads(read.given))
    /\ answer.lineage = build_lineage(answer.body, read.regions, read.given)
    /\ answer.internal = IF Staff THEN build_internal(answer.body, read.given) ELSE {}

LEMMA ServedAnswer ==
    ASSUME NEW read, Served(read).kind = "answer"
    PROVE  MadeFrom(Served(read), read)
<1>1. Known(read.form, read.regions)
  BY DEF Served
<1>2. Served(read) = respond(read, analyze(read.form, read.regions, Payloads(read.given)))
  BY <1>1 DEF Served
<1> QED
  BY <1>1, <1>2 DEF respond, MadeFrom

LEMMA AnswerOf ==
    ASSUME Inv, Answered
    PROVE  \E read : ReadOK(read, regions, versions) /\ MadeFrom(online, read)
<1>1. OnlineOK /\ online.kind = "answer"
  BY DEF Inv, Answered
<1>2. PICK read : ReadOK(read, regions, versions) /\ online = Served(read)
  BY <1>1 DEF OnlineOK, NoAnswer
<1> QED
  BY <1>1, <1>2, ServedAnswer

LEMMA VerdictsOf ==
    ASSUME NEW p, NEW given, NEW vs, GivenOK(given, vs)
    PROVE  /\ \A k \in DOMAIN evaluate_policies(p, Payloads(given)) : \E i \in DOMAIN given :
                /\ evaluate_policies(p, Payloads(given))[k] = evaluate_policy(p, given[i].payload)
                /\ evaluate_policies(p, Payloads(given))[k].id = given[i].payload.id
           /\ DOMAIN evaluate_policies(p, Payloads(given)) = DOMAIN given
<1>1. \A i \in DOMAIN given : Payloads(given)[i] = given[i].payload
  BY DEF Payloads
<1>2. /\ DOMAIN evaluate_policies(p, Payloads(given)) = DOMAIN given
      /\ \A k \in DOMAIN given : \E i \in DOMAIN given :
            evaluate_policies(p, Payloads(given))[k] = evaluate_policy(p, Payloads(given)[i])
  <2>1. Payloads(given) \in Seq({q \in Rules : RuleOK(q)}) /\ DOMAIN Payloads(given) = DOMAIN given
    BY RulesRead
  <2> QED
    BY <2>1, PoliciesOfAnswer
<1>3. \A q : evaluate_policy(p, q).id = q.id
  BY VerdictOf
<1> QED
  BY <1>1, <1>2, <1>3

Names(lineage, x) == \E f \in lineage.provenance : f.kind = "rule_version" /\ f.fact = x

LEMMA RulesNamed ==
    ASSUME NEW answer, NEW rs, NEW given, NEW x
    PROVE  Names(build_lineage(answer, rs, given), x) <=> \E i \in DOMAIN given : given[i].id = x
<1> DEFINE used   == RecordOf(answer.region, rs)
           fields == {[kind |-> "region_field", fact |-> f, at |-> {}, verification |-> used.verification[f]] :
                        f \in DOMAIN used.verification}
           constants == {[kind |-> "model_constant", fact |-> c.key, at |-> {}, verification |-> c.verification] :
                            c \in {d \in K.registered : d.required}}
           rules  == rule_facts(answer, given)
<1>1. build_lineage(answer, rs, given).provenance = fields \union rules \union constants
  BY DEF build_lineage, grade_facts
<1>2. \A f \in fields : f.kind = "region_field"
  OBVIOUS
<1>3. \A f \in constants : f.kind = "model_constant"
  OBVIOUS
<1>4. (\E f \in rules : f.kind = "rule_version" /\ f.fact = x) <=> \E i \in DOMAIN given : given[i].id = x
  <2>1. rules = {rule_fact(answer, given[i]) : i \in DOMAIN given}
    BY DEF rule_facts
  <2>2. \A w : rule_fact(answer, w).kind = "rule_version" /\ rule_fact(answer, w).fact = w.id
    BY DEF rule_fact
  <2> HIDE DEF rules
  <2>3. \A f \in rules : f.kind = "rule_version" /\ \E i \in DOMAIN given : f.fact = given[i].id
    BY <2>1, <2>2
  <2>4. \A i \in DOMAIN given : \E f \in rules : f.kind = "rule_version" /\ f.fact = given[i].id
    BY <2>1, <2>2
  <2> QED
    BY <2>3, <2>4
<1> HIDE DEF fields, constants, rules
<1> QED
  BY <1>1, <1>2, <1>3, <1>4 DEF Names

(***************************************************************************)
(* VerdictsAreReproducible: the versions an answer names are those it was  *)
(* made from, one of each policy it judges, and they still say the same.   *)
(***************************************************************************)
Named(id) ==
    {v \in {versions[i] : i \in DOMAIN versions} :
       /\ v.payload.id = id
       /\ Names(online.lineage, v.id)}

Reproduced(e) ==
    /\ Cardinality(Named(e.id)) = 1
    /\ \A v \in Named(e.id) :
        /\ evaluate_policy(online.form, v.payload) = e
        /\ \A r \in online.internal : r.policy = e.id => r.criteria = v.payload.criteria

LEMMA VerdictsReproduced == Inv => VerdictsAreReproducible
<1> SUFFICES ASSUME Inv, Answered, NEW k \in DOMAIN online.body.policies
             PROVE  Reproduced(online.body.policies[k])
  <2>1. ASSUME \A k \in DOMAIN online.body.policies : Reproduced(online.body.policies[k])
        PROVE  \A e \in {online.body.policies[i] : i \in DOMAIN online.body.policies} : Reproduced(e)
    BY <2>1
  <2> QED
    BY <2>1 DEF VerdictsAreReproducible, Reproduced, Named, Names
<1>1. PICK read :
        /\ ReadOK(read, regions, versions)
        /\ online.form = read.form
        /\ online.body = analyze(read.form, read.regions, Payloads(read.given))
        /\ online.lineage = build_lineage(online.body, read.regions, read.given)
        /\ online.internal = IF Staff THEN build_internal(online.body, read.given) ELSE {}
  BY AnswerOf DEF MadeFrom
<1> DEFINE given == read.given
           e == online.body.policies[k]
           named == Named(e.id)
<1>2. GivenOK(given, versions) /\ VersionsOK(versions)
  BY <1>1 DEF ReadOK, Inv
<1>3. online.body.policies = evaluate_policies(read.form, Payloads(given))
  BY <1>1, AnswerParts
<1>4. PICK i \in DOMAIN given : e = evaluate_policy(read.form, given[i].payload) /\ e.id = given[i].payload.id
  BY <1>2, <1>3, VerdictsOf
<1> DEFINE v == versions[given[i].id]
<1>5. given[i].id \in DOMAIN versions /\ v.payload = given[i].payload /\ v.id = given[i].id
  BY <1>2 DEF GivenOK, VersionsOK
<1>6. \A j \in DOMAIN given : given[j].payload.id = given[i].payload.id => j = i
  BY <1>2 DEF GivenOK
<1>7. \A w : w \in named <=>
        /\ \E j \in DOMAIN versions : w = versions[j]
        /\ w.payload.id = e.id
        /\ \E j \in DOMAIN given : given[j].id = w.id
  <2>1. ASSUME NEW x
        PROVE  Names(online.lineage, x) <=> \E j \in DOMAIN given : given[j].id = x
    BY <1>1, RulesNamed
  <2>2. \A w : w \in {versions[j] : j \in DOMAIN versions} <=> \E j \in DOMAIN versions : w = versions[j]
    OBVIOUS
  <2> QED
    BY <2>1, <2>2 DEF Named
<1> HIDE DEF named, v, e
<1>8. v \in named
  BY <1>4, <1>5, <1>7 DEF v
<1>9. ASSUME NEW w \in named PROVE w = v
  <2>1. PICK m \in DOMAIN versions : w = versions[m]
    BY <1>7
  <2>2. PICK j \in DOMAIN given : given[j].id = w.id
    BY <1>7
  <2>3. w.id = m
    BY <1>2, <2>1 DEF VersionsOK
  <2>4. versions[given[j].id].payload = given[j].payload
    BY <1>2 DEF GivenOK
  <2>5. given[j].payload.id = given[i].payload.id
    BY <1>4, <1>7, <2>1, <2>2, <2>3, <2>4
  <2>6. j = i
    BY <1>6, <2>5
  <2> QED
    BY <2>1, <2>2, <2>3, <2>6 DEF v
<1>10. named = {v}
  BY <1>8, <1>9
<1>11. Cardinality(named) = 1
  BY <1>10, FS_Singleton
<1>12. evaluate_policy(online.form, v.payload) = e
  BY <1>1, <1>4, <1>5
<1>13. ASSUME NEW r \in online.internal, r.policy = e.id PROVE r.criteria = v.payload.criteria
  <2>1. r \in build_internal(online.body, given)
    BY <1>1, <1>13
  <2>2. PICK d : r.policy = d.id /\ r.criteria =
           (CHOOSE u \in {given[j] : j \in DOMAIN given} : u.payload.id = d.id).payload.criteria
    BY <2>1 DEF build_internal
  <2> DEFINE u == CHOOSE u \in {given[j] : j \in DOMAIN given} : u.payload.id = d.id
  <2>3. d.id = given[i].payload.id
    BY <1>4, <1>13, <2>2
  <2>4. u \in {given[j] : j \in DOMAIN given} /\ u.payload.id = given[i].payload.id
    BY <2>3
  <2>5. u = given[i]
    BY <1>6, <2>4
  <2> QED
    BY <1>5, <2>2, <2>5
<1> QED
  BY <1>10, <1>11, <1>12, <1>13 DEF named, e, Reproduced

(***************************************************************************)
(* However many rules are superseded while an answer is made and after it, *)
(* the version the answer names for a policy is one, its rule gives the    *)
(* verdict of the answer, and the criteria shown to staff are that rule's  *)
(* (main.py build_lineage, build_internal).                                *)
(***************************************************************************)
THEOREM VerdictsReproducible == Spec => []VerdictsAreReproducible
  BY InvHolds, VerdictsReproduced, PTL

(***************************************************************************)
(* MoreIncomeNeverQualifies: two answers under the rules of the seed judge *)
(* a policy by the same version of it, and there a higher income is no     *)
(* help.                                                                   *)
(***************************************************************************)
LEMMA SameRule ==
    ASSUME NEW given1, NEW given2, GivenOK(given1, SeedVersions), GivenOK(given2, SeedVersions),
           NEW i \in DOMAIN given1, NEW j \in DOMAIN given2, given1[i].payload.id = given2[j].payload.id
    PROVE  given1[i].payload = given2[j].payload
<1> DEFINE m == given1[i].id
           n == given2[j].id
<1>1. /\ m \in DOMAIN SeedVersions /\ SeedVersions[m].payload = given1[i].payload
      /\ n \in DOMAIN SeedVersions /\ SeedVersions[n].payload = given2[j].payload
  BY DEF GivenOK
<1> HIDE DEF m, n
<1>2. m = n
  BY <1>1, StoreAssumption
<1> QED
  BY <1>1, <1>2

LEMMA IncomeStep ==
    ASSUME Inv, [Next]_vars, Replaced, versions = SeedVersions,
           online'.form.annualIncome >= online.form.annualIncome,
           online'.form = [online.form EXCEPT !.annualIncome = online'.form.annualIncome],
           NEW i \in DOMAIN online.body.policies, NEW j \in DOMAIN online'.body.policies,
           online.body.policies[i].id = online'.body.policies[j].id
    PROVE  StatusOrder[online.body.policies[i].status] <= StatusOrder[online'.body.policies[j].status]
<1>1. PICK read : ReadOK(read, regions, versions) /\ MadeFrom(online, read)
  BY AnswerOf DEF Replaced
<1>2. Answer
  BY DEF Replaced, Next, vars, Edit, ReadRegions, ReadRules, AnswerOffline, Supersede, Collect, Tick
<1>3. request.step = "read" /\ online' = Served(request)
  BY <1>2 DEF Answer, Served, Payloads
<1>4. ReadOK(request, regions, versions)
  BY <1>3 DEF Inv, RequestOK, Idle
<1>5. MadeFrom(online', request)
  BY <1>3, ServedAnswer DEF Replaced
<1> DEFINE p == online.form
           q == online'.form
           given1 == read.given
           given2 == request.given
           e1 == online.body.policies[i]
           e2 == online'.body.policies[j]
<1>6. p = read.form /\ q = request.form /\ p \in FormType /\ q \in FormType
  BY <1>1, <1>4, <1>5 DEF ReadOK, RegionsRead, MadeFrom
<1>7. GivenOK(given1, SeedVersions) /\ GivenOK(given2, SeedVersions)
  BY <1>1, <1>4 DEF ReadOK
<1>8. /\ online.body.policies = evaluate_policies(p, Payloads(given1))
      /\ online'.body.policies = evaluate_policies(q, Payloads(given2))
  BY <1>1, <1>5, <1>6, AnswerParts DEF MadeFrom
<1>9. PICK a \in DOMAIN given1 :
        e1 = evaluate_policy(p, given1[a].payload) /\ e1.id = given1[a].payload.id
  <2> DEFINE list == evaluate_policies(p, Payloads(given1))
  <2>1. \A k \in DOMAIN list : \E x \in DOMAIN given1 :
          list[k] = evaluate_policy(p, given1[x].payload) /\ list[k].id = given1[x].payload.id
    BY <1>7, VerdictsOf
  <2>2. i \in DOMAIN list /\ e1 = list[i]
    BY <1>8
  <2> HIDE DEF list
  <2> QED
    BY <2>1, <2>2
<1>10. PICK b \in DOMAIN given2 :
        e2 = evaluate_policy(q, given2[b].payload) /\ e2.id = given2[b].payload.id
  <2> DEFINE list == evaluate_policies(q, Payloads(given2))
  <2> HIDE DEF q, given2
  <2>1. \A k \in DOMAIN list : \E x \in DOMAIN given2 :
          list[k] = evaluate_policy(q, given2[x].payload) /\ list[k].id = given2[x].payload.id
    BY <1>7, VerdictsOf
  <2>2. j \in DOMAIN list /\ e2 = list[j]
    BY <1>8 DEF q, given2
  <2> HIDE DEF list
  <2> QED
    BY <2>1, <2>2
<1>11. given2[b].payload = given1[a].payload
  BY <1>7, <1>9, <1>10, SameRule
<1>12. RuleOK(given1[a].payload)
  BY <1>7, RulesRead
<1>13. q.annualIncome \in Int
  BY <1>6 DEF FormType
<1>14. StatusOrder[evaluate_policy(p, given1[a].payload).status]
         <= StatusOrder[evaluate_policy([p EXCEPT !.annualIncome = q.annualIncome], given1[a].payload).status]
  BY <1>6, <1>12, <1>13, IncomeOnlyLowers
<1> QED
  BY <1>9, <1>10, <1>11, <1>14

(***************************************************************************)
(* For any rules with any caps, margins and ages: asking again with a      *)
(* higher annual income and nothing else changed improves the status of no *)
(* policy (eligibility.py 98-103).                                         *)
(***************************************************************************)
THEOREM MoreIncomeIsNoHelp == Spec => MoreIncomeNeverQualifies
<1>1. Inv /\ [Next]_vars =>
        [ (/\ Replaced
           /\ versions = SeedVersions
           /\ online'.form.annualIncome >= online.form.annualIncome
           /\ online'.form = [online.form EXCEPT !.annualIncome = online'.form.annualIncome])
          => \A i \in DOMAIN online.body.policies : \A j \in DOMAIN online'.body.policies :
                online.body.policies[i].id = online'.body.policies[j].id =>
                    StatusOrder[online.body.policies[i].status]
                        <= StatusOrder[online'.body.policies[j].status] ]_vars
  BY IncomeStep
<1> QED
  BY <1>1, InvHolds, PTL DEF Spec, MoreIncomeNeverQualifies

-----------------------------------------------------------------------------
(***************************************************************************)
(* Arithmetic of the engines.                                              *)
(***************************************************************************)
LEMMA Quotient ==
    ASSUME NEW a \in Int, NEW u \in Nat, u # 0
    PROVE  /\ a \div u \in Int /\ (a \div u) * u <= a /\ (a \div u) * u \in Int
           /\ a >= 0 => a \div u >= 0 /\ (a \div u) * u >= 0
  OBVIOUS

LEMMA FloorFacts ==
    ASSUME NEW a \in Int, NEW u \in Nat, u # 0
    PROVE  floor_to(a, u) \in Nat /\ (a >= 0 => floor_to(a, u) <= a) /\ (a <= 0 => floor_to(a, u) = 0)
<1> DEFINE q == (a \div u) * u
<1>1. q \in Int /\ q <= a /\ (a >= 0 => q >= 0)
  BY Quotient
<1>2. floor_to(a, u) = IF a <= 0 THEN 0 ELSE q
  BY DEF floor_to
<1> HIDE DEF q
<1> QED
  BY <1>1, <1>2

LEMMA Share ==
    ASSUME NEW a \in Nat, NEW b \in Nat, b <= 100
    PROVE  (a * b) \div 100 \in Nat /\ (a * b) \div 100 <= a /\ 100 * ((a * b) \div 100) <= b * a
<1>1. a * b \in Nat /\ a * b <= 100 * a
  OBVIOUS
<1> DEFINE n == a * b
<1>2. n \in Nat /\ n <= 100 * a /\ n = b * a
  BY <1>1
<1> HIDE DEF n
<1>3. n \div 100 \in Nat /\ n \div 100 <= a /\ 100 * (n \div 100) <= n
  BY <1>2
<1> QED
  BY <1>2, <1>3 DEF n

LEMMA RoundFacts ==
    ASSUME NEW n \in Int, NEW parts \in Nat, parts # 0
    PROVE  round(n, parts) \in Int /\ (n >= 0 => round(n, parts) \in Nat)
<1> DEFINE down == n \div parts
           rest == 2 * (n % parts)
<1>1. down \in Int /\ (n >= 0 => down >= 0)
  BY Quotient
<1>2. round(n, parts) = IF rest > parts \/ (rest = parts /\ down % 2 = 1) THEN down + 1 ELSE down
  BY DEF round
<1> HIDE DEF down, rest
<1> QED
  BY <1>1, <1>2

First(m, D, R) == m \in D /\ \A j \in D \ {m} : <<m, j>> \in R

LEMMA ThereIsAFirst ==
    ASSUME NEW D, IsFiniteSet(D), D # {}, NEW R, StrictOrder(D, R)
    PROVE  /\ \E m : First(m, D, R)
           /\ \A m, n : First(m, D, R) /\ First(n, D, R) => m = n
<1> DEFINE rank(i) == Cardinality(Below(D, R, i))
           n == Cardinality(D)
<1>1. n \in Nat /\ n # 0
  BY FS_CardinalityType, FS_EmptySet
<1>2. /\ \A i \in D : rank(i) \in 0 .. n - 1
      /\ \A i, j \in D : <<i, j>> \in R => rank(i) < rank(j)
      /\ \A k \in 1 .. n : \E i \in D : rank(i) = k - 1
  BY Ranks
<1> HIDE DEF rank, n
<1>3. PICK m \in D : rank(m) = 0
  <2>1. 1 \in 1 .. n
    BY <1>1
  <2> QED
    BY <1>2, <2>1
<1>4. \A j \in D \ {m} : <<m, j>> \in R
  <2> SUFFICES ASSUME NEW j \in D, j # m, <<j, m>> \in R PROVE FALSE
    BY DEF StrictOrder
  <2>1. rank(j) < 0 /\ rank(j) >= 0 /\ rank(j) \in Int
    BY <1>1, <1>2, <1>3
  <2> QED
    BY <2>1
<1>5. ASSUME NEW i, NEW j, First(i, D, R), First(j, D, R), i # j PROVE FALSE
  <2>1. i \in D /\ j \in D /\ <<i, j>> \in R /\ <<j, i>> \in R
    BY <1>5 DEF First
  <2> QED
    BY <2>1 DEF StrictOrder
<1> QED
  BY <1>4, <1>5 DEF First

LEMMA Extremes ==
    ASSUME NEW S, IsFiniteSet(S), S # {}, \A x \in S : x \in Int
    PROVE  /\ \E m \in S : \A x \in S : m <= x
           /\ \E m \in S : \A x \in S : m >= x
<1> DEFINE Up == {p \in S \X S : p[1] < p[2]}
           Down == {p \in S \X S : p[1] > p[2]}
<1>1. \A x, y \in S : (<<x, y>> \in Up <=> x < y) /\ (<<x, y>> \in Down <=> x > y)
  OBVIOUS
<1> HIDE DEF Up, Down
<1>2. StrictOrder(S, Up) /\ StrictOrder(S, Down)
  BY <1>1 DEF StrictOrder
<1>3. PICK m : First(m, S, Up)
  BY <1>2, ThereIsAFirst
<1>4. PICK n : First(n, S, Down)
  BY <1>2, ThereIsAFirst
<1>5. \A x \in S : m <= x
  <2> SUFFICES ASSUME NEW x \in S, x # m PROVE m < x
    BY <1>3 DEF First
  <2>1. <<m, x>> \in Up /\ m \in S
    BY <1>3 DEF First
  <2> QED
    BY <1>1, <2>1
<1>6. \A x \in S : n >= x
  <2> SUFFICES ASSUME NEW x \in S, x # n PROVE n > x
    BY <1>4 DEF First
  <2>1. <<n, x>> \in Down /\ n \in S
    BY <1>4 DEF First
  <2> QED
    BY <1>1, <2>1
<1> QED
  BY <1>3, <1>4, <1>5, <1>6 DEF First

LEMMA Amounts ==
    /\ K.costUnit \in Nat /\ K.costUnit # 0 /\ K.depositUnit \in Nat /\ K.depositUnit # 0
    /\ K.monthlyUnit \in Nat /\ K.monthlyUnit # 0 /\ K.years \in Nat /\ K.years # 0
    /\ K.metroCap \in Nat /\ K.metroCap # 0 /\ K.otherCap \in Nat /\ K.otherCap # 0
    /\ K.haircut \in Nat /\ K.haircut <= 100 /\ K.ltv \in Nat /\ K.ltv <= 100
<1>1. /\ {K.costUnit, K.depositUnit, K.monthlyUnit, K.years, K.metroCap, K.otherCap} \subseteq Nat \ {0}
      /\ {K.haircut, K.ltv} \subseteq 0 .. 100
  BY ConstantsAssumption
<1> QED
  BY <1>1

LEMMA LivingCostType == ASSUME NEW size \in Int PROVE living_cost_for(size) \in Nat
<1> DEFINE n == Len(K.livingCost)
           m == Most(1, size)
<1>1. K.livingCost \in Seq(Nat) /\ K.livingCost # <<>> /\ K.extraPerson \in Nat
  BY ConstantsAssumption
<1>2. n \in Nat /\ n # 0 /\ DOMAIN K.livingCost = 1 .. n /\ \A i \in 1 .. n : K.livingCost[i] \in Nat
  BY <1>1
<1>3. living_cost_for(size) = IF size <= n THEN K.livingCost[m]
                              ELSE K.livingCost[n] + (size - n) * K.extraPerson
  BY DEF living_cost_for
<1>4. m \in Int /\ m >= 1 /\ (size <= n => m <= n)
  BY <1>2 DEF Most
<1> HIDE DEF n, m
<1>5. CASE size <= n
  BY <1>2, <1>3, <1>4, <1>5
<1>6. CASE ~(size <= n)
  <2>1. size - n \in Nat /\ n \in 1 .. n
    BY <1>2, <1>6
  <2>2. (size - n) * K.extraPerson \in Nat /\ K.livingCost[n] \in Nat
    BY <1>1, <1>2, <2>1
  <2> QED
    BY <1>3, <1>6, <2>2
<1> QED
  BY <1>5, <1>6

LEMMA MaxCostFacts ==
    ASSUME NEW net \in Nat, NEW residual \in Int
    PROVE  /\ max_cost(net, residual) \in Nat
           /\ max_cost(net, residual) # 0 => net # 0 /\ max_cost(net, residual) <= residual
<1> DEFINE capped == (net * K.costCap) \div 100
           least == Least(capped, residual)
<1>1. K.costCap \in Nat /\ K.costUnit \in Nat /\ K.costUnit # 0
  BY ConstantsAssumption
<1>2. net * K.costCap \in Int
  BY <1>1
<1>3. capped \in Int
  BY <1>2, Quotient
<1> HIDE DEF capped
<1>4. least \in Int /\ least <= residual
  BY <1>3 DEF Least
<1> HIDE DEF least
<1>5. floor_to(least, K.costUnit) \in Nat
      /\ (least >= 0 => floor_to(least, K.costUnit) <= least)
      /\ (least <= 0 => floor_to(least, K.costUnit) = 0)
  BY <1>1, <1>4, FloorFacts
<1>6. max_cost(net, residual) = IF net = 0 THEN 0 ELSE floor_to(least, K.costUnit)
  BY DEF max_cost, least, capped
<1> QED
  BY <1>4, <1>5, <1>6

AffordType == [max : Nat, recommended : Nat, band : {"risk", "safe", "caution"}, netIncome : Nat,
               livingCost : Nat, debt : Nat, buffer : Nat]

(***************************************************************************)
(* What may be spent on housing leaves the cost of living, the debts and   *)
(* the buffer, and what is recommended is not more than that.              *)
(***************************************************************************)
LEMMA AffordFacts ==
    ASSUME NEW p \in FormType
    PROVE  LET a == assess_affordability(p)
           IN  /\ a \in AffordType
               /\ a.recommended <= a.max
               /\ a.max # 0 => a.max + a.livingCost + a.debt + a.buffer <= a.netIncome
<1> DEFINE entered  == safe_int(p.netIncome)
           net      == IF entered = 0 THEN (safe_int(p.annualIncome) * K.netFromAnnual) \div 1200 ELSE entered
           debt     == safe_int(p.debt)
           living   == living_cost_for(p.household)
           buffer   == (net * K.buffer) \div 100
           residual == net - living - debt - buffer
           most     == max_cost(net, residual)
           recommended == floor_to((most * K.haircut) \div 100, K.costUnit)
           Within(cap, share) == 100 * most >= cap * net /\ 100 * debt <= share * net
           band     == IF most = 0 THEN "risk"
                       ELSE IF Within(K.safeCap, K.safeDebt) THEN "safe"
                       ELSE IF Within(K.cautionCap, K.cautionDebt) THEN "caution"
                       ELSE "risk"
           a        == assess_affordability(p)
<1>1. a = [max |-> most, recommended |-> recommended, band |-> band,
           netIncome |-> net, livingCost |-> living, debt |-> debt, buffer |-> buffer]
  BY DEF assess_affordability
<1>2. /\ K.netFromAnnual \in Nat /\ K.buffer \in Nat /\ K.costUnit \in Nat /\ K.costUnit # 0
      /\ K.haircut \in Nat /\ K.haircut <= 100
  BY ConstantsAssumption, Amounts
<1>3. /\ p.netIncome \in Int /\ p.annualIncome \in Int /\ p.debt \in Int /\ p.household \in Int
  BY DEF FormType
<1>4. entered \in Nat /\ debt \in Nat /\ living \in Nat /\ safe_int(p.annualIncome) \in Nat
  BY <1>3, EnteredType, LivingCostType
<1> HIDE DEF a, entered, debt, living, band
<1>5. net \in Nat
  <2>1. safe_int(p.annualIncome) * K.netFromAnnual \in Nat
    BY <1>2, <1>4
  <2>2. (safe_int(p.annualIncome) * K.netFromAnnual) \div 1200 \in Nat
    BY <2>1, Quotient
  <2> QED
    BY <1>4, <2>2
<1> HIDE DEF net
<1>6. buffer \in Nat
  <2>1. net * K.buffer \in Nat
    BY <1>2, <1>5
  <2> QED
    BY <2>1, Quotient
<1> HIDE DEF buffer
<1>7. residual \in Int
  BY <1>4, <1>5, <1>6
<1>8. most \in Nat /\ (most # 0 => most <= residual)
  BY <1>5, <1>7, MaxCostFacts
<1> HIDE DEF most
<1>9. most # 0 => most + living + debt + buffer <= net
  BY <1>4, <1>5, <1>6, <1>8
<1>10. recommended \in Nat /\ recommended <= most
  <2> DEFINE part == (most * K.haircut) \div 100
  <2>1. part \in Nat /\ part <= most
    BY <1>2, <1>8, Share
  <2> HIDE DEF part
  <2>2. floor_to(part, K.costUnit) \in Nat /\ floor_to(part, K.costUnit) <= part
    BY <1>2, <2>1, FloorFacts
  <2> QED
    BY <1>8, <2>1, <2>2 DEF part
<1>11. band \in {"risk", "safe", "caution"}
  BY DEF band
<1> HIDE DEF recommended, residual
<1>12. a \in AffordType
  BY <1>1, <1>4, <1>5, <1>6, <1>8, <1>10, <1>11 DEF AffordType
<1>13. /\ a.recommended <= a.max
       /\ a.max # 0 => a.max + a.livingCost + a.debt + a.buffer <= a.netIncome
  BY <1>1, <1>9, <1>10
<1> QED
  BY <1>12, <1>13 DEF a

-----------------------------------------------------------------------------
(***************************************************************************)
(* The loan product: the first one of the priority list in the order of    *)
(* how much of the gap it covers and how cheap it is.                      *)
(***************************************************************************)
Usable(evaluated) == {e \in {evaluated[i] : i \in DOMAIN evaluated} : e.status # "ineligible"}

Products(evaluated, priority) ==
    {k \in DOMAIN priority : \E e \in Usable(evaluated) : e.id = priority[k]}

Product(evaluated, priority, k) == CHOOSE e \in Usable(evaluated) : e.id = priority[k]

Gap(deposit, assets) == Most(0, safe_int(deposit) - safe_int(assets))

Coverage(gap, e) == IF gap > 0 THEN Least(gap, e.max) ELSE e.max

Preference(evaluated, priority, gap) ==
    Lex(Products(evaluated, priority),
        [k \in Products(evaluated, priority) |-> -Coverage(gap, Product(evaluated, priority, k))],
        [k \in Products(evaluated, priority) |-> Product(evaluated, priority, k).rate])

LoanOf(e) == [name |-> e.id, max |-> e.max, rate |-> e.rate]

LEMMA CoverageType ==
    ASSUME NEW gap \in Int, NEW e \in Verdicts
    PROVE  Coverage(gap, e) \in Int /\ e.rate \in Int
  BY DEF Coverage, Least, Verdicts

LEMMA ProductFacts ==
    ASSUME NEW evaluated \in Seq(Verdicts), NEW priority \in Seq(STRING), NEW gap \in Int
    PROVE  /\ \A k \in Products(evaluated, priority) :
                /\ k \in Int
                /\ Product(evaluated, priority, k) \in Usable(evaluated)
                /\ Product(evaluated, priority, k) \in Verdicts
                /\ Product(evaluated, priority, k).id = priority[k]
                /\ Coverage(gap, Product(evaluated, priority, k)) \in Int
                /\ Product(evaluated, priority, k).rate \in Int
           /\ IsFiniteSet(Products(evaluated, priority))
           /\ StrictOrder(Products(evaluated, priority), Preference(evaluated, priority, gap))
           /\ \A k, l \in Products(evaluated, priority) :
                <<k, l>> \in Preference(evaluated, priority, gap) <=>
                  LET e == Product(evaluated, priority, k)
                      f == Product(evaluated, priority, l)
                  IN  \/ Coverage(gap, e) > Coverage(gap, f)
                      \/ Coverage(gap, e) = Coverage(gap, f) /\ e.rate < f.rate
                      \/ Coverage(gap, e) = Coverage(gap, f) /\ e.rate = f.rate /\ k < l
<1> DEFINE D == Products(evaluated, priority)
           P(k) == Product(evaluated, priority, k)
           a == [k \in D |-> -Coverage(gap, P(k))]
           b == [k \in D |-> P(k).rate]
<1>1. D \in SUBSET DOMAIN priority /\ DOMAIN priority = 1 .. Len(priority) /\ Len(priority) \in Nat
      /\ IsFiniteSet(DOMAIN priority)
  BY Positions DEF Products
<1>2. IsFiniteSet(D)
  BY <1>1, FS_Subset
<1>3. \A e \in Usable(evaluated) : e \in Verdicts
  BY DEF Usable
<1>4. \A k \in D : P(k) \in Usable(evaluated) /\ P(k).id = priority[k]
  BY DEF Products, Product
<1> HIDE DEF D, P
<1>5. \A k \in D : k \in Int /\ P(k) \in Verdicts
  BY <1>1, <1>3, <1>4
<1>6. \A k \in D : Coverage(gap, P(k)) \in Int /\ P(k).rate \in Int
  BY <1>5, CoverageType
<1>7. \A k \in D : a[k] \in Int /\ b[k] \in Int
  BY <1>6
<1> HIDE DEF a, b
<1>8. StrictOrder(D, Lex(D, a, b))
  BY <1>5, <1>7, LexOrderOf
<1>9. Preference(evaluated, priority, gap) = Lex(D, a, b)
  BY DEF Preference, D, a, b, P
<1>10. \A k, l \in D : <<k, l>> \in Lex(D, a, b) <=>
         \/ a[k] < a[l]
         \/ a[k] = a[l] /\ b[k] < b[l]
         \/ a[k] = a[l] /\ b[k] = b[l] /\ k < l
  BY DEF Lex
<1>11. \A k \in D : a[k] = -Coverage(gap, P(k)) /\ b[k] = P(k).rate
  BY DEF a, b
<1>12. ASSUME NEW k \in D, NEW l \in D
       PROVE  <<k, l>> \in Lex(D, a, b) <=>
                \/ Coverage(gap, P(k)) > Coverage(gap, P(l))
                \/ Coverage(gap, P(k)) = Coverage(gap, P(l)) /\ P(k).rate < P(l).rate
                \/ Coverage(gap, P(k)) = Coverage(gap, P(l)) /\ P(k).rate = P(l).rate /\ k < l
  BY <1>6, <1>10, <1>11
<1> QED
  BY <1>2, <1>4, <1>5, <1>6, <1>8, <1>9, <1>12 DEF D, P

LEMMA LoanOption ==
    ASSUME NEW evaluated \in Seq(Verdicts), NEW priority \in Seq(STRING),
           NEW deposit \in Int, NEW assets \in Int
    PROVE  \/ /\ Products(evaluated, priority) = {}
              /\ loan_option(evaluated, priority, deposit, assets) = NoLoan
           \/ \E m : /\ First(m, Products(evaluated, priority),
                              Preference(evaluated, priority, Gap(deposit, assets)))
                     /\ loan_option(evaluated, priority, deposit, assets)
                          = LoanOf(Product(evaluated, priority, m))
<1> DEFINE D == Products(evaluated, priority)
           P(k) == Product(evaluated, priority, k)
           gap == Gap(deposit, assets)
           R == Preference(evaluated, priority, gap)
           Beats(x, y) == Coverage(gap, x) > Coverage(gap, y)
                            \/ (Coverage(gap, x) = Coverage(gap, y) /\ x.rate < y.rate)
           i == CHOOSE k \in D : \A l \in D \ {k} : IF l < k THEN Beats(P(k), P(l)) ELSE ~Beats(P(l), P(k))
           loan == loan_option(evaluated, priority, deposit, assets)
<1>1. loan = IF D = {} THEN NoLoan ELSE LoanOf(P(i))
  BY DEF loan_option, FirstBest, NoLoan, Usable, Products, Product, Gap, Coverage, LoanOf
<1>2. gap \in Int
  BY DEF Gap, safe_int, Most
<1> HIDE DEF gap
<1>3. /\ \A k \in D : /\ k \in Int /\ Coverage(gap, P(k)) \in Int /\ P(k).rate \in Int
      /\ IsFiniteSet(D) /\ StrictOrder(D, R)
      /\ \A k, l \in D : <<k, l>> \in R <=>
            \/ Coverage(gap, P(k)) > Coverage(gap, P(l))
            \/ Coverage(gap, P(k)) = Coverage(gap, P(l)) /\ P(k).rate < P(l).rate
            \/ Coverage(gap, P(k)) = Coverage(gap, P(l)) /\ P(k).rate = P(l).rate /\ k < l
  BY <1>2, ProductFacts
<1> HIDE DEF D, P, R, loan
<1>4. ASSUME NEW k \in D, NEW l \in D, k # l
      PROVE  (IF l < k THEN Beats(P(k), P(l)) ELSE ~Beats(P(l), P(k))) <=> <<k, l>> \in R
  BY <1>3, <1>4
<1> HIDE DEF Beats
<1>5. CASE D = {}
  BY <1>1, <1>5 DEF loan, D
<1>6. CASE D # {}
  <2>1. PICK m : First(m, D, R)
    BY <1>3, <1>6, ThereIsAFirst
  <2>2. m \in D /\ \A l \in D \ {m} : IF l < m THEN Beats(P(m), P(l)) ELSE ~Beats(P(l), P(m))
    BY <1>4, <2>1 DEF First
  <2>3. i \in D /\ \A l \in D \ {i} : IF l < i THEN Beats(P(i), P(l)) ELSE ~Beats(P(l), P(i))
    BY <2>2
  <2> HIDE DEF i
  <2>4. First(i, D, R)
    BY <1>4, <2>3 DEF First
  <2>5. loan = LoanOf(P(i))
    BY <1>1, <1>6
  <2> QED
    BY <2>4, <2>5 DEF loan, D, P, R, gap
<1> QED
  BY <1>5, <1>6

-----------------------------------------------------------------------------
(***************************************************************************)
(* E3: the numbers of a scenario.                                          *)
(***************************************************************************)
Bounds == {row.upTo : row \in K.rateTable} \ {K.noBound}
Fitting(deposit) == {b \in Bounds : deposit <= b}
Bracket(deposit) ==
    IF Fitting(deposit) = {} THEN K.noBound
    ELSE CHOOSE b \in Fitting(deposit) : \A other \in Fitting(deposit) : b <= other
Cells(deposit) == {row.rate : row \in {r \in K.rateTable : r.upTo = Bracket(deposit)}}

LEMMA RateTable ==
    /\ IsFiniteSet(K.rateTable)
    /\ \A row \in K.rateTable : row.upTo \in Int /\ row.rate \in Nat
    /\ \E row \in K.rateTable : row.upTo = K.noBound
<1>1. /\ IsFiniteSet(K.rateTable) /\ K.rateTable \subseteq [upTo : Int, rate : Nat]
      /\ \E row \in K.rateTable : row.upTo = K.noBound
  BY ConstantsAssumption
<1> QED
  BY <1>1

LEMMA FiniteFields ==
    ASSUME NEW S, IsFiniteSet(S)
    PROVE  IsFiniteSet({x.upTo : x \in S}) /\ IsFiniteSet({x.rate : x \in S})
<1> DEFINE T == {x.upTo : x \in S}
           U == {x.rate : x \in S}
<1>1. [x \in S |-> x.upTo] \in Surjection(S, T) /\ [x \in S |-> x.rate] \in Surjection(S, U)
  BY DEF Surjection
<1> HIDE DEF T, U
<1>2. IsFiniteSet(T) /\ IsFiniteSet(U)
  BY <1>1, FS_Surjection
<1> QED
  BY <1>2 DEF T, U

LEMMA RateCells ==
    ASSUME NEW deposit \in Int
    PROVE  /\ IsFiniteSet(Cells(deposit)) /\ Cells(deposit) # {} /\ \A rate \in Cells(deposit) : rate \in Nat
           /\ IsFiniteSet(Fitting(deposit)) /\ \A b \in Fitting(deposit) : b \in Int
<1>1. IsFiniteSet({row.upTo : row \in K.rateTable})
  BY RateTable, FiniteFields
<1>2. Fitting(deposit) \in SUBSET {row.upTo : row \in K.rateTable}
  BY DEF Fitting, Bounds
<1>3. IsFiniteSet(Fitting(deposit))
  BY <1>1, <1>2, FS_Subset
<1>4. \A b \in Fitting(deposit) : b \in Int
  BY <1>2, RateTable
<1>5. \E row \in K.rateTable : row.upTo = Bracket(deposit)
  <2>1. CASE Fitting(deposit) = {}
    BY <2>1, RateTable DEF Bracket
  <2>2. CASE Fitting(deposit) # {}
    <3>1. \E b \in Fitting(deposit) : \A other \in Fitting(deposit) : b <= other
      BY <1>3, <1>4, <2>2, Extremes
    <3>2. Bracket(deposit) \in Fitting(deposit)
      BY <2>2, <3>1 DEF Bracket
    <3> QED
      BY <1>2, <3>2
  <2> QED
    BY <2>1, <2>2
<1> DEFINE rows == {r \in K.rateTable : r.upTo = Bracket(deposit)}
<1>6. IsFiniteSet(rows) /\ rows # {} /\ \A r \in rows : r.rate \in Nat
  <2>1. rows \in SUBSET K.rateTable
    OBVIOUS
  <2> QED
    BY <1>5, <2>1, RateTable, FS_Subset
<1>7. Cells(deposit) = {r.rate : r \in rows}
  BY DEF Cells
<1> HIDE DEF rows
<1>8. IsFiniteSet({r.rate : r \in rows})
  BY <1>6, FiniteFields
<1> QED
  BY <1>3, <1>4, <1>6, <1>7, <1>8

LEMMA GuaranteeRate == ASSUME NEW deposit \in Int PROVE guarantee_rate_pct_for(deposit) \in Nat
<1>1. guarantee_rate_pct_for(deposit)
        = CHOOSE rate \in Cells(deposit) : \A other \in Cells(deposit) : rate >= other
  BY DEF guarantee_rate_pct_for, Cells, Bracket, Fitting, Bounds
<1>2. \E rate \in Cells(deposit) : \A other \in Cells(deposit) : rate >= other
  <2>1. /\ IsFiniteSet(Cells(deposit)) /\ Cells(deposit) # {}
        /\ \A rate \in Cells(deposit) : rate \in Int
    BY RateCells
  <2> QED
    BY <2>1, Extremes
<1> QED
  BY <1>1, <1>2, RateCells

Costs(n, hundredths) == round(n * hundredths * K.years, 10000)
Fee(deposit) == round(deposit * guarantee_rate_pct_for(deposit) * K.years, 100000)

LEMMA CostType ==
    ASSUME NEW n \in Nat, NEW h \in Nat
    PROVE  Costs(n, h) \in Nat
<1> DEFINE q == n * h
<1>1. q \in Nat
  OBVIOUS
<1> HIDE DEF q
<1>2. q * K.years \in Nat
  BY <1>1, Amounts
<1>3. round(q * K.years, 10000) \in Nat
  BY <1>2, RoundFacts
<1> QED
  BY <1>3 DEF Costs, q

LEMMA FeeType ==
    ASSUME NEW n \in Nat
    PROVE  Fee(n) \in Nat
<1> DEFINE h == guarantee_rate_pct_for(n)
           q == n * h
<1>1. h \in Nat
  BY GuaranteeRate
<1> HIDE DEF h
<1>2. q \in Nat
  BY <1>1
<1> HIDE DEF q
<1>3. q * K.years \in Nat
  BY <1>2, Amounts
<1>4. round(q * K.years, 100000) \in Nat
  BY <1>3, RoundFacts
<1> QED
  BY <1>4 DEF Fee, q, h

LEMMA AffordScoreType ==
    ASSUME NEW monthly \in Nat, NEW recommended \in Nat
    PROVE  afford_score(monthly, recommended) \in Int
<1>1. K.affordWeight \in Nat /\ K.overrunSlope \in Nat
  BY ConstantsAssumption
<1> DEFINE overrun == 100 * K.overrunSlope * (monthly - recommended)
<1>2. overrun \in Int
  BY <1>1
<1> HIDE DEF overrun
<1>3. recommended # 0 => overrun \div recommended \in Int
  BY <1>2, Quotient
<1>4. afford_score(monthly, recommended) =
        IF recommended = 0 THEN 0
        ELSE IF monthly <= recommended THEN 100 * K.affordWeight
        ELSE Most(0, 100 * K.affordWeight - (overrun \div recommended))
  BY DEF afford_score, overrun
<1> QED
  BY <1>1, <1>3, <1>4 DEF Most

CapitalScore(own, assets) ==
    IF own = 0 THEN 100 * K.capitalWeight
    ELSE 100 * K.capitalWeight - ((100 * K.capitalWeight * Most(0, own - assets)) \div own)

LEMMA CapitalScoreType ==
    ASSUME NEW own \in Nat, NEW assets \in Int
    PROVE  CapitalScore(own, assets) \in Int
<1>1. K.capitalWeight \in Nat
  BY ConstantsAssumption
<1> DEFINE lack == 100 * K.capitalWeight * Most(0, own - assets)
<1>2. lack \in Int
  BY <1>1 DEF Most
<1> HIDE DEF lack
<1>3. own # 0 => lack \div own \in Int
  BY <1>2, Quotient
<1>4. CapitalScore(own, assets) =
        IF own = 0 THEN 100 * K.capitalWeight ELSE 100 * K.capitalWeight - (lack \div own)
  BY DEF CapitalScore, lack
<1> QED
  BY <1>1, <1>3, <1>4

(***************************************************************************)
(* A way of housing the household, the scenario made of it.                *)
(***************************************************************************)
Ways(s) == {s.deposit, s.rent, s.loan, s.rate} \subseteq Nat

Scenario(e, s, maintenance, afford, guarantee, cap) ==
    /\ e.id = s.id /\ e.type = s.type /\ e.product = s.product
    /\ e.deposit = s.deposit /\ e.rent = s.rent /\ e.rate = s.rate
    /\ e.loan = Least(s.loan, s.deposit)
    /\ e.cost.insurance = IF guarantee /\ 0 < s.deposit /\ s.deposit <= cap THEN Fee(s.deposit) ELSE 0
    /\ e.monthly \in Nat /\ e.fit \in Int
    /\ e.verdict # "unaffordable" =>
          afford.max # 0 /\ (e.monthly <= afford.recommended \/ e.monthly <= afford.max)

LEMMA ScenarioFacts ==
    ASSUME NEW s, Ways(s), NEW maintenance \in Nat, NEW assets \in Nat, NEW afford \in AffordType,
           NEW preferred, NEW guarantee, NEW cap \in Nat
    PROVE  Scenario(evaluate_scenario(s, maintenance, assets, afford, preferred, guarantee, cap),
                    s, maintenance, afford, guarantee, cap)
<1> DEFINE months    == 12 * K.years
           loan      == Least(s.loan, s.deposit)
           own       == s.deposit - loan
           insured   == guarantee /\ 0 < s.deposit /\ s.deposit <= cap
           cost      == [interest    |-> Costs(loan, s.rate),
                         rent        |-> s.rent * months,
                         maintenance |-> maintenance * months,
                         opportunity |-> Costs(own, K.opportunity),
                         insurance   |-> IF insured THEN Fee(s.deposit) ELSE 0]
           tco       == cost.interest + cost.rent + cost.maintenance + cost.opportunity + cost.insurance
           monthly   == floor_to(tco \div months, K.monthlyUnit)
           npv       == round(tco * K.annuity, 10 * months)
           verdict   == IF afford.max = 0 THEN "unaffordable"
                        ELSE IF monthly <= afford.recommended THEN "affordable"
                        ELSE IF monthly <= afford.max THEN "stretch" ELSE "unaffordable"
           score     == afford_score(monthly, afford.recommended)
           capital   == CapitalScore(own, assets)
           prefer    == 100 * (IF preferred \in {"any", s.type} THEN K.preferMatch ELSE K.preferMismatch)
           fit       == Least(100, round(score + capital + prefer, 100))
           schwabe   == IF afford.netIncome > 0 THEN round(1000 * monthly, afford.netIncome) ELSE -1
           e         == evaluate_scenario(s, maintenance, assets, afford, preferred, guarantee, cap)
<1>1. e = [id |-> s.id, type |-> s.type, product |-> s.product, deposit |-> s.deposit, rent |-> s.rent,
           loan |-> loan, rate |-> s.rate, cost |-> cost, tco |-> tco, monthly |-> monthly,
           npv |-> npv, verdict |-> verdict, fit |-> fit, schwabe |-> schwabe]
  BY DEF evaluate_scenario, Costs, Fee, CapitalScore
<1> HIDE DEF e, npv
<1>2. s.deposit \in Nat /\ s.rent \in Nat /\ s.loan \in Nat /\ s.rate \in Nat
  BY DEF Ways
<1>3. loan \in Nat /\ own \in Nat
  BY <1>2 DEF Least
<1>4. months \in Nat /\ months # 0
  BY Amounts
<1> HIDE DEF loan, own, months, insured
<1>5. /\ Costs(loan, s.rate) \in Nat /\ Costs(own, K.opportunity) \in Nat /\ Fee(s.deposit) \in Nat
      /\ s.rent * months \in Nat /\ maintenance * months \in Nat
  <2>1. K.opportunity \in Nat
    BY ConstantsAssumption
  <2> QED
    <3>1. Costs(loan, s.rate) \in Nat
      BY <1>2, <1>3, CostType
    <3>2. Costs(own, K.opportunity) \in Nat
      BY <1>3, <2>1, CostType
    <3>3. Fee(s.deposit) \in Nat
      BY <1>2, FeeType
    <3>4. s.rent * months \in Nat /\ maintenance * months \in Nat
      BY <1>2, <1>4
    <3> QED
      BY <3>1, <3>2, <3>3, <3>4
<1>6. tco \in Nat
  <2>1. /\ cost.interest = Costs(loan, s.rate) /\ cost.rent = s.rent * months
        /\ cost.maintenance = maintenance * months /\ cost.opportunity = Costs(own, K.opportunity)
        /\ cost.insurance = IF insured THEN Fee(s.deposit) ELSE 0
    OBVIOUS
  <2>2. /\ cost.interest \in Nat /\ cost.rent \in Nat /\ cost.maintenance \in Nat
        /\ cost.opportunity \in Nat /\ cost.insurance \in Nat
    BY <1>5, <2>1
  <2> HIDE DEF cost
  <2> QED
    BY <2>2
<1>7. cost.insurance = IF insured THEN Fee(s.deposit) ELSE 0
  OBVIOUS
<1> HIDE DEF tco, cost
<1>8. monthly \in Nat
  <2>1. tco \div months \in Int
    BY <1>4, <1>6, Quotient
  <2> QED
    BY <2>1, Amounts, FloorFacts
<1>9. afford.max \in Nat /\ afford.recommended \in Nat
  BY DEF AffordType
<1> HIDE DEF monthly
<1>10. verdict # "unaffordable" => afford.max # 0 /\ (monthly <= afford.recommended \/ monthly <= afford.max)
  OBVIOUS
<1> HIDE DEF verdict
<1>11. fit \in Int
  <2>1. score \in Int /\ capital \in Int
    BY <1>3, <1>8, <1>9, AffordScoreType, CapitalScoreType
  <2>2. prefer \in Int
    <3>1. K.preferMatch \in Nat /\ K.preferMismatch \in Nat
      BY ConstantsAssumption
    <3> QED
      BY <3>1
  <2> DEFINE sum == score + capital + prefer
  <2>3. sum \in Int
    BY <2>1, <2>2
  <2> HIDE DEF sum
  <2>4. round(sum, 100) \in Int
    BY <2>3, RoundFacts
  <2>5. fit = Least(100, round(sum, 100))
    BY DEF sum
  <2> QED
    BY <2>4, <2>5 DEF Least
<1> HIDE DEF fit, schwabe
<1>12. /\ e.id = s.id /\ e.type = s.type /\ e.product = s.product
       /\ e.deposit = s.deposit /\ e.rent = s.rent /\ e.rate = s.rate
       /\ e.loan = loan /\ e.cost = cost /\ e.monthly = monthly /\ e.fit = fit /\ e.verdict = verdict
  BY <1>1
<1> QED
  BY <1>7, <1>8, <1>10, <1>11, <1>12 DEF Scenario, loan, insured, e

-----------------------------------------------------------------------------
(***************************************************************************)
(* The four ways of housing a household in a region, and their ranking.    *)
(***************************************************************************)
Conversion(region) == IF region.conversion = 0 THEN K.conversion ELSE region.conversion
AsRent(region, amount) == floor_to((amount * Conversion(region)) \div 120000, K.monthlyUnit)
RateOf(product) == IF product.rate = 0 THEN K.jeonseRate ELSE product.rate
JeonseCap(region, jeonse) == IF jeonse = NoLoan THEN (region.jeonse * K.ltv) \div 100 ELSE jeonse.max
SemiDeposit(region) == floor_to((region.jeonse * K.semiShare) \div 100, K.depositUnit)
LowDeposit(region) == Least(K.lowDeposit, region.deposit)

Way(id, type, deposit, rent, loan, rate, product) ==
    [id |-> id, type |-> type, deposit |-> deposit, rent |-> rent, loan |-> loan, rate |-> rate,
     product |-> product]

JeonseWay(region, assets, jeonse) ==
    Way("jeonse_loan", "jeonse", region.jeonse, 0,
        size_loan(region.jeonse, assets, JeonseCap(region, jeonse)), RateOf(jeonse), jeonse.name)
SemiWay(region, assets, jeonse) ==
    Way("semi_jeonse", "monthly", SemiDeposit(region), AsRent(region, region.jeonse - SemiDeposit(region)),
        size_loan(SemiDeposit(region), assets, JeonseCap(region, jeonse)), RateOf(jeonse), jeonse.name)
StandardWay(region, assets, standard) ==
    Way("monthly_standard", "monthly", region.deposit, region.rent,
        size_loan(region.deposit, assets, standard.max), RateOf(standard), standard.name)
LowWay(region) ==
    Way("monthly_low_deposit", "monthly", LowDeposit(region),
        region.rent + AsRent(region, region.deposit - LowDeposit(region)), 0, 0, "none")

FourWays(region, assets, jeonse, standard) ==
    <<JeonseWay(region, assets, jeonse), SemiWay(region, assets, jeonse),
      StandardWay(region, assets, standard), LowWay(region)>>

Evaluation(s, region, assets, afford, preferred, cap) ==
    evaluate_scenario(s, region.maintenance, assets, afford, preferred, region.guarantee, cap)

WaysOf(region, assets, afford, jeonse, standard, preferred, cap) ==
    <<Evaluation(JeonseWay(region, assets, jeonse), region, assets, afford, preferred, cap),
      Evaluation(SemiWay(region, assets, jeonse), region, assets, afford, preferred, cap),
      Evaluation(StandardWay(region, assets, standard), region, assets, afford, preferred, cap),
      Evaluation(LowWay(region), region, assets, afford, preferred, cap)>>

Fits(list) == [i \in DOMAIN list |-> -list[i].fit]
Prices(list) == [i \in DOMAIN list |-> list[i].monthly]
ByFit(list) == Lex(DOMAIN list, Fits(list), Prices(list))

HasFit(list) == \A i \in DOMAIN list : list[i].fit \in Int /\ list[i].monthly \in Int

LEMMA ServerSortsWays ==
    ASSUME NEW region, NEW assets, NEW afford, NEW jeonse, NEW standard, NEW preferred, NEW cap,
           HasFit(WaysOf(region, assets, afford, jeonse, standard, preferred, cap))
    PROVE  LET list == WaysOf(region, assets, afford, jeonse, standard, preferred, cap)
           IN  build_scenarios(region, assets, afford, jeonse, standard, preferred, cap)
                 = Sorted(list, ByFit(list))
<1> DEFINE list == WaysOf(region, assets, afford, jeonse, standard, preferred, cap)
           D == DOMAIN list
           R == ByFit(list)
           Bef(i, j) == list[i].fit > list[j].fit
                          \/ (list[i].fit = list[j].fit /\ list[i].monthly < list[j].monthly)
           Ahead(i, j) == Bef(i, j) \/ (i < j /\ ~Bef(j, i))
           place(i) == 1 + Cardinality({j \in D \ {i} : Ahead(j, i)})
           t == [k \in D |-> list[CHOOSE i \in D : place(i) = k]]
<1>1. build_scenarios(region, assets, afford, jeonse, standard, preferred, cap) = t
  BY DEF build_scenarios, StableSort, WaysOf, Evaluation, JeonseWay, SemiWay, StandardWay, LowWay, Way,
         Conversion, AsRent, RateOf, JeonseCap, SemiDeposit, LowDeposit
<1>2. \E S : list \in Seq(S)
  <2> DEFINE e1 == Evaluation(JeonseWay(region, assets, jeonse), region, assets, afford, preferred, cap)
             e2 == Evaluation(SemiWay(region, assets, jeonse), region, assets, afford, preferred, cap)
             e3 == Evaluation(StandardWay(region, assets, standard), region, assets, afford, preferred, cap)
             e4 == Evaluation(LowWay(region), region, assets, afford, preferred, cap)
  <2>1. list = <<e1, e2, e3, e4>>
    BY DEF WaysOf
  <2> HIDE DEF list, e1, e2, e3, e4
  <2>2. list \in Seq({e1, e2, e3, e4})
    BY <2>1
  <2> QED
    BY <2>2
<1> HIDE DEF list, Bef, Ahead, place, t, R
<1>3. DOMAIN list = 1 .. Len(list) /\ Len(list) \in Nat /\ IsFiniteSet(D) /\ Cardinality(D) = Len(list)
  BY <1>2, Positions
<1>4. \A i \in D : list[i].fit \in Int /\ list[i].monthly \in Int
  BY DEF HasFit, list
<1>5. \A i \in D : i \in Int /\ Fits(list)[i] = -list[i].fit /\ Prices(list)[i] = list[i].monthly
  BY <1>3 DEF Fits, Prices
<1>6. StrictOrder(D, R)
  <2>1. \A i \in D : Fits(list)[i] \in Int /\ Prices(list)[i] \in Int
    BY <1>4, <1>5
  <2> QED
    BY <1>5, <2>1, LexOrderOf DEF ByFit, R
<1>7. \A i, j \in D : <<i, j>> \in R <=>
        \/ -list[i].fit < -list[j].fit
        \/ -list[i].fit = -list[j].fit /\ list[i].monthly < list[j].monthly
        \/ -list[i].fit = -list[j].fit /\ list[i].monthly = list[j].monthly /\ i < j
  BY <1>5 DEF ByFit, Lex, R
<1>8. \A i, j \in D : i # j => (Ahead(i, j) <=> <<i, j>> \in R)
  <2> SUFFICES ASSUME NEW i \in D, NEW j \in D, i # j PROVE Ahead(i, j) <=> <<i, j>> \in R
    OBVIOUS
  <2>1. i \in Int /\ j \in Int
    BY <1>5
  <2> DEFINE x == list[i].fit
             y == list[j].fit
             m == list[i].monthly
             n == list[j].monthly
  <2>2. x \in Int /\ y \in Int /\ m \in Int /\ n \in Int
    BY <1>4
  <2>3. <<i, j>> \in R <=> (-x < -y) \/ (-x = -y /\ m < n) \/ (-x = -y /\ m = n /\ i < j)
    BY <1>7
  <2>4. /\ Bef(i, j) <=> (x > y) \/ (x = y /\ m < n)
        /\ Bef(j, i) <=> (y > x) \/ (y = x /\ n < m)
    BY DEF Bef
  <2>5. Ahead(i, j) <=> Bef(i, j) \/ (i < j /\ ~Bef(j, i))
    BY DEF Ahead
  <2> HIDE DEF x, y, m, n
  <2> QED
    BY <2>1, <2>2, <2>3, <2>4, <2>5
<1>9. \A i \in D : {j \in D \ {i} : Ahead(j, i)} = Below(D, R, i)
  <2>1. \A i \in D : <<i, i>> \notin R
    BY <1>6 DEF StrictOrder
  <2> HIDE DEF D
  <2> QED
    BY <1>8, <2>1 DEF Below
<1>10. /\ \A k \in 1 .. Cardinality(D) : \E i \in D : Cardinality(Below(D, R, i)) = k - 1
       /\ \A i \in D : Cardinality(Below(D, R, i)) \in 0 .. Cardinality(D) - 1
  <2> HIDE DEF D
  <2> QED
    BY <1>3, <1>6, Ranks
<1>11. /\ \A k \in D : \E i \in D : Cardinality(Below(D, R, i)) = k - 1
       /\ \A i \in D : Cardinality(Below(D, R, i)) \in Int
  BY <1>3, <1>10
<1>12. \A i \in D : place(i) = 1 + Cardinality(Below(D, R, i))
  BY <1>9 DEF place
<1>13. \A k \in D : \E i \in D : place(i) = k
  BY <1>5, <1>11, <1>12
<1>14. \A k \in D : \E i \in D : t[k] = list[i] /\ place(i) = k
  BY <1>13 DEF t
<1>15. \A i \in D, k \in D : place(i) = k => Cardinality(Below(D, R, i)) = k - 1
  BY <1>5, <1>11, <1>12
<1>16. InOrder(t, list, R)
  BY <1>14, <1>15 DEF InOrder, t
<1>17. \A k \in D : t[k] = Sorted(list, R)[k]
  <2>1. PICK S : list \in Seq(S)
    BY <1>2
  <2> QED
    BY <2>1, <1>6, <1>16, SamePlace
<1>18. t = Sorted(list, R)
  BY <1>17 DEF Sorted, t
<1> QED
  BY <1>1, <1>18 DEF list, R

LEMMA RegionNumbers ==
    ASSUME NEW r, RegionOK(r)
    PROVE  /\ r.jeonse \in Nat /\ r.deposit \in Nat /\ r.rent \in Nat /\ r.maintenance \in Nat
           /\ r.ratio \in Nat /\ r.conversion \in Nat
           /\ r.metro \in BOOLEAN /\ r.guarantee \in BOOLEAN
  BY DEF RegionOK

LEMMA CapType == ASSUME NEW r PROVE guarantee_deposit_cap_for(r) \in Nat /\ guarantee_deposit_cap_for(r) # 0
  BY Amounts DEF guarantee_deposit_cap_for

(* What is borrowed: a part of the deposit, within the cap. *)
LEMMA LoanSize ==
    ASSUME NEW deposit \in Nat, NEW assets \in Nat, NEW cap \in Nat
    PROVE  /\ size_loan(deposit, assets, cap) \in Nat
           /\ 100 * size_loan(deposit, assets, cap) <= K.ltv * deposit
           /\ size_loan(deposit, assets, cap) <= cap
<1> DEFINE share == (deposit * K.ltv) \div 100
           needed == Most(0, deposit - assets)
           loan == Least(needed, Least(share, cap))
<1>1. safe_int(deposit) = deposit /\ safe_int(assets) = assets /\ safe_int(cap) = cap
  BY DEF safe_int, Most
<1>2. share \in Nat /\ 100 * share <= K.ltv * deposit
  BY Amounts, Share
<1>3. size_loan(deposit, assets, cap) = floor_to(loan, K.depositUnit)
  BY <1>1 DEF size_loan
<1> HIDE DEF share
<1>4. loan \in Nat /\ loan <= share /\ loan <= cap
  BY <1>2 DEF Least, Most
<1> HIDE DEF loan
<1>5. floor_to(loan, K.depositUnit) \in Nat /\ floor_to(loan, K.depositUnit) <= loan
  <2>1. K.depositUnit \in Nat /\ K.depositUnit # 0
    BY Amounts
  <2>2. loan \in Int /\ loan >= 0
    BY <1>4
  <2> QED
    BY <2>1, <2>2, FloorFacts
<1> DEFINE size == floor_to(loan, K.depositUnit)
           part == K.ltv * deposit
<1>6. part \in Nat
  BY Amounts
<1>7. size \in Nat /\ size <= loan /\ 100 * share <= part
  BY <1>2, <1>5
<1> HIDE DEF size, part
<1>8. 100 * size <= part /\ size <= cap
  BY <1>2, <1>4, <1>6, <1>7
<1> QED
  BY <1>3, <1>7, <1>8 DEF size, part

Loan == [name : STRING \union {"none"}, max : Nat, rate : Nat]

LEMMA LoanType ==
    ASSUME NEW evaluated \in Seq(Verdicts), NEW priority \in Seq(STRING),
           NEW deposit \in Int, NEW assets \in Int
    PROVE  loan_option(evaluated, priority, deposit, assets) \in Loan
<1>1. NoLoan \in Loan
  BY DEF NoLoan, Loan
<1>2. \A e \in Verdicts : LoanOf(e) \in Loan
  BY DEF Verdicts, LoanOf, Loan
<1>3. CASE loan_option(evaluated, priority, deposit, assets) = NoLoan
  BY <1>1, <1>3
<1>4. ASSUME NEW m \in Products(evaluated, priority),
             loan_option(evaluated, priority, deposit, assets) = LoanOf(Product(evaluated, priority, m))
      PROVE  loan_option(evaluated, priority, deposit, assets) \in Loan
  <2>1. Product(evaluated, priority, m) \in Verdicts
    <3>1. 0 \in Int
      OBVIOUS
    <3> QED
      BY <3>1, ProductFacts
  <2> QED
    BY <1>2, <1>4, <2>1
<1> QED
  BY <1>3, <1>4, LoanOption DEF First

LEMMA WayTypes ==
    ASSUME NEW region, RegionOK(region), NEW assets \in Nat, NEW jeonse \in Loan, NEW standard \in Loan
    PROVE  /\ Ways(JeonseWay(region, assets, jeonse)) /\ Ways(SemiWay(region, assets, jeonse))
           /\ Ways(StandardWay(region, assets, standard)) /\ Ways(LowWay(region))
           /\ JeonseCap(region, jeonse) \in Nat /\ SemiDeposit(region) \in Nat /\ LowDeposit(region) \in Nat
<1>1. /\ region.jeonse \in Nat /\ region.deposit \in Nat /\ region.rent \in Nat /\ region.conversion \in Nat
  BY RegionNumbers
<1>2. /\ K.conversion \in Nat /\ K.jeonseRate \in Nat /\ K.semiShare \in Nat /\ K.lowDeposit \in Nat
  BY ConstantsAssumption
<1>3. jeonse.max \in Nat /\ jeonse.rate \in Nat /\ standard.max \in Nat /\ standard.rate \in Nat
  BY DEF Loan
<1>4. JeonseCap(region, jeonse) \in Nat
  <2>1. (region.jeonse * K.ltv) \div 100 \in Nat
    BY <1>1, Amounts, Share
  <2> QED
    BY <1>3, <2>1 DEF JeonseCap
<1>5. SemiDeposit(region) \in Nat
  <2>1. region.jeonse * K.semiShare \in Int
    BY <1>1, <1>2
  <2>2. (region.jeonse * K.semiShare) \div 100 \in Int
    BY <2>1, Quotient
  <2> QED
    BY <2>2, Amounts, FloorFacts DEF SemiDeposit
<1>6. LowDeposit(region) \in Nat
  BY <1>1, <1>2 DEF LowDeposit, Least
<1>7. ASSUME NEW amount \in Int PROVE AsRent(region, amount) \in Nat
  <2>1. Conversion(region) \in Nat
    BY <1>1, <1>2 DEF Conversion
  <2>2. amount * Conversion(region) \in Int
    BY <2>1
  <2>3. (amount * Conversion(region)) \div 120000 \in Int
    BY <2>2, Quotient
  <2>4. K.monthlyUnit \in Nat /\ K.monthlyUnit # 0
    BY Amounts
  <2>5. floor_to((amount * Conversion(region)) \div 120000, K.monthlyUnit) \in Nat
    BY <2>3, <2>4, FloorFacts
  <2> QED
    BY <2>5 DEF AsRent
<1>8. RateOf(jeonse) \in Nat /\ RateOf(standard) \in Nat
  BY <1>2, <1>3 DEF RateOf
<1>9. Ways(JeonseWay(region, assets, jeonse))
  <2>1. size_loan(region.jeonse, assets, JeonseCap(region, jeonse)) \in Nat
    BY <1>1, <1>4, LoanSize
  <2> QED
    BY <1>1, <1>8, <2>1 DEF Ways, JeonseWay, Way
<1>10. Ways(SemiWay(region, assets, jeonse))
  <2>1. size_loan(SemiDeposit(region), assets, JeonseCap(region, jeonse)) \in Nat
    BY <1>4, <1>5, LoanSize
  <2>2. AsRent(region, region.jeonse - SemiDeposit(region)) \in Nat
    BY <1>1, <1>5, <1>7
  <2> QED
    BY <1>5, <1>8, <2>1, <2>2 DEF Ways, SemiWay, Way
<1>11. Ways(StandardWay(region, assets, standard))
  <2>1. size_loan(region.deposit, assets, standard.max) \in Nat
    BY <1>1, <1>3, LoanSize
  <2> QED
    BY <1>1, <1>8, <2>1 DEF Ways, StandardWay, Way
<1>12. Ways(LowWay(region))
  <2>1. AsRent(region, region.deposit - LowDeposit(region)) \in Nat
    BY <1>1, <1>6, <1>7
  <2>2. region.rent + AsRent(region, region.deposit - LowDeposit(region)) \in Nat
    BY <1>1, <2>1
  <2> QED
    BY <1>6, <2>2 DEF Ways, LowWay, Way
<1> QED
  BY <1>4, <1>5, <1>6, <1>9, <1>10, <1>11, <1>12

(***************************************************************************)
(* Every scenario of the answer is made of one of the four ways.           *)
(***************************************************************************)
LEMMA ScenariosBuilt ==
    ASSUME NEW region, RegionOK(region), NEW assets \in Nat, NEW afford \in AffordType,
           NEW jeonse \in Loan, NEW standard \in Loan, NEW preferred, NEW cap \in Nat
    PROVE  LET list == build_scenarios(region, assets, afford, jeonse, standard, preferred, cap)
           IN  /\ DOMAIN list = 1 .. 4
               /\ \A k \in 1 .. 4 : \E w \in {JeonseWay(region, assets, jeonse), SemiWay(region, assets, jeonse),
                                              StandardWay(region, assets, standard), LowWay(region)} :
                    Ways(w) /\ Scenario(list[k], w, region.maintenance, afford, region.guarantee, cap)
<1> DEFINE w1 == JeonseWay(region, assets, jeonse)
           w2 == SemiWay(region, assets, jeonse)
           w3 == StandardWay(region, assets, standard)
           w4 == LowWay(region)
           E(w) == Evaluation(w, region, assets, afford, preferred, cap)
           Fine(e, w) == Scenario(e, w, region.maintenance, afford, region.guarantee, cap)
           ways == WaysOf(region, assets, afford, jeonse, standard, preferred, cap)
           list == build_scenarios(region, assets, afford, jeonse, standard, preferred, cap)
<1>1. Ways(w1) /\ Ways(w2) /\ Ways(w3) /\ Ways(w4)
  BY WayTypes
<1>2. ways = <<E(w1), E(w2), E(w3), E(w4)>>
  BY DEF WaysOf
<1>3. \A w : Ways(w) => Fine(E(w), w)
  <2>1. region.maintenance \in Nat
    BY RegionNumbers
  <2> SUFFICES ASSUME NEW w, Ways(w) PROVE Fine(E(w), w)
    OBVIOUS
  <2> QED
    BY <2>1, ScenarioFacts DEF Evaluation
<1>4. \A e, w : Fine(e, w) => e.fit \in Int /\ e.monthly \in Int
  BY DEF Scenario
<1> HIDE DEF w1, w2, w3, w4, E, Fine
<1>5. Fine(E(w1), w1) /\ Fine(E(w2), w2) /\ Fine(E(w3), w3) /\ Fine(E(w4), w4)
  BY <1>1, <1>3
<1>6. DOMAIN ways = 1 .. 4 /\ Len(ways) = 4 /\ ways \in Seq({E(w1), E(w2), E(w3), E(w4)})
  <2> HIDE DEF ways
  <2> QED
    BY <1>2
<1>7. \A i \in 1 .. 4 : \E w \in {w1, w2, w3, w4} : ways[i] = E(w)
  <2> HIDE DEF ways
  <2> QED
    BY <1>2
<1>8. \A i \in 1 .. 4 : \E w \in {w1, w2, w3, w4} : Ways(w) /\ Fine(ways[i], w)
  BY <1>1, <1>5, <1>7
<1>9. \A i \in 1 .. 4 : ways[i].fit \in Int /\ ways[i].monthly \in Int
  BY <1>4, <1>8
<1> HIDE DEF ways, list
<1>10. HasFit(ways)
  BY <1>6, <1>9 DEF HasFit
<1>11. list = Sorted(ways, ByFit(ways))
  BY <1>10, ServerSortsWays DEF ways, list
<1>12. StrictOrder(DOMAIN ways, ByFit(ways))
  <2> DEFINE D == DOMAIN ways
             f == Fits(ways)
             g == Prices(ways)
  <2>1. \A i \in D : i \in Int
    BY <1>6
  <2>2. \A i \in D : f[i] = -ways[i].fit /\ g[i] = ways[i].monthly
    BY DEF Fits, Prices
  <2>3. \A i \in D : -ways[i].fit \in Int /\ ways[i].monthly \in Int
    BY <1>6, <1>9
  <2>4. \A i \in D : f[i] \in Int /\ g[i] \in Int
    BY <2>2, <2>3
  <2>5. ByFit(ways) = Lex(D, f, g)
    BY DEF ByFit
  <2> HIDE DEF D, f, g
  <2>6. StrictOrder(D, Lex(D, f, g))
    BY <2>1, <2>4, LexOrderOf
  <2> QED
    BY <2>5, <2>6 DEF D
<1>13. DOMAIN list = 1 .. 4 /\ \A k \in 1 .. 4 : \E i \in 1 .. 4 : list[k] = ways[i]
  <2> DEFINE order == ByFit(ways)
             elements == {E(w1), E(w2), E(w3), E(w4)}
             t == Sorted(ways, order)
  <2>1. ways \in Seq(elements) /\ StrictOrder(DOMAIN ways, order)
    BY <1>6, <1>12
  <2>2. list = t
    BY <1>11
  <2> HIDE DEF order, elements
  <2>3. /\ t \in Seq(elements) /\ DOMAIN t = DOMAIN ways
        /\ \A k \in DOMAIN ways : \E i \in DOMAIN ways : t[k] = ways[i]
        /\ \A i \in DOMAIN ways : \E k \in DOMAIN ways : t[k] = ways[i]
    BY <2>1, SortedFacts
  <2> HIDE DEF t
  <2> QED
    BY <1>6, <2>2, <2>3
<1>14. \A k \in 1 .. 4 : \E w \in {w1, w2, w3, w4} : Ways(w) /\ Fine(list[k], w)
  BY <1>8, <1>13
<1> QED
  BY <1>13, <1>14 DEF list, w1, w2, w3, w4, Fine

-----------------------------------------------------------------------------
(***************************************************************************)
(* The reading an answer is made from: the region it is about, the         *)
(* verdicts, the two loans.                                                *)
(***************************************************************************)
LEMMA RegionFound ==
    ASSUME NEW p, NEW rs, RegionsOK(rs), Known(p, rs)
    PROVE  \E i \in DOMAIN rs : find_region(p, rs) = rs[i] /\ RegionOK(rs[i])
                                /\ (p.region # "" => rs[i].code = p.region)
<1>1. rs \in Seq(Regions) /\ DOMAIN rs = DOMAIN SeedRegions
  BY DEF RegionsOK
<1>2. DOMAIN rs = 1 .. Len(rs) /\ Len(rs) \in Nat /\ IsFiniteSet(DOMAIN rs)
  BY <1>1, Positions
<1>3. 1 \in DOMAIN rs
  <2>1. SeedRegions \in Seq(Regions) /\ SeedRegions # <<>>
    BY StoreAssumption
  <2>2. 1 \in DOMAIN SeedRegions
    BY <2>1
  <2> QED
    BY <1>1, <2>2
<1>4. \A i \in DOMAIN rs : RegionOK(rs[i])
  <2>1. \A i \in DOMAIN rs : rs[i] \in Regions
    BY <1>1
  <2> QED
    BY <2>1, StoreAssumption
<1>5. CASE p.region = ""
  BY <1>3, <1>4, <1>5 DEF find_region
<1>6. CASE p.region # ""
  <2> DEFINE D == {i \in DOMAIN rs : rs[i].code = p.region}
             Right(i) == rs[i].code = p.region /\ \A j \in 1 .. i - 1 : rs[j].code # p.region
  <2>1. D # {} /\ D \in SUBSET DOMAIN rs /\ \A i \in D : i \in Int
    <3>1. \E i \in DOMAIN rs : rs[i].code = p.region
      BY <1>6 DEF Known
    <3>2. \A i \in DOMAIN rs : i \in Int
      BY <1>2
    <3> QED
      BY <3>1, <3>2
  <2>2. IsFiniteSet(D)
    BY <1>2, <2>1, FS_Subset
  <2>3. PICK m \in D : \A i \in D : m <= i
    <3> HIDE DEF D
    <3> QED
      BY <2>1, <2>2, Extremes
  <2>4. m \in DOMAIN rs /\ Right(m)
    BY <1>2, <2>3
  <2> DEFINE n == CHOOSE i \in DOMAIN rs : Right(i)
  <2>5. n \in DOMAIN rs /\ Right(n)
    BY <2>4
  <2>6. find_region(p, rs) = rs[n]
    BY <1>6 DEF find_region
  <2> QED
    BY <1>4, <2>5, <2>6
<1> QED
  BY <1>5, <1>6

PoliciesRead(read) == evaluate_policies(read.form, Payloads(read.given))
RegionRead(read) == find_region(read.form, read.regions)
AssetsRead(read) == safe_int(read.form.assets)
JeonseLoan(read) == loan_option(PoliciesRead(read), K.jeonsePriority, RegionRead(read).jeonse, AssetsRead(read))
StandardLoan(read) == loan_option(PoliciesRead(read), K.monthlyPriority, RegionRead(read).deposit, AssetsRead(read))
AffordRead(read) == assess_affordability(read.form)

LEMMA ReadTypes ==
    ASSUME NEW read, NEW rs, NEW vs, ReadOK(read, rs, vs), Known(read.form, read.regions)
    PROVE  /\ read.form \in FormType
           /\ PoliciesRead(read) \in Seq(Verdicts)
           /\ RegionOK(RegionRead(read)) /\ AssetsRead(read) \in Nat
           /\ JeonseLoan(read) \in Loan /\ StandardLoan(read) \in Loan
           /\ AffordRead(read) \in AffordType
           /\ K.jeonsePriority \in Seq(STRING) /\ K.monthlyPriority \in Seq(STRING)
           /\ Cap(read.form, read.regions) \in Nat
<1>1. read.form \in FormType /\ RegionsOK(read.regions) /\ GivenOK(read.given, vs)
  BY DEF ReadOK, RegionsRead
<1>2. PoliciesRead(read) \in Seq(Verdicts)
  <2>1. Payloads(read.given) \in Seq({q \in Rules : RuleOK(q)})
    BY <1>1, RulesRead
  <2> QED
    BY <2>1, PoliciesOfAnswer DEF PoliciesRead
<1>3. RegionOK(RegionRead(read))
  BY <1>1, RegionFound DEF RegionRead
<1>4. AssetsRead(read) \in Nat
  <2>1. read.form.assets \in Int
    BY <1>1 DEF FormType
  <2> QED
    BY <2>1, EnteredType DEF AssetsRead
<1>5. K.jeonsePriority \in Seq(STRING) /\ K.monthlyPriority \in Seq(STRING)
  BY ConstantsAssumption
<1>6. JeonseLoan(read) \in Loan /\ StandardLoan(read) \in Loan
  <2>1. RegionRead(read).jeonse \in Int /\ RegionRead(read).deposit \in Int /\ AssetsRead(read) \in Int
    BY <1>3, <1>4, RegionNumbers
  <2> QED
    BY <1>2, <1>5, <2>1, LoanType DEF JeonseLoan, StandardLoan
<1>7. AffordRead(read) \in AffordType
  BY <1>1, AffordFacts DEF AffordRead
<1>8. Cap(read.form, read.regions) \in Nat
  BY CapType DEF Cap
<1> QED
  BY <1>1, <1>2, <1>3, <1>4, <1>5, <1>6, <1>7, <1>8

(* The ways the scenarios of an answer are made of. *)
WaysRead(read) ==
    {JeonseWay(RegionRead(read), AssetsRead(read), JeonseLoan(read)),
     SemiWay(RegionRead(read), AssetsRead(read), JeonseLoan(read)),
     StandardWay(RegionRead(read), AssetsRead(read), StandardLoan(read)),
     LowWay(RegionRead(read))}

LEMMA ScenariosRead ==
    ASSUME NEW read, NEW rs, NEW vs, ReadOK(read, rs, vs), Known(read.form, read.regions),
           NEW answer, answer.body = analyze(read.form, read.regions, Payloads(read.given))
    PROVE  /\ answer.body.affordability = AffordRead(read)
           /\ answer.body.policies = PoliciesRead(read)
           /\ DOMAIN answer.body.scenarios = 1 .. 4
           /\ \A k \in 1 .. 4 : \E w \in WaysRead(read) :
                Ways(w) /\ Scenario(answer.body.scenarios[k], w, RegionRead(read).maintenance, AffordRead(read),
                                    RegionRead(read).guarantee, Cap(read.form, read.regions))
<1> DEFINE list == Scenarios(read.form, read.regions, Payloads(read.given))
           built == build_scenarios(RegionRead(read), AssetsRead(read), AffordRead(read), JeonseLoan(read),
                                    StandardLoan(read), preferred_type(read.form), Cap(read.form, read.regions))
<1>1. /\ answer.body.affordability = AffordRead(read)
      /\ answer.body.policies = PoliciesRead(read)
      /\ answer.body.scenarios = list
  BY AnswerParts DEF AffordRead, PoliciesRead
<1>2. list = built
  BY DEF Scenarios, RegionRead, AssetsRead, AffordRead, JeonseLoan, StandardLoan, PoliciesRead
<1>3. /\ DOMAIN built = 1 .. 4
      /\ \A k \in 1 .. 4 : \E w \in WaysRead(read) :
            Ways(w) /\ Scenario(built[k], w, RegionRead(read).maintenance, AffordRead(read),
                                RegionRead(read).guarantee, Cap(read.form, read.regions))
  <2>1. /\ RegionOK(RegionRead(read)) /\ AssetsRead(read) \in Nat /\ AffordRead(read) \in AffordType
        /\ JeonseLoan(read) \in Loan /\ StandardLoan(read) \in Loan /\ Cap(read.form, read.regions) \in Nat
    BY ReadTypes
  <2> QED
    BY <2>1, ScenariosBuilt DEF WaysRead
<1> HIDE DEF list, built
<1> QED
  BY <1>1, <1>2, <1>3

LEMMA BufferLeft == Inv => PlanLeavesTheBuffer
<1> SUFFICES ASSUME Inv, Answered PROVE PlanLeavesTheBuffer
  BY DEF PlanLeavesTheBuffer
<1>1. PICK read : ReadOK(read, regions, versions) /\ MadeFrom(online, read)
  BY AnswerOf
<1>2. Known(read.form, read.regions) /\ online.body = analyze(read.form, read.regions, Payloads(read.given))
  BY <1>1 DEF MadeFrom
<1> DEFINE a == AffordRead(read)
           list == online.body.scenarios
<1>3. /\ online.body.affordability = a /\ DOMAIN list = 1 .. 4
      /\ \A k \in 1 .. 4 : \E w \in WaysRead(read) :
            Scenario(list[k], w, RegionRead(read).maintenance, a, RegionRead(read).guarantee,
                     Cap(read.form, read.regions))
  BY <1>1, <1>2, ScenariosRead
<1>4. /\ a \in AffordType /\ a.recommended <= a.max
      /\ a.max # 0 => a.max + a.livingCost + a.debt + a.buffer <= a.netIncome
  <2>1. read.form \in FormType
    BY <1>1, <1>2, ReadTypes
  <2> QED
    BY <2>1, AffordFacts DEF AffordRead
<1>5. /\ a.max \in Nat /\ a.recommended \in Nat /\ a.livingCost \in Nat /\ a.debt \in Nat
      /\ a.buffer \in Nat /\ a.netIncome \in Nat
  BY <1>4 DEF AffordType
<1> HIDE DEF a, list
<1>6. \A k \in 1 .. 4 : /\ list[k].monthly \in Nat
                        /\ list[k].verdict # "unaffordable" =>
                              a.max # 0 /\ (list[k].monthly <= a.recommended \/ list[k].monthly <= a.max)
  BY <1>3 DEF Scenario
<1>7. \A k \in 1 .. 4 : list[k].verdict # "unaffordable" =>
            list[k].monthly + a.livingCost + a.debt + a.buffer <= a.netIncome
  BY <1>4, <1>5, <1>6
<1> QED
  BY <1>3, <1>7 DEF PlanLeavesTheBuffer, list

(***************************************************************************)
(* Whatever the constants, the rules and the prices are, a scenario that   *)
(* is called affordable or a stretch leaves the household its cost of      *)
(* living, its debt payments and the buffer (engines/affordability.py,     *)
(* engines/tco.py).                                                        *)
(***************************************************************************)
THEOREM PlansLeaveTheBuffer == Spec => []PlanLeavesTheBuffer
<1>1. Inv => PlanLeavesTheBuffer
  BY BufferLeft
<1> QED
  BY <1>1, InvHolds, PTL

-----------------------------------------------------------------------------
(***************************************************************************)
(* The fee for a guarantee, and the deposits it is paid for.               *)
(***************************************************************************)
LEMMA Product2 ==
    ASSUME NEW a \in Nat, NEW b \in Nat, NEW c \in Nat, a >= b
    PROVE  a * c >= b * c /\ a * c \in Nat /\ b * c \in Nat
<1>1. \E e \in Nat : a = b + e
  <2>1. a - b \in Nat /\ a = b + (a - b)
    OBVIOUS
  <2> QED
    BY <2>1
<1>2. PICK e \in Nat : a = b + e
  BY <1>1
<1>3. a * c = b * c + e * c
  BY <1>2
<1>4. a * c \in Nat /\ b * c \in Nat /\ e * c \in Nat
  OBVIOUS
<1> DEFINE x == a * c
           y == b * c
           z == e * c
<1>5. x = y + z /\ x \in Nat /\ y \in Nat /\ z \in Nat
  BY <1>3, <1>4
<1> HIDE DEF x, y, z
<1>6. x >= y /\ x \in Nat /\ y \in Nat
  BY <1>5
<1> QED
  BY <1>6 DEF x, y

LEMMA FeeIsCharged ==
    ASSUME NEW deposit \in Nat, deposit >= K.depositUnit
    PROVE  Fee(deposit) > 0
<1> DEFINE rate == guarantee_rate_pct_for(deposit)
           unit == K.depositUnit
           years == K.years
           least == unit * rate
           q == deposit * rate
<1>1. unit \in Nat /\ years \in Nat
  BY Amounts
<1>2. rate \in Cells(deposit)
  <2>1. rate = CHOOSE r \in Cells(deposit) : \A other \in Cells(deposit) : r >= other
    BY DEF guarantee_rate_pct_for, Cells, Bracket, Fitting, Bounds
  <2>2. \E r \in Cells(deposit) : \A other \in Cells(deposit) : r >= other
    <3>1. /\ IsFiniteSet(Cells(deposit)) /\ Cells(deposit) # {}
          /\ \A r \in Cells(deposit) : r \in Int
      BY RateCells
    <3> QED
      BY <3>1, Extremes
  <2> HIDE DEF rate
  <2> QED
    BY <2>1, <2>2
<1>3. rate \in Nat /\ least * years > 50000
  <2>1. \E row \in K.rateTable : row.rate = rate
    BY <1>2 DEF Cells
  <2> QED
    BY <2>1, RateTable, DepositsAssumption
<1> HIDE DEF rate, unit, years
<1>4. deposit * rate >= unit * rate /\ deposit * rate \in Nat /\ unit * rate \in Nat
  <2>1. deposit >= unit
    BY DEF unit
  <2> QED
    BY <1>1, <1>3, <2>1, Product2
<1>5. q >= least /\ q \in Nat /\ least \in Nat
  BY <1>4
<1> HIDE DEF least, q
<1>6. q * years >= least * years /\ q * years \in Nat /\ least * years \in Nat
  BY <1>1, <1>5, Product2
<1> DEFINE n == q * years
<1>7. n \in Nat /\ n > 50000
  BY <1>3, <1>6
<1>8. Fee(deposit) = round(n, 100000)
  BY DEF Fee, q, rate, years
<1> HIDE DEF n
<1>9. round(n, 100000) > 0
  BY <1>7 DEF round
<1> QED
  BY <1>8, <1>9

(* What floor_to leaves is nothing or at least a unit. *)
LEMMA WholeUnits ==
    ASSUME NEW a \in Int, NEW u \in Nat, u # 0
    PROVE  floor_to(a, u) > 0 => floor_to(a, u) >= u
<1> DEFINE q == a \div u
<1>1. q \in Int
  BY Quotient
<1>2. floor_to(a, u) = IF a <= 0 THEN 0 ELSE q * u
  BY DEF floor_to
<1>3. a > 0 => q >= 0
  <2>1. a \in Int /\ u \in Nat /\ u # 0
    OBVIOUS
  <2> QED
    BY <2>1, Quotient
<1> HIDE DEF q
<1>4. CASE a > 0 /\ q >= 1
  <2>1. q * u >= 1 * u
    BY <1>1, <1>4, Product2
  <2> QED
    BY <1>2, <1>4, <2>1
<1>5. CASE a <= 0 \/ q = 0
  BY <1>2, <1>5
<1> QED
  BY <1>1, <1>3, <1>4, <1>5

(* No way asks for a deposit that is too small to be guaranteed. *)
LEMMA DepositsOfWays ==
    ASSUME NEW region, region \in Regions, NEW assets \in Nat, NEW jeonse \in Loan, NEW standard \in Loan,
           NEW w \in {JeonseWay(region, assets, jeonse), SemiWay(region, assets, jeonse),
                      StandardWay(region, assets, standard), LowWay(region)},
           w.deposit > 0
    PROVE  w.deposit >= K.depositUnit
<1>1. RegionOK(region) /\ (region.jeonse > 0 => region.jeonse >= K.depositUnit)
      /\ (region.deposit > 0 => region.deposit >= K.depositUnit)
  BY StoreAssumption, DepositsAssumption
<1>2. region.jeonse \in Nat /\ region.deposit \in Nat /\ K.lowDeposit \in Nat /\ K.semiShare \in Nat
      /\ K.depositUnit \in Nat /\ K.depositUnit # 0 /\ K.lowDeposit >= K.depositUnit
  BY <1>1, RegionNumbers, Amounts, ConstantsAssumption, DepositsAssumption
<1>3. w.deposit \in {region.jeonse, SemiDeposit(region), region.deposit, LowDeposit(region)}
  BY DEF JeonseWay, SemiWay, StandardWay, LowWay, Way
<1>4. SemiDeposit(region) > 0 => SemiDeposit(region) >= K.depositUnit
  <2>1. (region.jeonse * K.semiShare) \div 100 \in Int
    <3>1. region.jeonse * K.semiShare \in Int
      BY <1>2
    <3> QED
      BY <3>1, Quotient
  <2> QED
    BY <1>2, <2>1, WholeUnits DEF SemiDeposit
<1>5. LowDeposit(region) > 0 => LowDeposit(region) >= K.depositUnit
  BY <1>1, <1>2 DEF LowDeposit, Least
<1> QED
  BY <1>1, <1>3, <1>4, <1>5

(***************************************************************************)
(* A loan is of a product the answer lists and does not refuse, or there   *)
(* is none.                                                                *)
(***************************************************************************)
OnOffer(policies, name, most) ==
    \E j \in DOMAIN policies :
        policies[j].id = name /\ policies[j].status # "ineligible" /\ most <= policies[j].max

Offered(loan, policies) ==
    loan = NoLoan \/ (loan.name # "none" /\ OnOffer(policies, loan.name, loan.max))

LEMMA LoanOffered ==
    ASSUME NEW evaluated \in Seq(Verdicts), NEW priority \in Seq(STRING),
           NEW deposit \in Int, NEW assets \in Int,
           \A j \in DOMAIN evaluated : evaluated[j].id # "none"
    PROVE  Offered(loan_option(evaluated, priority, deposit, assets), evaluated)
<1> DEFINE loan == loan_option(evaluated, priority, deposit, assets)
<1>1. CASE loan = NoLoan
  BY <1>1 DEF Offered
<1>2. ASSUME NEW m \in Products(evaluated, priority), loan = LoanOf(Product(evaluated, priority, m))
      PROVE  Offered(loan, evaluated)
  <2> DEFINE e == Product(evaluated, priority, m)
  <2>1. e \in Usable(evaluated) /\ e \in Verdicts
    <3>1. 0 \in Int
      OBVIOUS
    <3> QED
      BY <3>1, ProductFacts
  <2>2. loan.name = e.id /\ loan.max = e.max
    BY <1>2 DEF LoanOf
  <2> HIDE DEF e, loan
  <2>3. PICK j \in DOMAIN evaluated : evaluated[j] = e
    BY <2>1 DEF Usable
  <2>4. e.status # "ineligible" /\ e.max \in Nat /\ e.id # "none"
    BY <2>1, <2>3 DEF Usable, Verdicts
  <2>5. loan.max <= evaluated[j].max
    BY <2>2, <2>3, <2>4
  <2> QED
    BY <2>2, <2>3, <2>4, <2>5 DEF Offered, OnOffer
<1> QED
  BY <1>1, <1>2, LoanOption DEF First

LEMMA LoansRead ==
    ASSUME NEW read, NEW rs, NEW vs, ReadOK(read, rs, vs), Known(read.form, read.regions)
    PROVE  /\ Offered(JeonseLoan(read), PoliciesRead(read))
           /\ Offered(StandardLoan(read), PoliciesRead(read))
           /\ RegionRead(read) \in Regions
<1>1. RegionsOK(read.regions) /\ GivenOK(read.given, vs)
  BY DEF ReadOK, RegionsRead
<1>2. \A j \in DOMAIN PoliciesRead(read) : PoliciesRead(read)[j].id # "none"
  <2>1. \A i \in DOMAIN read.given : read.given[i].payload.id # "none"
    BY <1>1, RulesRead DEF RuleOK
  <2>2. \A j \in DOMAIN PoliciesRead(read) : \E i \in DOMAIN read.given :
            PoliciesRead(read)[j].id = read.given[i].payload.id
    BY <1>1, VerdictsOf DEF PoliciesRead
  <2> QED
    BY <2>1, <2>2
<1>3. RegionRead(read).jeonse \in Int /\ RegionRead(read).deposit \in Int /\ AssetsRead(read) \in Int
  BY ReadTypes, RegionNumbers
<1>4. Offered(JeonseLoan(read), PoliciesRead(read)) /\ Offered(StandardLoan(read), PoliciesRead(read))
  <2>1. /\ PoliciesRead(read) \in Seq(Verdicts)
        /\ K.jeonsePriority \in Seq(STRING) /\ K.monthlyPriority \in Seq(STRING)
    BY ReadTypes
  <2> QED
    BY <1>2, <1>3, <2>1, LoanOffered DEF JeonseLoan, StandardLoan
<1>5. RegionRead(read) \in Regions
  <2> DEFINE found == find_region(read.form, read.regions)
             records == read.regions
  <2>1. \E i \in DOMAIN records : found = records[i] /\ RegionOK(records[i])
                                  /\ (read.form.region # "" => records[i].code = read.form.region)
    BY <1>1, RegionFound
  <2>3. RegionRead(read) = found
    BY DEF RegionRead
  <2>2. records \in Seq(Regions)
    BY <1>1 DEF RegionsOK
  <2>4. PICK i \in DOMAIN records : found = records[i]
    BY <2>1
  <2> HIDE DEF found, records
  <2>5. records[i] \in Regions
    BY <2>2
  <2> QED
    BY <2>3, <2>4, <2>5
<1> QED
  BY <1>4, <1>5

(* What a way borrows, and from what. *)
Borrows(w, policies) ==
    /\ 100 * w.loan <= K.ltv * w.deposit
    /\ IF w.product = "none" THEN w.loan > 0 => w.id \in {"jeonse_loan", "semi_jeonse"}
       ELSE OnOffer(policies, w.product, w.loan)

LEMMA WaysBorrow ==
    ASSUME NEW region, RegionOK(region), NEW assets \in Nat, NEW jeonse \in Loan, NEW standard \in Loan,
           NEW policies \in Seq(Verdicts), Offered(jeonse, policies), Offered(standard, policies)
    PROVE  /\ Borrows(JeonseWay(region, assets, jeonse), policies)
           /\ Borrows(SemiWay(region, assets, jeonse), policies)
           /\ Borrows(StandardWay(region, assets, standard), policies)
           /\ Borrows(LowWay(region), policies)
<1>1. /\ region.jeonse \in Nat /\ region.deposit \in Nat
      /\ JeonseCap(region, jeonse) \in Nat /\ SemiDeposit(region) \in Nat /\ LowDeposit(region) \in Nat
  BY RegionNumbers, WayTypes
<1>2. jeonse.max \in Nat /\ standard.max \in Nat
  BY DEF Loan
<1>3. \A j \in DOMAIN policies : policies[j].max \in Nat
  <2>1. \A j \in DOMAIN policies : policies[j] \in Verdicts
    OBVIOUS
  <2> QED
    BY <2>1 DEF Verdicts
<1>4. \A name : \A n \in Int, m \in Int : n <= m /\ OnOffer(policies, name, m) => OnOffer(policies, name, n)
  BY <1>3 DEF OnOffer
<1>5. jeonse.name # "none" => JeonseCap(region, jeonse) = jeonse.max /\ OnOffer(policies, jeonse.name, jeonse.max)
  BY DEF JeonseCap, Offered, NoLoan
<1>6. IF standard.name = "none" THEN standard.max = 0 ELSE OnOffer(policies, standard.name, standard.max)
  BY DEF Offered, NoLoan
<1>7. \A deposit \in Nat, cap \in Nat :
        LET n == size_loan(deposit, assets, cap) IN n \in Nat /\ 100 * n <= K.ltv * deposit /\ n <= cap
  BY LoanSize
<1>8. Borrows(JeonseWay(region, assets, jeonse), policies)
  <2> DEFINE n == size_loan(region.jeonse, assets, JeonseCap(region, jeonse))
  <2>1. n \in Nat /\ 100 * n <= K.ltv * region.jeonse /\ n <= JeonseCap(region, jeonse)
    BY <1>1, <1>7
  <2> HIDE DEF n
  <2>2. jeonse.name # "none" => OnOffer(policies, jeonse.name, n)
    BY <1>2, <1>4, <1>5, <2>1
  <2> QED
    BY <2>1, <2>2 DEF Borrows, JeonseWay, Way, n
<1>9. Borrows(SemiWay(region, assets, jeonse), policies)
  <2> DEFINE n == size_loan(SemiDeposit(region), assets, JeonseCap(region, jeonse))
  <2>1. n \in Nat /\ 100 * n <= K.ltv * SemiDeposit(region) /\ n <= JeonseCap(region, jeonse)
    BY <1>1, <1>7
  <2> HIDE DEF n
  <2>2. jeonse.name # "none" => OnOffer(policies, jeonse.name, n)
    BY <1>2, <1>4, <1>5, <2>1
  <2> QED
    BY <2>1, <2>2 DEF Borrows, SemiWay, Way, n
<1>10. Borrows(StandardWay(region, assets, standard), policies)
  <2> DEFINE n == size_loan(region.deposit, assets, standard.max)
  <2>1. n \in Nat /\ 100 * n <= K.ltv * region.deposit /\ n <= standard.max
    BY <1>1, <1>2, <1>7
  <2> HIDE DEF n
  <2>2. IF standard.name = "none" THEN ~(n > 0) ELSE OnOffer(policies, standard.name, n)
    BY <1>2, <1>4, <1>6, <2>1
  <2> QED
    BY <2>1, <2>2 DEF Borrows, StandardWay, Way, n
<1>11. Borrows(LowWay(region), policies)
  <2>1. K.ltv * LowDeposit(region) \in Nat
    BY <1>1, Amounts
  <2> QED
    BY <2>1 DEF Borrows, LowWay, Way
<1> QED
  BY <1>8, <1>9, <1>10, <1>11

(***************************************************************************)
(* The engines of one answer agree.                                        *)
(***************************************************************************)
LEMMA RiskOf ==
    ASSUME NEW deposit, NEW loan, NEW region, NEW cap
    PROVE  scan_deposit_risk(deposit, loan, region, cap).guaranteed = (region.guarantee /\ deposit <= cap)
  BY DEF scan_deposit_risk, guarantee_available

LEMMA BestIsGuaranteed ==
    ASSUME NEW w, Ways(w), NEW e, NEW maintenance, NEW afford, NEW guarantee \in BOOLEAN, NEW cap \in Nat,
           Scenario(e, w, maintenance, afford, guarantee, cap),
           w.deposit > 0 => w.deposit >= K.depositUnit
    PROVE  e.deposit > 0 => (e.cost.insurance > 0 <=> (guarantee /\ e.deposit <= cap))
<1>1. w.deposit \in Nat /\ e.deposit = w.deposit
  BY DEF Ways, Scenario
<1>2. e.cost.insurance = IF guarantee /\ 0 < w.deposit /\ w.deposit <= cap THEN Fee(w.deposit) ELSE 0
  BY DEF Scenario
<1> SUFFICES ASSUME w.deposit > 0 PROVE e.cost.insurance > 0 <=> (guarantee /\ w.deposit <= cap)
  BY <1>1
<1>3. Fee(w.deposit) > 0
  BY <1>1, FeeIsCharged
<1> QED
  BY <1>1, <1>2, <1>3

LEMMA ScenarioBorrows ==
    ASSUME NEW w, Ways(w), NEW e, NEW maintenance, NEW afford, NEW guarantee, NEW cap,
           Scenario(e, w, maintenance, afford, guarantee, cap),
           NEW policies \in Seq(Verdicts), Borrows(w, policies)
    PROVE  Borrows(e, policies)
<1>1. w.deposit \in Nat /\ w.loan \in Nat
  BY DEF Ways
<1>2. e.deposit = w.deposit /\ e.product = w.product /\ e.id = w.id /\ e.loan = Least(w.loan, w.deposit)
  BY DEF Scenario
<1>3. e.loan \in Nat /\ e.loan <= w.loan
  BY <1>1, <1>2 DEF Least
<1>4. 100 * e.loan <= K.ltv * e.deposit
  <2> DEFINE part == K.ltv * w.deposit
  <2>1. part \in Nat
    BY <1>1, Amounts
  <2>2. 100 * w.loan <= part
    BY DEF Borrows
  <2> HIDE DEF part
  <2>3. 100 * e.loan <= part
    BY <1>1, <1>3, <2>1, <2>2
  <2> QED
    BY <1>2, <2>3 DEF part
<1>5. CASE w.product = "none"
  <2>1. w.loan > 0 => w.id \in {"jeonse_loan", "semi_jeonse"}
    BY <1>5 DEF Borrows
  <2> QED
    BY <1>1, <1>2, <1>3, <1>4, <1>5, <2>1 DEF Borrows
<1>6. CASE w.product # "none"
  <2>1. PICK j \in DOMAIN policies : /\ policies[j].id = w.product /\ policies[j].status # "ineligible"
                                     /\ w.loan <= policies[j].max
    BY <1>6 DEF Borrows, OnOffer
  <2>2. policies[j].max \in Nat
    <3>1. policies[j] \in Verdicts
      OBVIOUS
    <3> QED
      BY <3>1 DEF Verdicts
  <2>3. e.loan <= policies[j].max
    BY <1>1, <1>3, <2>1, <2>2
  <2>4. OnOffer(policies, e.product, e.loan)
    BY <1>2, <2>1, <2>3 DEF OnOffer
  <2> QED
    BY <1>2, <1>4, <1>6, <2>4 DEF Borrows
<1> QED
  BY <1>5, <1>6

LEMMA EnginesOfAnAnswer == Inv => EnginesAgree
<1> SUFFICES ASSUME Inv, Answered PROVE EnginesAgree
  BY DEF EnginesAgree
<1>1. PICK read : ReadOK(read, regions, versions) /\ MadeFrom(online, read)
  BY AnswerOf
<1>2. Known(read.form, read.regions) /\ online.body = analyze(read.form, read.regions, Payloads(read.given))
  BY <1>1 DEF MadeFrom
<1> DEFINE region == RegionRead(read)
           assets == AssetsRead(read)
           jeonse == JeonseLoan(read)
           standard == StandardLoan(read)
           policies == PoliciesRead(read)
           cap == Cap(read.form, read.regions)
           a == AffordRead(read)
           list == online.body.scenarios
<1>3. /\ online.body.policies = policies /\ DOMAIN list = 1 .. 4
      /\ \A k \in 1 .. 4 : \E w \in WaysRead(read) :
            Ways(w) /\ Scenario(list[k], w, region.maintenance, a, region.guarantee, cap)
  BY <1>1, <1>2, ScenariosRead
<1>4. online.body.risk.guaranteed = (region.guarantee /\ list[1].deposit <= cap)
  <2>1. /\ online.body.risk = scan_deposit_risk(list[1].deposit, list[1].loan, region, cap)
    BY <1>2, AnswerParts DEF RegionRead
  <2> HIDE DEF region, cap, list
  <2> QED
    BY <2>1, RiskOf
<1>5. /\ region \in Regions /\ RegionOK(region) /\ region.guarantee \in BOOLEAN /\ assets \in Nat
      /\ jeonse \in Loan /\ standard \in Loan /\ policies \in Seq(Verdicts) /\ cap \in Nat
      /\ Offered(jeonse, policies) /\ Offered(standard, policies)
  <2>1. /\ RegionOK(region) /\ assets \in Nat
        /\ jeonse \in Loan /\ standard \in Loan /\ policies \in Seq(Verdicts) /\ cap \in Nat
    BY <1>1, <1>2, ReadTypes
  <2>2. region \in Regions /\ Offered(jeonse, policies) /\ Offered(standard, policies)
    BY <1>1, <1>2, LoansRead
  <2>3. region.guarantee \in BOOLEAN
    BY <2>1, RegionNumbers
  <2> QED
    BY <2>1, <2>2, <2>3
<1>6. WaysRead(read) = {JeonseWay(region, assets, jeonse), SemiWay(region, assets, jeonse),
                        StandardWay(region, assets, standard), LowWay(region)}
  BY DEF WaysRead
<1> HIDE DEF region, assets, jeonse, standard, policies, cap, a, list
<1>7. \A w \in WaysRead(read) : (w.deposit > 0 => w.deposit >= K.depositUnit) /\ Borrows(w, policies)
  <2>1. \A w \in WaysRead(read) : w.deposit > 0 => w.deposit >= K.depositUnit
    BY <1>5, <1>6, DepositsOfWays
  <2>2. \A w \in WaysRead(read) : Borrows(w, policies)
    BY <1>5, <1>6, WaysBorrow
  <2> QED
    BY <2>1, <2>2
<1>8. list[1].deposit > 0 => (list[1].cost.insurance > 0 <=> online.body.risk.guaranteed)
  <2>1. 1 \in 1 .. 4
    OBVIOUS
  <2>2. PICK w \in WaysRead(read) :
            Ways(w) /\ Scenario(list[1], w, region.maintenance, a, region.guarantee, cap)
    BY <1>3, <2>1
  <2>3. list[1].deposit > 0 => (list[1].cost.insurance > 0 <=> (region.guarantee /\ list[1].deposit <= cap))
    BY <1>5, <1>7, <2>2, BestIsGuaranteed
  <2> QED
    BY <1>4, <2>3
<1>9. \A k \in 1 .. 4 : Borrows(list[k], policies)
  <2> SUFFICES ASSUME NEW k \in 1 .. 4 PROVE Borrows(list[k], policies)
    OBVIOUS
  <2>1. PICK w \in WaysRead(read) :
            Ways(w) /\ Scenario(list[k], w, region.maintenance, a, region.guarantee, cap)
    BY <1>3
  <2>2. Borrows(w, policies) /\ policies \in Seq(Verdicts)
    BY <1>5, <1>7
  <2> QED
    BY <2>1, <2>2, ScenarioBorrows
<1>10. \A k \in DOMAIN list : Borrows(list[k], online.body.policies)
  BY <1>3, <1>9
<1> QED
  BY <1>8, <1>10 DEF EnginesAgree, Borrows, OnOffer, list

(***************************************************************************)
(* Whatever the constants, the rules and the prices are, the engines of    *)
(* one answer speak of the same facts: the fee is charged exactly for a    *)
(* deposit that is called guaranteed (tco.py, risk.py), and what a way of  *)
(* housing borrows comes from a product the answer does not refuse, within *)
(* its maximum and the share of the deposit that is lent.                  *)
(***************************************************************************)
THEOREM EnginesSpeakOfTheSameFacts == Spec => []EnginesAgree
<1>1. Inv => EnginesAgree
  BY EnginesOfAnAnswer
<1> QED
  BY <1>1, InvHolds, PTL

-----------------------------------------------------------------------------
(***************************************************************************)
(* The browser's engines compute what the server's engines compute: first  *)
(* the functions on numbers.                                               *)
(***************************************************************************)
LEMMA LargestIs ==
    ASSUME NEW S, NEW m \in S, \A x \in S : x \in Int /\ m >= x
    PROVE  Largest(S) = m
<1> DEFINE n == Largest(S)
<1>1. n \in S /\ \A x \in S : n >= x
  BY DEF Largest
<1> HIDE DEF n
<1>2. n >= m /\ m >= n /\ n \in Int /\ m \in Int
  BY <1>1
<1>3. n = m
  BY <1>2
<1> QED
  BY <1>3 DEF n

LEMMA SmallestIs ==
    ASSUME NEW S, NEW m \in S, \A x \in S : x \in Int /\ m <= x
    PROVE  Smallest(S) = m
<1> DEFINE n == Smallest(S)
<1>1. n \in S /\ \A x \in S : n <= x
  BY DEF Smallest
<1> HIDE DEF n
<1>2. n >= m /\ m >= n /\ n \in Int /\ m \in Int
  BY <1>1
<1>3. n = m
  BY <1>2
<1> QED
  BY <1>3 DEF n

LEMMA OfTwo ==
    ASSUME NEW a \in Int, NEW b \in Int
    PROVE  /\ Largest({a, b}) = Most(a, b) /\ Largest({b, a}) = Most(a, b)
           /\ Smallest({a, b}) = Least(a, b) /\ Smallest({b, a}) = Least(a, b)
<1> DEFINE m == Most(a, b)
           n == Least(a, b)
<1>1. m \in {a, b} /\ \A x \in {a, b} : x \in Int /\ m >= x
  BY DEF Most
<1>2. n \in {a, b} /\ \A x \in {a, b} : x \in Int /\ n <= x
  BY DEF Least
<1>3. {a, b} = {b, a}
  OBVIOUS
<1> HIDE DEF m, n
<1>4. Largest({a, b}) = m
  BY <1>1, LargestIs
<1>5. Smallest({a, b}) = n
  BY <1>2, SmallestIs
<1> QED
  BY <1>3, <1>4, <1>5 DEF m, n

LEMMA OfThree ==
    ASSUME NEW a \in Int, NEW b \in Int, NEW c \in Int
    PROVE  Smallest({a, b, c}) = Least(a, Least(b, c))
<1> DEFINE m == Least(a, Least(b, c))
<1>1. m \in {a, b, c} /\ \A x \in {a, b, c} : x \in Int /\ m <= x
  BY DEF Least
<1> HIDE DEF m
<1>2. Smallest({a, b, c}) = m
  BY <1>1, SmallestIs
<1> QED
  BY <1>2 DEF m

LEMMA SameNumbers ==
    ASSUME NEW n \in Int, NEW u \in Nat, u # 0
    PROVE  safeInt(n) = safe_int(n) /\ floorTo(n, u) = floor_to(n, u) /\ roundHalf(n, u) = round(n, u)
<1>1. safeInt(n) = safe_int(n)
  <2>1. 0 \in Int
    OBVIOUS
  <2> QED
    BY <2>1, OfTwo DEF safeInt, safe_int
<1>2. floorTo(n, u) = floor_to(n, u)
  <2> DEFINE q == (n \div u) * u
  <2>1. floorTo(n, u) = (IF n > 0 THEN q ELSE 0) /\ floor_to(n, u) = (IF n <= 0 THEN 0 ELSE q)
    BY DEF floorTo, floor_to
  <2> HIDE DEF q
  <2> QED
    BY <2>1
<1>3. roundHalf(n, u) = round(n, u)
  <2> DEFINE q == n \div u
             rest == 2 * (n % u)
             up == rest > u \/ (rest = u /\ q % 2 = 1)
  <2>1. roundHalf(n, u) = q + (IF up THEN 1 ELSE 0)
    BY DEF roundHalf
  <2>2. round(n, u) = IF up THEN q + 1 ELSE q
    BY DEF round
  <2>3. q \in Int
    BY Quotient
  <2> HIDE DEF q, rest, up
  <2>4. CASE up
    BY <2>1, <2>2, <2>3, <2>4
  <2>5. CASE ~up
    BY <2>1, <2>2, <2>3, <2>5
  <2> QED
    BY <2>4, <2>5
<1> QED
  BY <1>1, <1>2, <1>3

LEMMA SameLivingCost == ASSUME NEW size \in Int PROVE livingCostFor(size) = living_cost_for(size)
<1> DEFINE n == Len(K.livingCost)
           m == Most(1, size)
           costs == K.livingCost
           extra == K.extraPerson
<1>1. costs \in Seq(Nat) /\ costs # <<>> /\ extra \in Nat
  BY ConstantsAssumption
<1>2. n \in Nat /\ n # 0 /\ DOMAIN costs = 1 .. n /\ \A i \in 1 .. n : costs[i] \in Nat
  BY <1>1
<1>3. living_cost_for(size) = IF size <= n THEN costs[m] ELSE costs[n] + (size - n) * extra
  BY DEF living_cost_for
<1> HIDE DEF n, costs, extra
<1>4. Largest(DOMAIN costs) = n
  <2>1. n \in DOMAIN costs /\ \A x \in DOMAIN costs : x \in Int /\ n >= x
    BY <1>2
  <2> QED
    BY <2>1, LargestIs
<1>5. Largest({1, size}) = m /\ m \in Int /\ m >= 1 /\ m = (IF size >= 1 THEN size ELSE 1)
  <2>1. 1 \in Int /\ Largest({1, size}) = Most(1, size)
    BY OfTwo
  <2> QED
    BY <2>1 DEF Most
<1> HIDE DEF m
<1>6. livingCostFor(size) = costs[Smallest({m, n})] + Largest({0, m - n}) * extra
  BY <1>4, <1>5 DEF livingCostFor, costs, extra
<1>7. Smallest({m, n}) = Least(m, n) /\ Largest({0, m - n}) = Most(0, m - n)
  <2>1. 0 \in Int /\ m - n \in Int /\ n \in Int
    BY <1>2, <1>5
  <2> QED
    BY <1>5, <2>1, OfTwo
<1>8. CASE size <= n
  <2>1. m <= n /\ m \in 1 .. n
    BY <1>2, <1>5, <1>8
  <2>2. Least(m, n) = m /\ Most(0, m - n) = 0
    BY <1>2, <1>5, <2>1 DEF Least, Most
  <2>3. costs[m] \in Nat /\ 0 * extra = 0
    BY <1>1, <1>2, <2>1
  <2> QED
    BY <1>3, <1>6, <1>7, <1>8, <2>2, <2>3
<1>9. CASE ~(size <= n)
  <2>1. m = size /\ m > n
    BY <1>2, <1>5, <1>9
  <2>2. Least(m, n) = n /\ Most(0, m - n) = size - n
    BY <1>2, <1>5, <2>1 DEF Least, Most
  <2> QED
    BY <1>3, <1>6, <1>7, <1>9, <2>2
<1> QED
  BY <1>8, <1>9

LEMMA SameAfford ==
    ASSUME NEW p \in FormType
    PROVE  assessAffordability(p) = assess_affordability(p)
<1> DEFINE entered  == safe_int(p.netIncome)
           annual   == safe_int(p.annualIncome)
           net      == IF entered = 0 THEN (annual * K.netFromAnnual) \div 1200 ELSE entered
           debt     == safe_int(p.debt)
           living   == living_cost_for(p.household)
           buffer   == (net * K.buffer) \div 100
           capped   == (net * K.costCap) \div 100
           residual == net - living - debt - buffer
           most     == max_cost(net, residual)
           recommended == floor_to((most * K.haircut) \div 100, K.costUnit)
           Within(cap, share) == 100 * most >= cap * net /\ 100 * debt <= share * net
           band     == IF most = 0 THEN "risk"
                       ELSE IF Within(K.safeCap, K.safeDebt) THEN "safe"
                       ELSE IF Within(K.cautionCap, K.cautionDebt) THEN "caution"
                       ELSE "risk"
           localNet == IF safeInt(p.netIncome) <= 0 /\ safeInt(p.annualIncome) > 0
                       THEN (safeInt(p.annualIncome) * K.netFromAnnual) \div 1200
                       ELSE safeInt(p.netIncome)
           localDebt   == safeInt(p.debt)
           localLiving == livingCostFor(p.household)
           localBuffer == (localNet * K.buffer) \div 100
           localCap    == (localNet * K.costCap) \div 100
           localMax    == IF localNet > 0
                          THEN floorTo(Smallest({localCap, localNet - localLiving - localDebt - localBuffer}), K.costUnit)
                          ELSE 0
           localRec    == floorTo((localMax * K.haircut) \div 100, K.costUnit)
           inBand(cap, share) == localMax * 100 >= localNet * cap /\ localDebt * 100 <= localNet * share
           localBand   == CASE localNet <= 0 \/ localMax <= 0 -> "risk"
                            [] localNet > 0 /\ localMax > 0 /\ inBand(K.safeCap, K.safeDebt) -> "safe"
                            [] OTHER -> IF inBand(K.cautionCap, K.cautionDebt) THEN "caution" ELSE "risk"
<1>1. assess_affordability(p) =
        [max |-> most, recommended |-> recommended, band |-> band,
         netIncome |-> net, livingCost |-> living, debt |-> debt, buffer |-> buffer]
  BY DEF assess_affordability
<1>2. assessAffordability(p) =
        [max |-> localMax, recommended |-> localRec, band |-> localBand,
         netIncome |-> localNet, livingCost |-> localLiving, debt |-> localDebt, buffer |-> localBuffer]
  BY DEF assessAffordability
<1>3. /\ K.netFromAnnual \in Nat /\ K.buffer \in Nat /\ K.costUnit \in Nat /\ K.costUnit # 0
      /\ K.haircut \in Nat /\ K.costCap \in Nat
      /\ K.safeCap \in Nat /\ K.safeDebt \in Nat /\ K.cautionCap \in Nat /\ K.cautionDebt \in Nat
  BY ConstantsAssumption, Amounts
<1>4. /\ p.netIncome \in Int /\ p.annualIncome \in Int /\ p.debt \in Int /\ p.household \in Int
  BY DEF FormType
<1>5. /\ safeInt(p.netIncome) = entered /\ safeInt(p.annualIncome) = annual /\ localDebt = debt
      /\ entered \in Nat /\ annual \in Nat /\ debt \in Nat
  BY <1>4, <1>3, SameNumbers, EnteredType
<1>6. localLiving = living /\ living \in Nat
  BY <1>4, SameLivingCost, LivingCostType
<1> HIDE DEF entered, annual, debt, living, localDebt, localLiving, band, localBand
<1>7. localNet = net /\ net \in Nat
  <2>1. annual * K.netFromAnnual \in Nat
    BY <1>3, <1>5
  <2>2. (annual * K.netFromAnnual) \div 1200 \in Nat
    BY <2>1, Quotient
  <2>3. annual = 0 => (annual * K.netFromAnnual) \div 1200 = 0
    <3>1. 0 * K.netFromAnnual = 0
      BY <1>3
    <3>2. 0 \div 1200 = 0
      OBVIOUS
    <3> QED
      BY <3>1, <3>2
  <2> QED
    BY <1>5, <2>2, <2>3
<1> HIDE DEF net, localNet
<1>8. localBuffer = buffer /\ buffer \in Nat /\ localCap = capped /\ capped \in Nat
  <2>1. net * K.buffer \in Nat /\ net * K.costCap \in Nat
    BY <1>3, <1>7
  <2> QED
    BY <1>7, <2>1, Quotient
<1> HIDE DEF buffer, localBuffer, capped, localCap
<1>9. residual \in Int /\ localNet - localLiving - localDebt - localBuffer = residual
  BY <1>5, <1>6, <1>7, <1>8
<1> HIDE DEF residual
<1>10. localMax = most /\ most \in Nat
  <2>1. most = IF net = 0 THEN 0 ELSE floor_to(Least(capped, residual), K.costUnit)
    BY DEF max_cost, capped
  <2>2. Smallest({capped, residual}) = Least(capped, residual) /\ Least(capped, residual) \in Int
    <3>1. capped \in Int /\ residual \in Int
      BY <1>8, <1>9
    <3> QED
      BY <3>1, OfTwo DEF Least
  <2> DEFINE least == Least(capped, residual)
  <2>3. localMax = IF localNet > 0 THEN floorTo(least, K.costUnit) ELSE 0
    BY <1>8, <1>9, <2>2
  <2>4. floorTo(least, K.costUnit) = floor_to(least, K.costUnit)
    <3> HIDE DEF least
    <3> QED
      BY <1>3, <2>2, SameNumbers DEF least
  <2>5. most \in Nat
    BY <1>7, <1>9, MaxCostFacts
  <2> HIDE DEF most, localMax, least
  <2> QED
    BY <1>7, <2>1, <2>3, <2>4, <2>5 DEF least
<1>11. net = 0 => most = 0
  BY DEF max_cost
<1> HIDE DEF most, localMax
<1>12. localRec = recommended
  <2>1. most * K.haircut \in Nat
    BY <1>3, <1>10
  <2>2. (most * K.haircut) \div 100 \in Int
    BY <2>1, Quotient
  <2> QED
    BY <1>3, <1>10, <2>2, SameNumbers
<1> HIDE DEF recommended, localRec
<1>13. \A cap, share \in Nat : inBand(cap, share) <=> Within(cap, share)
  <2> SUFFICES ASSUME NEW cap \in Nat, NEW share \in Nat PROVE inBand(cap, share) <=> Within(cap, share)
    OBVIOUS
  <2>1. localMax * 100 = 100 * most /\ localDebt * 100 = 100 * debt
    BY <1>5, <1>10
  <2>2. localNet * cap = cap * net /\ localNet * share = share * net
    BY <1>7
  <2> QED
    BY <2>1, <2>2
<1> HIDE DEF inBand, Within
<1>14. localBand = band
  <2>1. inBand(K.safeCap, K.safeDebt) <=> Within(K.safeCap, K.safeDebt)
    BY <1>3, <1>13
  <2>2. inBand(K.cautionCap, K.cautionDebt) <=> Within(K.cautionCap, K.cautionDebt)
    BY <1>3, <1>13
  <2>3. (localNet <= 0 \/ localMax <= 0) <=> most = 0
    BY <1>7, <1>10, <1>11
  <2>4. (localNet > 0 /\ localMax > 0) <=> most # 0
    BY <1>7, <1>10, <1>11
  <2>5. CASE most = 0
    BY <2>3, <2>4, <2>5 DEF band, localBand
  <2>6. CASE most # 0 /\ Within(K.safeCap, K.safeDebt)
    BY <2>1, <2>3, <2>4, <2>6 DEF band, localBand
  <2>7. CASE most # 0 /\ ~Within(K.safeCap, K.safeDebt)
    BY <2>1, <2>2, <2>3, <2>4, <2>7 DEF band, localBand
  <2> QED
    BY <2>5, <2>6, <2>7
<1> QED
  BY <1>1, <1>2, <1>5, <1>6, <1>7, <1>8, <1>10, <1>12, <1>14

(***************************************************************************)
(* The seven clauses of the browser, one for each reason of the server.    *)
(***************************************************************************)
Written(name, applies, met, narrowly) ==
    [name |-> name, applies |-> applies, met |-> met, narrowly |-> met /\ narrowly]

AgeClause(p, c) ==
    Written("age", c.ageMin > 0 \/ c.ageMax < K.noAgeMax,
            (c.ageMin > 0 => p.age >= c.ageMin) /\ (c.ageMax < K.noAgeMax => p.age <= c.ageMax),
            c.ageMax < K.noAgeMax /\ c.ageMax - p.age <= K.imminent)
IncomeClause(p, c) ==
    Written("income", c.incomeMax < K.noAmount, safeInt(p.annualIncome) <= c.incomeMax,
            c.incomeMax # 0 /\ safeInt(p.annualIncome) * 100 >= c.incomeMax * (100 - K.margin))
AssetsClause(p, c) == Written("assets", c.assetMax < K.noAmount, safeInt(p.assets) <= c.assetMax, FALSE)
HomelessClause(p, c) == Written("homeless", c.homeless, p.homeless, FALSE)
NewlywedClause(p, c) == Written("newlywed", c.newlywed, p.newlywed, FALSE)
SmeClause(p, c) == Written("sme", c.sme, p.sme, FALSE)
RegionClause(p, c) == Written("region", c.regions # {}, p.region \in c.regions, FALSE)

Fails(clause) == clause.applies /\ ~clause.met

LEMMA ClausesWritten ==
    ASSUME NEW p, NEW c
    PROVE  clauses(p, c) = {AgeClause(p, c), IncomeClause(p, c), AssetsClause(p, c), HomelessClause(p, c),
                            NewlywedClause(p, c), SmeClause(p, c), RegionClause(p, c)}
  BY DEF clauses, AgeClause, IncomeClause, AssetsClause, HomelessClause, NewlywedClause, SmeClause,
         RegionClause, Written

LEMMA ClauseFails ==
    ASSUME NEW p \in FormType, NEW policy, RuleOK(policy)
    PROVE  LET c == policy.criteria
           IN  /\ Fails(AgeClause(p, c)) <=> Unmet(p, c).age
               /\ Fails(IncomeClause(p, c)) <=> Unmet(p, c).income
               /\ Fails(AssetsClause(p, c)) <=> Unmet(p, c).assets
               /\ Fails(HomelessClause(p, c)) <=> Unmet(p, c).homeless
               /\ Fails(NewlywedClause(p, c)) <=> Unmet(p, c).newlywed
               /\ Fails(SmeClause(p, c)) <=> Unmet(p, c).sme
               /\ Fails(RegionClause(p, c)) <=> Unmet(p, c).region
<1> DEFINE c == policy.criteria
<1>1. /\ p.age \in Int /\ p.annualIncome \in Int /\ p.assets \in Int
      /\ c.ageMin \in Int /\ c.ageMax \in Int /\ c.incomeMax \in Nat /\ c.assetMax \in Int
  BY DEF FormType, RuleOK
<1>2. /\ safeInt(p.annualIncome) = safe_int(p.annualIncome) /\ safe_int(p.annualIncome) \in Nat
      /\ safeInt(p.assets) = safe_int(p.assets) /\ safe_int(p.assets) \in Nat
  <2>1. 1 \in Nat /\ 1 # 0
    OBVIOUS
  <2> QED
    BY <1>1, <2>1, SameNumbers, EnteredType
<1> DEFINE income == safe_int(p.annualIncome)
           assets == safe_int(p.assets)
<1> HIDE DEF c, income, assets
<1>3. Fails(AgeClause(p, c)) <=> Unmet(p, c).age
  <2>1. Fails(AgeClause(p, c)) <=>
            /\ c.ageMin > 0 \/ c.ageMax < K.noAgeMax
            /\ ~((c.ageMin > 0 => p.age >= c.ageMin) /\ (c.ageMax < K.noAgeMax => p.age <= c.ageMax))
    BY DEF Fails, AgeClause, Written
  <2>2. Unmet(p, c).age <=> (\/ c.ageMin > 0 /\ p.age < c.ageMin
                             \/ c.ageMax < K.noAgeMax /\ p.age > c.ageMax)
    BY DEF Unmet
  <2> QED
    BY <1>1, <2>1, <2>2
<1>4. Fails(IncomeClause(p, c)) <=> Unmet(p, c).income
  <2>1. Fails(IncomeClause(p, c)) <=> c.incomeMax < K.noAmount /\ ~(income <= c.incomeMax)
    BY <1>2 DEF Fails, IncomeClause, Written, income
  <2>2. Unmet(p, c).income <=> c.incomeMax < K.noAmount /\ income > c.incomeMax
    BY DEF Unmet, income
  <2>3. income \in Int /\ c.incomeMax \in Int
    BY <1>1, <1>2 DEF income
  <2> QED
    BY <2>1, <2>2, <2>3
<1>5. Fails(AssetsClause(p, c)) <=> Unmet(p, c).assets
  <2>1. Fails(AssetsClause(p, c)) <=> c.assetMax < K.noAmount /\ ~(assets <= c.assetMax)
    BY <1>2 DEF Fails, AssetsClause, Written, assets
  <2>2. Unmet(p, c).assets <=> c.assetMax < K.noAmount /\ assets > c.assetMax
    BY DEF Unmet, assets
  <2>3. assets \in Int /\ c.assetMax \in Int
    BY <1>1, <1>2 DEF assets
  <2> QED
    BY <2>1, <2>2, <2>3
<1>6. /\ Fails(HomelessClause(p, c)) <=> Unmet(p, c).homeless
      /\ Fails(NewlywedClause(p, c)) <=> Unmet(p, c).newlywed
      /\ Fails(SmeClause(p, c)) <=> Unmet(p, c).sme
      /\ Fails(RegionClause(p, c)) <=> Unmet(p, c).region
  BY DEF Fails, HomelessClause, NewlywedClause, SmeClause, RegionClause, Written, Unmet
<1> QED
  BY <1>3, <1>4, <1>5, <1>6 DEF c

LEMMA SameFailures ==
    ASSUME NEW p \in FormType, NEW policy, RuleOK(policy)
    PROVE  {d.name : d \in {e \in clauses(p, policy.criteria) : Fails(e)}} = Failing(p, policy.criteria)
<1> DEFINE c == policy.criteria
           a1 == AgeClause(p, c)
           a2 == IncomeClause(p, c)
           a3 == AssetsClause(p, c)
           a4 == HomelessClause(p, c)
           a5 == NewlywedClause(p, c)
           a6 == SmeClause(p, c)
           a7 == RegionClause(p, c)
           unmet == Unmet(p, c)
<1>1. clauses(p, c) = {a1, a2, a3, a4, a5, a6, a7}
  BY ClausesWritten
<1>2. /\ a1.name = "age" /\ a2.name = "income" /\ a3.name = "assets" /\ a4.name = "homeless"
      /\ a5.name = "newlywed" /\ a6.name = "sme" /\ a7.name = "region"
  BY DEF AgeClause, IncomeClause, AssetsClause, HomelessClause, NewlywedClause, SmeClause, RegionClause, Written
<1>3. /\ Fails(a1) <=> unmet["age"]
      /\ Fails(a2) <=> unmet["income"]
      /\ Fails(a3) <=> unmet["assets"]
      /\ Fails(a4) <=> unmet["homeless"]
      /\ Fails(a5) <=> unmet["newlywed"]
      /\ Fails(a6) <=> unmet["sme"]
      /\ Fails(a7) <=> unmet["region"]
  BY ClauseFails
<1>4. Failing(p, c) = {r \in Reasons : unmet[r]}
  BY DEF Failing
<1> HIDE DEF c, a1, a2, a3, a4, a5, a6, a7, unmet
<1> DEFINE names == {d.name : d \in {e \in clauses(p, c) : Fails(e)}}
<1>5. \A r : r \in names <=> \E d \in {a1, a2, a3, a4, a5, a6, a7} : Fails(d) /\ r = d.name
  BY <1>1
<1> HIDE DEF names
<1>6. \A r : r \in names <=> \/ Fails(a1) /\ r = "age"
                             \/ Fails(a2) /\ r = "income"
                             \/ Fails(a3) /\ r = "assets"
                             \/ Fails(a4) /\ r = "homeless"
                             \/ Fails(a5) /\ r = "newlywed"
                             \/ Fails(a6) /\ r = "sme"
                             \/ Fails(a7) /\ r = "region"
  BY <1>2, <1>5
<1>7. names = {r \in Reasons : unmet[r]}
  BY <1>3, <1>6 DEF Reasons
<1> QED
  BY <1>4, <1>7 DEF names, c

LEMMA SameDoubts ==
    ASSUME NEW p \in FormType, NEW policy, RuleOK(policy), Failing(p, policy.criteria) = {}
    PROVE  (policy.checks \/ \E d \in clauses(p, policy.criteria) : d.applies /\ d.narrowly)
              <=> Doubtful(p, policy)
<1> DEFINE c == policy.criteria
           income == safe_int(p.annualIncome)
           a1 == AgeClause(p, c)
           a2 == IncomeClause(p, c)
           Narrow(d) == d.applies /\ d.narrowly
<1>1. /\ p.age \in Int /\ p.annualIncome \in Int
      /\ c.ageMin \in Int /\ c.ageMax \in Int /\ c.incomeMax \in Nat /\ K.margin \in Nat
  BY ConstantsAssumption DEF FormType, RuleOK
<1>2. safeInt(p.annualIncome) = income /\ income \in Nat
  <2>1. 1 \in Nat /\ 1 # 0
    OBVIOUS
  <2> QED
    BY <1>1, <2>1, SameNumbers, EnteredType
<1>3. ~Fails(a1) /\ ~Fails(a2)
  <2>1. "age" \in Reasons /\ "income" \in Reasons
    BY DEF Reasons
  <2>2. ~Unmet(p, c)["age"] /\ ~Unmet(p, c)["income"]
    BY <2>1 DEF Failing
  <2> QED
    BY <2>2, ClauseFails
<1>4. Narrow(a1) <=> (c.ageMax < K.noAgeMax /\ c.ageMax - p.age <= K.imminent)
  <2>1. a1.applies <=> c.ageMin > 0 \/ c.ageMax < K.noAgeMax
    BY DEF AgeClause, Written
  <2>2. a1.narrowly <=> a1.met /\ c.ageMax < K.noAgeMax /\ c.ageMax - p.age <= K.imminent
    BY DEF AgeClause, Written
  <2>3. a1.applies => a1.met
    BY <1>3 DEF Fails
  <2> HIDE DEF a1, c
  <2> QED
    BY <2>1, <2>2, <2>3
<1>5. Narrow(a2) <=> (c.incomeMax < K.noAmount /\ income_is_close(income, c.incomeMax))
  <2>1. a2.applies <=> c.incomeMax < K.noAmount
    BY DEF IncomeClause, Written
  <2>2. a2.narrowly <=> a2.met /\ c.incomeMax # 0 /\ income * 100 >= c.incomeMax * (100 - K.margin)
    BY <1>2 DEF IncomeClause, Written
  <2>3. a2.applies => a2.met
    BY <1>3 DEF Fails
  <2>4. income_is_close(income, c.incomeMax) <=> c.incomeMax > 0 /\ 100 * income >= (100 - K.margin) * c.incomeMax
    BY DEF income_is_close
  <2>5. (100 - K.margin) * c.incomeMax = c.incomeMax * (100 - K.margin) /\ 100 * income = income * 100
    <3>1. 100 - K.margin \in Int /\ c.incomeMax \in Int /\ income \in Int
      BY <1>1, <1>2
    <3> QED
      BY <3>1
  <2>6. c.incomeMax # 0 <=> c.incomeMax > 0
    BY <1>1
  <2> HIDE DEF a2, c, income
  <2> QED
    BY <2>1, <2>2, <2>3, <2>4, <2>5, <2>6
<1>6. \A d \in {AssetsClause(p, c), HomelessClause(p, c), NewlywedClause(p, c), SmeClause(p, c),
                RegionClause(p, c)} : ~d.narrowly
  <2>1. \A name, applies, met : ~Written(name, applies, met, FALSE).narrowly
    BY DEF Written
  <2>2. /\ ~AssetsClause(p, c).narrowly /\ ~HomelessClause(p, c).narrowly /\ ~NewlywedClause(p, c).narrowly
        /\ ~SmeClause(p, c).narrowly /\ ~RegionClause(p, c).narrowly
    BY <2>1 DEF AssetsClause, HomelessClause, NewlywedClause, SmeClause, RegionClause
  <2> QED
    BY <2>2
<1>7. clauses(p, c) = {a1, a2} \union {AssetsClause(p, c), HomelessClause(p, c), NewlywedClause(p, c),
                                       SmeClause(p, c), RegionClause(p, c)}
  BY ClausesWritten
<1>8. Doubtful(p, policy) <=> (\/ policy.checks
                               \/ c.ageMax < K.noAgeMax /\ c.ageMax - p.age <= K.imminent
                               \/ c.incomeMax < K.noAmount /\ income_is_close(income, c.incomeMax))
  BY DEF Doubtful
<1> HIDE DEF c, income, a1, a2
<1>9. (\E d \in clauses(p, c) : Narrow(d)) <=> (Narrow(a1) \/ Narrow(a2))
  BY <1>6, <1>7
<1> QED
  BY <1>4, <1>5, <1>8, <1>9 DEF c

LEMMA SameVerdict ==
    ASSUME NEW p \in FormType, NEW policy, RuleOK(policy)
    PROVE  evaluatePolicy(p, policy) = evaluate_policy(p, policy)
<1> DEFINE applied  == {d \in clauses(p, policy.criteria) : d.applies}
           failures == {d.name : d \in {e \in applied : ~e.met}}
           caveat   == policy.checks \/ \E d \in applied : d.narrowly
           status   == CASE failures # {} -> "ineligible"
                         [] failures = {} /\ caveat -> "conditional"
                         [] OTHER -> "eligible"
<1>1. evaluatePolicy(p, policy) =
        [id |-> policy.id, status |-> status, failures |-> failures, max |-> policy.max, rate |-> policy.rate]
  BY DEF evaluatePolicy
<1>2. {e \in applied : ~e.met} = {e \in clauses(p, policy.criteria) : Fails(e)}
  BY DEF Fails
<1>3. failures = Failing(p, policy.criteria)
  BY <1>2, SameFailures
<1>4. caveat <=> (policy.checks \/ \E d \in clauses(p, policy.criteria) : d.applies /\ d.narrowly)
  OBVIOUS
<1>5. failures = {} => (caveat <=> Doubtful(p, policy))
  BY <1>3, <1>4, SameDoubts
<1> HIDE DEF caveat, failures
<1>6. status = Status(p, policy)
  <2>1. CASE failures # {}
    BY <1>3, <2>1 DEF Status
  <2>2. CASE failures = {} /\ caveat
    BY <1>3, <1>5, <2>2 DEF Status
  <2>3. CASE failures = {} /\ ~caveat
    BY <1>3, <1>5, <2>3 DEF Status
  <2> QED
    BY <2>1, <2>2, <2>3
<1> HIDE DEF status
<1> QED
  BY <1>1, <1>3, <1>6, VerdictOf

LEMMA SamePolicies ==
    ASSUME NEW p \in FormType, NEW policies, policies \in Seq({q \in Rules : RuleOK(q)})
    PROVE  evaluatePolicies(p, policies) = evaluate_policies(p, policies)
<1> DEFINE list  == Evaluated(p, policies)
           local == [i \in DOMAIN policies |-> evaluatePolicy(p, policies[i])]
           keys(l) == [i \in DOMAIN l |-> <<POLICY_STATUS_ORDER[l[i].status], -l[i].max>>]
           a == Standing(list)
           b == Lending(list)
           pairs == [i \in DOMAIN list |-> <<a[i], b[i]>>]
<1>1. DOMAIN policies = 1 .. Len(policies) /\ Len(policies) \in Nat /\ \A i \in DOMAIN policies : RuleOK(policies[i])
  OBVIOUS
<1>2. local = list
  BY <1>1, SameVerdict DEF Evaluated
<1>3. evaluatePolicies(p, policies) = stableSort(local, keys(local))
  BY DEF evaluatePolicies
<1>4. list \in Seq(Verdicts)
  <2>1. \A i \in DOMAIN policies : evaluate_policy(p, policies[i]) \in Verdicts
    BY <1>1, VerdictType
  <2> QED
    BY <1>1, <2>1 DEF Evaluated
<1> HIDE DEF local, list
<1>5. keys(list) = pairs
  <2>1. \A i \in DOMAIN list : a[i] = POLICY_STATUS_ORDER[list[i].status] /\ b[i] = -list[i].max
    BY DEF Standing, Lending, POLICY_STATUS_ORDER, StatusOrder
  <2> QED
    BY <2>1
<1>6. Keys(list, a) /\ Keys(list, b)
  BY <1>4, StandingType
<1>7. ByStatus(list) = Lex(DOMAIN list, a, b)
  BY DEF ByStatus
<1> HIDE DEF a, b
<1>8. stableSort(list, pairs) = Sorted(list, Lex(DOMAIN list, a, b))
  BY <1>4, <1>6, LocalSort
<1>9. evaluate_policies(p, policies) = Sorted(list, ByStatus(list))
  BY <1>4, ServerSortsPolicies DEF list
<1> QED
  BY <1>2, <1>3, <1>5, <1>7, <1>8, <1>9

LEMMA SameRate == \A deposit : guaranteeRatePctFor(deposit) = guarantee_rate_pct_for(deposit)
<1> SUFFICES ASSUME NEW deposit PROVE guaranteeRatePctFor(deposit) = guarantee_rate_pct_for(deposit)
  OBVIOUS
<1> DEFINE bracket == IF \E b \in Bounds : deposit <= b THEN Smallest(Fitting(deposit)) ELSE K.noBound
           cells == {row.rate : row \in {r \in K.rateTable : r.upTo = bracket}}
<1>1. guaranteeRatePctFor(deposit) = Largest(cells)
  BY DEF guaranteeRatePctFor, Bounds, Fitting
<1>2. Smallest(Fitting(deposit)) = CHOOSE b \in Fitting(deposit) : \A other \in Fitting(deposit) : b <= other
  BY DEF Smallest
<1>3. (\E b \in Bounds : deposit <= b) <=> Fitting(deposit) # {}
  BY DEF Fitting
<1>4. bracket = Bracket(deposit)
  BY <1>2, <1>3 DEF Bracket
<1> HIDE DEF bracket
<1>5. cells = Cells(deposit)
  BY <1>4 DEF Cells
<1> HIDE DEF cells
<1>6. guarantee_rate_pct_for(deposit)
        = CHOOSE rate \in Cells(deposit) : \A other \in Cells(deposit) : rate >= other
  BY DEF guarantee_rate_pct_for, Cells, Bracket, Fitting, Bounds
<1>7. Largest(Cells(deposit)) = CHOOSE rate \in Cells(deposit) : \A other \in Cells(deposit) : rate >= other
  BY DEF Largest
<1> QED
  BY <1>1, <1>5, <1>6, <1>7

LEMMA SameLoanSize ==
    ASSUME NEW deposit \in Nat, NEW assets \in Nat, NEW cap \in Nat
    PROVE  sizeLoan(deposit, assets, cap) = size_loan(deposit, assets, cap)
<1> DEFINE share == (deposit * K.ltv) \div 100
           needed == Most(0, deposit - assets)
           loan == Least(needed, Least(share, cap))
<1>1. safe_int(deposit) = deposit /\ safe_int(assets) = assets /\ safe_int(cap) = cap
  BY DEF safe_int, Most
<1>2. size_loan(deposit, assets, cap) = floor_to(loan, K.depositUnit)
  BY <1>1 DEF size_loan
<1>3. share \in Int
  BY Amounts, Share
<1>4. Largest({0, deposit - assets}) = needed /\ needed \in Int
  <2>1. 0 \in Int /\ deposit - assets \in Int
    OBVIOUS
  <2> QED
    BY <2>1, OfTwo DEF Most
<1> HIDE DEF share, needed
<1>5. Smallest({needed, share, cap}) = loan
  BY <1>3, <1>4, OfThree
<1>6. loan \in Int
  BY <1>3, <1>4 DEF Least
<1>7. sizeLoan(deposit, assets, cap) = floorTo(loan, K.depositUnit)
  BY <1>4, <1>5 DEF sizeLoan, share
<1> HIDE DEF loan
<1>8. K.depositUnit \in Nat /\ K.depositUnit # 0
  BY Amounts
<1> QED
  BY <1>2, <1>6, <1>7, <1>8, SameNumbers

(***************************************************************************)
(* One scenario, from the arguments the browser passes for it.             *)
(***************************************************************************)
Arguments(s, maintenance, assets, afford, preferred, guarantee, cap) ==
    [id |-> s.id, type |-> s.type, deposit |-> s.deposit, rent |-> s.rent, loan |-> s.loan,
     rate |-> s.rate, product |-> s.product, maintenance |-> maintenance,
     assets |-> assets, afford |-> afford, preferred |-> preferred, guarantee |-> guarantee, cap |-> cap]

LEMMA SameCosts ==
    ASSUME NEW amount \in Nat, NEW rate \in Nat
    PROVE  roundHalf(amount * rate * K.years, 10000) = Costs(amount, rate)
<1> DEFINE q == amount * rate
<1>1. q \in Nat
  OBVIOUS
<1> HIDE DEF q
<1>2. q * K.years \in Int
  BY <1>1, Amounts
<1>3. roundHalf(q * K.years, 10000) = round(q * K.years, 10000)
  BY <1>2, SameNumbers
<1> QED
  BY <1>3 DEF Costs, q

LEMMA SameAffordScore ==
    ASSUME NEW monthly \in Nat, NEW rec \in Nat
    PROVE  afford_score(monthly, rec) =
             CASE rec = 0 -> 0
               [] rec > 0 /\ monthly <= rec -> 100 * K.affordWeight
               [] OTHER -> Largest({0, 100 * K.affordWeight
                                        - ((100 * K.overrunSlope * (monthly - rec)) \div rec)})
<1>1. K.affordWeight \in Nat /\ K.overrunSlope \in Nat
  BY ConstantsAssumption
<1> DEFINE overrun == 100 * K.overrunSlope * (monthly - rec)
           full == 100 * K.affordWeight
           rest == full - (overrun \div rec)
<1>2. overrun \in Int /\ full \in Int
  BY <1>1
<1>3. afford_score(monthly, rec) = IF rec = 0 THEN 0 ELSE IF monthly <= rec THEN full ELSE Most(0, rest)
  BY DEF afford_score
<1> HIDE DEF overrun, full
<1>4. rec # 0 => Largest({0, rest}) = Most(0, rest)
  <2> SUFFICES ASSUME rec # 0 PROVE Largest({0, rest}) = Most(0, rest)
    OBVIOUS
  <2>1. overrun \div rec \in Int
    BY <1>2, Quotient
  <2>2. rest \in Int /\ 0 \in Int
    BY <1>2, <2>1
  <2> HIDE DEF rest
  <2> QED
    BY <2>2, OfTwo
<1> HIDE DEF rest
<1>5. rec > 0 <=> rec # 0
  OBVIOUS
<1>6. CASE rec = 0
  BY <1>3, <1>6
<1>7. CASE rec # 0 /\ monthly <= rec
  BY <1>3, <1>5, <1>7 DEF full
<1>8. CASE rec # 0 /\ ~(monthly <= rec)
  BY <1>3, <1>4, <1>5, <1>8 DEF rest, full, overrun
<1> QED
  BY <1>6, <1>7, <1>8

LEMMA SameCapitalScore ==
    ASSUME NEW own \in Nat, NEW assets \in Nat
    PROVE  CapitalScore(own, assets) =
             IF own <= 0 THEN 100 * K.capitalWeight
             ELSE 100 * K.capitalWeight - ((100 * K.capitalWeight * Largest({0, own - assets})) \div own)
<1>1. Largest({0, own - assets}) = Most(0, own - assets)
  <2>1. 0 \in Int /\ own - assets \in Int
    OBVIOUS
  <2> QED
    BY <2>1, OfTwo
<1>2. own <= 0 <=> own = 0
  OBVIOUS
<1> QED
  BY <1>1, <1>2 DEF CapitalScore

LEMMA SameScenario ==
    ASSUME NEW s, Ways(s), NEW maintenance \in Nat, NEW assets \in Nat, NEW afford \in AffordType,
           NEW preferred, NEW guarantee \in BOOLEAN, NEW cap \in Nat
    PROVE  evaluateScenario(Arguments(s, maintenance, assets, afford, preferred, guarantee, cap))
             = evaluate_scenario(s, maintenance, assets, afford, preferred, guarantee, cap)
<1> DEFINE months    == 12 * K.years
           loan      == Least(s.loan, s.deposit)
           own       == s.deposit - loan
           insured   == guarantee /\ 0 < s.deposit /\ s.deposit <= cap
           cost      == [interest    |-> Costs(loan, s.rate),
                         rent        |-> s.rent * months,
                         maintenance |-> maintenance * months,
                         opportunity |-> Costs(own, K.opportunity),
                         insurance   |-> IF insured THEN Fee(s.deposit) ELSE 0]
           tco       == cost.interest + cost.rent + cost.maintenance + cost.opportunity + cost.insurance
           monthly   == floor_to(tco \div months, K.monthlyUnit)
           npv       == round(tco * K.annuity, 10 * months)
           verdict   == IF afford.max = 0 THEN "unaffordable"
                        ELSE IF monthly <= afford.recommended THEN "affordable"
                        ELSE IF monthly <= afford.max THEN "stretch" ELSE "unaffordable"
           score     == afford_score(monthly, afford.recommended)
           capital   == CapitalScore(own, assets)
           prefer    == 100 * (IF preferred \in {"any", s.type} THEN K.preferMatch ELSE K.preferMismatch)
           fit       == Least(100, round(score + capital + prefer, 100))
           schwabe   == IF afford.netIncome > 0 THEN round(1000 * monthly, afford.netIncome) ELSE -1
           args      == Arguments(s, maintenance, assets, afford, preferred, guarantee, cap)
           Months    == K.years * 12
           Loan1     == Smallest({s.loan, s.deposit})
           Own       == Largest({0, s.deposit - Loan1})
           Use       == guarantee /\ s.deposit > 0 /\ s.deposit <= cap
           Paid(amount, rate) == roundHalf(amount * rate * K.years, 10000)
           Insurance == roundHalf(s.deposit * guaranteeRatePctFor(s.deposit) * K.years, 100000)
           Cost      == [interest |-> Paid(Loan1, s.rate), rent |-> s.rent * Months,
                         maintenance |-> maintenance * Months,
                         opportunity |-> Paid(Own, K.opportunity),
                         insurance |-> IF Use THEN Insurance ELSE 0]
           Tco       == Cost.interest + Cost.rent + Cost.maintenance + Cost.opportunity + Cost.insurance
           Monthly   == floorTo(Tco \div Months, K.monthlyUnit)
           Npv       == roundHalf(Tco * K.annuity, 10 * Months)
           rec       == afford.recommended
           Score     == CASE rec = 0 -> 0
                          [] rec > 0 /\ Monthly <= rec -> 100 * K.affordWeight
                          [] OTHER -> Largest({0, 100 * K.affordWeight
                                                   - ((100 * K.overrunSlope * (Monthly - rec)) \div rec)})
           Capital   == IF Own <= 0 THEN 100 * K.capitalWeight
                        ELSE 100 * K.capitalWeight - ((100 * K.capitalWeight * Largest({0, Own - assets})) \div Own)
           Prefer    == IF preferred = "any" \/ preferred = s.type THEN K.preferMatch ELSE K.preferMismatch
           Fit       == Smallest({100, roundHalf(Score + Capital + 100 * Prefer, 100)})
           Verdict   == CASE afford.max <= 0 -> "unaffordable"
                          [] afford.max > 0 /\ Monthly <= rec -> "affordable"
                          [] OTHER -> IF afford.max > 0 /\ Monthly <= afford.max THEN "stretch" ELSE "unaffordable"
           Schwabe   == IF afford.netIncome > 0 THEN roundHalf(Monthly * 1000, afford.netIncome) ELSE -1
<1>1. evaluate_scenario(s, maintenance, assets, afford, preferred, guarantee, cap) =
        [id |-> s.id, type |-> s.type, product |-> s.product, deposit |-> s.deposit, rent |-> s.rent,
         loan |-> loan, rate |-> s.rate, cost |-> cost, tco |-> tco, monthly |-> monthly,
         npv |-> npv, verdict |-> verdict, fit |-> fit, schwabe |-> schwabe]
  BY DEF evaluate_scenario, Costs, Fee, CapitalScore
<1>2. /\ args.id = s.id /\ args.type = s.type /\ args.deposit = s.deposit /\ args.rent = s.rent
      /\ args.loan = s.loan /\ args.rate = s.rate /\ args.product = s.product
      /\ args.maintenance = maintenance /\ args.assets = assets /\ args.afford = afford
      /\ args.preferred = preferred /\ args.guarantee = guarantee /\ args.cap = cap
  BY DEF Arguments
<1> HIDE DEF args
<1>3. evaluateScenario(args) =
        [id |-> s.id, type |-> s.type, product |-> s.product, deposit |-> s.deposit, rent |-> s.rent,
         loan |-> Loan1, rate |-> s.rate, cost |-> Cost, tco |-> Tco, monthly |-> Monthly,
         npv |-> Npv, verdict |-> Verdict, fit |-> Fit, schwabe |-> Schwabe]
  BY <1>2 DEF evaluateScenario
<1>4. s.deposit \in Nat /\ s.rent \in Nat /\ s.loan \in Nat /\ s.rate \in Nat
  BY DEF Ways
<1>5. Loan1 = loan /\ loan \in Nat /\ loan <= s.deposit
  <2> DEFINE x == s.loan
             y == s.deposit
  <2>1. x \in Nat /\ y \in Nat
    BY <1>4
  <2> HIDE DEF x, y
  <2>2. Smallest({x, y}) = Least(x, y)
    BY <2>1, OfTwo
  <2>3. Least(x, y) \in Nat /\ Least(x, y) <= y
    BY <2>1 DEF Least
  <2> QED
    BY <2>2, <2>3 DEF x, y
<1> HIDE DEF loan, Loan1
<1>6. Own = own /\ own \in Nat
  <2>1. 0 \in Int /\ s.deposit - loan \in Int /\ s.deposit - loan >= 0
    BY <1>4, <1>5
  <2>2. Largest({0, s.deposit - loan}) = Most(0, s.deposit - loan)
    BY <2>1, OfTwo
  <2> QED
    BY <1>5, <2>1, <2>2 DEF Most
<1>7. Months = months /\ months \in Nat /\ months # 0
  BY Amounts
<1>8. Use <=> insured
  BY <1>4
<1> HIDE DEF own, Own, months, Months, insured, Use
<1>9. /\ Paid(Loan1, s.rate) = Costs(loan, s.rate) /\ Paid(Own, K.opportunity) = Costs(own, K.opportunity)
      /\ Insurance = Fee(s.deposit)
  <2> DEFINE dep == s.deposit
             rate == guarantee_rate_pct_for(dep)
  <2>5. K.opportunity \in Nat
    BY ConstantsAssumption
  <2>6. dep \in Nat
    BY <1>4
  <2>7. Fee(dep) = round(dep * rate * K.years, 100000)
    BY DEF Fee
  <2>8. guaranteeRatePctFor(dep) = rate
    BY SameRate
  <2> HIDE DEF dep
  <2>9. rate \in Nat
    BY <2>6, GuaranteeRate
  <2> HIDE DEF rate
  <2>10. roundHalf(dep * rate * K.years, 100000) = round(dep * rate * K.years, 100000)
    <3> DEFINE product == dep * rate
               n == product * K.years
    <3>1. product \in Nat
      BY <2>6, <2>9
    <3> HIDE DEF product
    <3>2. n \in Int
      BY <3>1, Amounts
    <3> HIDE DEF n
    <3>3. roundHalf(n, 100000) = round(n, 100000)
      BY <3>2, SameNumbers
    <3> QED
      BY <3>3 DEF n, product
  <2>2. Paid(loan, s.rate) = Costs(loan, s.rate)
    <3>1. loan \in Nat /\ s.rate \in Nat
      BY <1>4, <1>5
    <3> HIDE DEF loan
    <3> QED
      BY <3>1, SameCosts
  <2>3. Paid(own, K.opportunity) = Costs(own, K.opportunity)
    BY <1>6, <2>5, SameCosts
  <2>4. Insurance = Fee(s.deposit)
    BY <2>7, <2>8, <2>10 DEF dep
  <2> HIDE DEF Paid, Insurance
  <2> QED
    BY <1>5, <1>6, <2>2, <2>3, <2>4
<1> HIDE DEF Paid, Insurance
<1>10. Cost = cost
  <2>1. s.rent * Months = s.rent * months /\ maintenance * Months = maintenance * months
    BY <1>7
  <2> QED
    BY <1>8, <1>9, <2>1
<1>11. tco \in Nat
  <2>1. /\ Costs(loan, s.rate) \in Nat /\ Costs(own, K.opportunity) \in Nat /\ Fee(s.deposit) \in Nat
        /\ s.rent * months \in Nat /\ maintenance * months \in Nat
    <3>1. K.opportunity \in Nat
      BY ConstantsAssumption
    <3>2. Costs(loan, s.rate) \in Nat
      BY <1>4, <1>5, CostType
    <3>3. Costs(own, K.opportunity) \in Nat
      BY <1>6, <3>1, CostType
    <3>4. Fee(s.deposit) \in Nat
      BY <1>4, FeeType
    <3>5. s.rent * months \in Nat /\ maintenance * months \in Nat
      BY <1>4, <1>7
    <3> QED
      BY <3>2, <3>3, <3>4, <3>5
  <2>2. /\ cost.interest = Costs(loan, s.rate) /\ cost.rent = s.rent * months
        /\ cost.maintenance = maintenance * months /\ cost.opportunity = Costs(own, K.opportunity)
        /\ cost.insurance = IF insured THEN Fee(s.deposit) ELSE 0
    OBVIOUS
  <2>3. /\ cost.interest \in Nat /\ cost.rent \in Nat /\ cost.maintenance \in Nat
        /\ cost.opportunity \in Nat /\ cost.insurance \in Nat
    BY <2>1, <2>2
  <2> HIDE DEF cost
  <2> QED
    BY <2>3
<1>12. Tco = tco
  BY <1>10
<1> HIDE DEF cost, Cost, tco, Tco
<1>13. Monthly = monthly /\ monthly \in Nat
  <2>1. tco \div months \in Int /\ K.monthlyUnit \in Nat /\ K.monthlyUnit # 0
    BY <1>7, <1>11, Quotient, Amounts
  <2> DEFINE q == tco \div months
  <2> HIDE DEF q
  <2>2. floorTo(q, K.monthlyUnit) = floor_to(q, K.monthlyUnit) /\ floor_to(q, K.monthlyUnit) \in Nat
    BY <2>1, SameNumbers, FloorFacts DEF q
  <2> QED
    BY <1>7, <1>12, <2>2 DEF q
<1>21. Npv = npv
  <2> DEFINE n == tco * K.annuity
             parts == 10 * months
  <2>1. K.annuity \in Nat
    BY ConstantsAssumption
  <2>2. n \in Int
    BY <1>11, <2>1
  <2>3. parts \in Nat /\ parts # 0
    BY <1>7
  <2> HIDE DEF n, parts
  <2>4. roundHalf(n, parts) = round(n, parts)
    BY <2>2, <2>3, SameNumbers
  <2> QED
    BY <1>7, <1>12, <2>4 DEF n, parts
<1> HIDE DEF monthly, Monthly, npv, Npv
<1>14. afford.max \in Nat /\ rec \in Nat /\ afford.netIncome \in Nat
  BY DEF AffordType
<1>15. Verdict = verdict
  <2> HIDE DEF rec
  <2>1. afford.max <= 0 <=> afford.max = 0
    BY <1>14
  <2>2. afford.max > 0 <=> afford.max # 0
    BY <1>14
  <2>3. verdict = IF afford.max = 0 THEN "unaffordable"
                  ELSE IF monthly <= rec THEN "affordable"
                  ELSE IF monthly <= afford.max THEN "stretch" ELSE "unaffordable"
    BY DEF rec
  <2>4. CASE afford.max = 0
    BY <2>1, <2>2, <2>3, <2>4
  <2>5. CASE afford.max # 0 /\ monthly <= rec
    BY <1>13, <2>1, <2>2, <2>3, <2>5
  <2>6. CASE afford.max # 0 /\ ~(monthly <= rec)
    BY <1>13, <2>1, <2>2, <2>3, <2>6
  <2> QED
    BY <2>4, <2>5, <2>6
<1> HIDE DEF verdict, Verdict
<1>16. Score = score /\ score \in Int
  <2> HIDE DEF rec, Score, score
  <2>1. afford_score(monthly, rec) \in Int
    BY <1>13, <1>14, AffordScoreType
  <2>2. afford_score(monthly, rec) = score
    BY DEF rec, score
  <2> DEFINE cases(m) == CASE rec = 0 -> 0
                           [] rec > 0 /\ m <= rec -> 100 * K.affordWeight
                           [] OTHER -> Largest({0, 100 * K.affordWeight
                                                    - ((100 * K.overrunSlope * (m - rec)) \div rec)})
  <2>3. Score = cases(Monthly)
    BY DEF Score
  <2>4. afford_score(monthly, rec) = cases(monthly)
    BY <1>13, <1>14, SameAffordScore
  <2> HIDE DEF cases
  <2> QED
    BY <1>13, <2>1, <2>2, <2>3, <2>4
<1>17. Capital = capital /\ capital \in Int
  <2>1. CapitalScore(own, assets) \in Int
    BY <1>6, CapitalScoreType
  <2> HIDE DEF Capital
  <2>2. CapitalScore(own, assets) = Capital
    BY <1>6, SameCapitalScore DEF Capital
  <2> QED
    BY <2>1, <2>2
<1>18. 100 * Prefer = prefer /\ prefer \in Int
  <2>1. K.preferMatch \in Nat /\ K.preferMismatch \in Nat
    BY ConstantsAssumption
  <2> QED
    BY <2>1
<1> HIDE DEF Score, score, Capital, capital, Prefer, prefer, rec
<1>19. Fit = fit
  <2> DEFINE sum == score + capital + prefer
  <2>1. sum \in Int /\ Score + Capital + 100 * Prefer = sum
    BY <1>16, <1>17, <1>18
  <2> HIDE DEF sum
  <2>2. roundHalf(sum, 100) = round(sum, 100) /\ round(sum, 100) \in Int
    BY <2>1, SameNumbers, RoundFacts
  <2>3. 100 \in Int
    OBVIOUS
  <2>4. Smallest({100, round(sum, 100)}) = Least(100, round(sum, 100))
    BY <2>2, <2>3, OfTwo
  <2>5. Fit = Smallest({100, roundHalf(sum, 100)})
    BY <2>1
  <2>6. fit = Least(100, round(sum, 100))
    BY DEF sum
  <2> QED
    BY <2>2, <2>4, <2>5, <2>6
<1>20. Schwabe = schwabe
  <2>1. CASE afford.netIncome > 0
    <3>1. 1000 * monthly \in Int /\ Monthly * 1000 = 1000 * monthly /\ afford.netIncome # 0
      BY <1>13, <1>14, <2>1
    <3> DEFINE n == 1000 * monthly
    <3> HIDE DEF n
    <3>2. roundHalf(n, afford.netIncome) = round(n, afford.netIncome)
      BY <1>14, <3>1, SameNumbers DEF n
    <3> QED
      BY <2>1, <3>1, <3>2 DEF n
  <2>2. CASE ~(afford.netIncome > 0)
    BY <2>2
  <2> QED
    BY <2>1, <2>2
<1> HIDE DEF fit, Fit, schwabe, Schwabe
<1>22. evaluateScenario(args) = evaluate_scenario(s, maintenance, assets, afford, preferred, guarantee, cap)
  BY <1>1, <1>3, <1>5, <1>10, <1>12, <1>13, <1>15, <1>19, <1>20, <1>21
<1> QED
  BY <1>22 DEF args

(***************************************************************************)
(* The four scenarios.                                                     *)
(***************************************************************************)
LocalScenario(w, region, assets, afford, preferred, cap) ==
    evaluateScenario(Arguments(w, region.maintenance, assets, afford, preferred, region.guarantee, cap))

LocalWay(id, type, deposit, rent, loan, rate, product, region, assets, afford, preferred, cap) ==
    evaluateScenario([id |-> id, type |-> type, deposit |-> deposit, rent |-> rent, loan |-> loan,
                      rate |-> rate, product |-> product, maintenance |-> region.maintenance,
                      assets |-> assets, afford |-> afford, preferred |-> preferred,
                      guarantee |-> region.guarantee, cap |-> cap])

LEMMA LocalWays ==
    ASSUME NEW id, NEW type, NEW deposit, NEW rent, NEW loan, NEW rate, NEW product,
           NEW region, NEW assets, NEW afford, NEW preferred, NEW cap
    PROVE  LocalWay(id, type, deposit, rent, loan, rate, product, region, assets, afford, preferred, cap)
             = LocalScenario(Way(id, type, deposit, rent, loan, rate, product),
                             region, assets, afford, preferred, cap)
<1> DEFINE w == Way(id, type, deposit, rent, loan, rate, product)
<1>1. /\ w.id = id /\ w.type = type /\ w.deposit = deposit /\ w.rent = rent /\ w.loan = loan
      /\ w.rate = rate /\ w.product = product
  BY DEF Way
<1> HIDE DEF w
<1>2. LocalScenario(w, region, assets, afford, preferred, cap)
        = LocalWay(id, type, deposit, rent, loan, rate, product, region, assets, afford, preferred, cap)
  BY <1>1 DEF LocalScenario, LocalWay, Arguments
<1> QED
  BY <1>2 DEF w

(* What the browser makes of a region and the two loans. *)
conversionOf(region) == IF region.conversion # 0 THEN region.conversion ELSE K.conversion
capOf(region, jeonse) == IF jeonse.name # "none" THEN jeonse.max ELSE (region.jeonse * K.ltv) \div 100
rateOf(loan) == IF loan.rate # 0 THEN loan.rate ELSE K.jeonseRate
semiOf(region) == floorTo((region.jeonse * K.semiShare) \div 100, K.depositUnit)
lowOf(region) == Smallest({K.lowDeposit, region.deposit})
convertedOf(region, amount) == floorTo((amount * conversionOf(region)) \div 120000, K.monthlyUnit)

LocalWaysOf(region, assets, afford, jeonse, standard, preferred, cap) ==
    <<LocalWay("jeonse_loan", "jeonse", region.jeonse, 0,
               sizeLoan(region.jeonse, assets, capOf(region, jeonse)), rateOf(jeonse), jeonse.name,
               region, assets, afford, preferred, cap),
      LocalWay("semi_jeonse", "monthly", semiOf(region), convertedOf(region, region.jeonse - semiOf(region)),
               sizeLoan(semiOf(region), assets, capOf(region, jeonse)), rateOf(jeonse), jeonse.name,
               region, assets, afford, preferred, cap),
      LocalWay("monthly_standard", "monthly", region.deposit, region.rent,
               sizeLoan(region.deposit, assets, standard.max), rateOf(standard), standard.name,
               region, assets, afford, preferred, cap),
      LocalWay("monthly_low_deposit", "monthly", lowOf(region),
               region.rent + convertedOf(region, region.deposit - lowOf(region)), 0, 0, "none",
               region, assets, afford, preferred, cap)>>

FitKeys(list) == [i \in DOMAIN list |-> <<-list[i].fit, list[i].monthly>>]

LEMMA LocalSortsWays ==
    ASSUME NEW region, NEW assets, NEW afford, NEW jeonse, NEW standard, NEW preferred, NEW cap
    PROVE  LET list == LocalWaysOf(region, assets, afford, jeonse, standard, preferred, cap)
           IN  buildScenarios(region, assets, afford, jeonse, standard, preferred, cap)
                 = stableSort(list, FitKeys(list))
  BY DEF buildScenarios, LocalWaysOf, LocalWay, FitKeys, conversionOf, capOf, rateOf, semiOf, lowOf, convertedOf

LEMMA SameAmounts ==
    ASSUME NEW region, RegionOK(region), NEW jeonse \in Loan, jeonse = NoLoan \/ jeonse.name # "none"
    PROVE  /\ conversionOf(region) = Conversion(region)
           /\ capOf(region, jeonse) = JeonseCap(region, jeonse)
           /\ \A loan : rateOf(loan) = RateOf(loan)
           /\ semiOf(region) = SemiDeposit(region)
           /\ lowOf(region) = LowDeposit(region)
           /\ \A amount \in Int : convertedOf(region, amount) = AsRent(region, amount)
<1>1. region.jeonse \in Nat /\ region.deposit \in Nat /\ region.conversion \in Nat
  BY RegionNumbers
<1>2. /\ K.conversion \in Nat /\ K.semiShare \in Nat /\ K.lowDeposit \in Nat
  BY ConstantsAssumption
<1>3. /\ K.depositUnit \in Nat /\ K.depositUnit # 0 /\ K.monthlyUnit \in Nat /\ K.monthlyUnit # 0
  BY Amounts
<1>4. conversionOf(region) = Conversion(region)
  BY DEF Conversion, conversionOf
<1>5. capOf(region, jeonse) = JeonseCap(region, jeonse)
  <2> DEFINE part == (region.jeonse * K.ltv) \div 100
  <2>1. JeonseCap(region, jeonse) = IF jeonse = NoLoan THEN part ELSE jeonse.max
    BY DEF JeonseCap
  <2>2. NoLoan.name = "none"
    BY DEF NoLoan
  <2>3. capOf(region, jeonse) = IF jeonse.name # "none" THEN jeonse.max ELSE part
    BY DEF capOf
  <2> HIDE DEF part
  <2>4. jeonse.name # "none" <=> jeonse # NoLoan
    BY <2>2
  <2> QED
    BY <2>1, <2>3, <2>4
<1>6. \A loan : rateOf(loan) = RateOf(loan)
  BY DEF RateOf, rateOf
<1>7. semiOf(region) = SemiDeposit(region)
  <2> DEFINE n == (region.jeonse * K.semiShare) \div 100
  <2>1. region.jeonse * K.semiShare \in Int
    BY <1>1, <1>2
  <2>2. n \in Int
    BY <2>1, Quotient
  <2> HIDE DEF n
  <2>3. floorTo(n, K.depositUnit) = floor_to(n, K.depositUnit)
    BY <1>3, <2>2, SameNumbers
  <2> QED
    BY <2>3 DEF n, SemiDeposit, semiOf
<1>8. lowOf(region) = LowDeposit(region)
  <2> DEFINE x == K.lowDeposit
             y == region.deposit
  <2>1. x \in Int /\ y \in Int
    BY <1>1, <1>2
  <2> HIDE DEF x, y
  <2>2. Smallest({x, y}) = Least(x, y)
    BY <2>1, OfTwo
  <2> QED
    BY <2>2 DEF x, y, LowDeposit, lowOf
<1>9. ASSUME NEW amount \in Int
      PROVE  convertedOf(region, amount) = AsRent(region, amount)
  <2>1. Conversion(region) \in Int
    BY <1>1, <1>2 DEF Conversion
  <2>2. amount * Conversion(region) \in Int
    BY <2>1
  <2> DEFINE n == (amount * Conversion(region)) \div 120000
  <2>3. n \in Int
    BY <2>2, Quotient
  <2> HIDE DEF n
  <2>4. floorTo(n, K.monthlyUnit) = floor_to(n, K.monthlyUnit)
    BY <1>3, <2>3, SameNumbers
  <2> QED
    BY <1>4, <2>4 DEF n, AsRent, convertedOf
<1> QED
  BY <1>4, <1>5, <1>6, <1>7, <1>8, <1>9

LEMMA SameEvaluation ==
    ASSUME NEW region, RegionOK(region), NEW assets \in Nat, NEW afford \in AffordType,
           NEW preferred, NEW cap \in Nat, NEW w, Ways(w)
    PROVE  /\ LocalScenario(w, region, assets, afford, preferred, cap)
                = Evaluation(w, region, assets, afford, preferred, cap)
           /\ Evaluation(w, region, assets, afford, preferred, cap).fit \in Int
           /\ Evaluation(w, region, assets, afford, preferred, cap).monthly \in Int
<1>1. region.maintenance \in Nat /\ region.guarantee \in BOOLEAN
  BY RegionNumbers
<1>2. LocalScenario(w, region, assets, afford, preferred, cap)
        = Evaluation(w, region, assets, afford, preferred, cap)
  BY <1>1, SameScenario DEF LocalScenario, Evaluation
<1>3. Scenario(Evaluation(w, region, assets, afford, preferred, cap), w, region.maintenance, afford,
               region.guarantee, cap)
  BY <1>1, ScenarioFacts DEF Evaluation
<1> QED
  BY <1>2, <1>3 DEF Scenario

LEMMA SameFourWays ==
    ASSUME NEW region, RegionOK(region), NEW assets \in Nat, NEW afford,
           NEW jeonse \in Loan, jeonse = NoLoan \/ jeonse.name # "none", NEW standard \in Loan,
           NEW preferred, NEW cap
    PROVE  LocalWaysOf(region, assets, afford, jeonse, standard, preferred, cap)
             = <<LocalScenario(JeonseWay(region, assets, jeonse), region, assets, afford, preferred, cap),
                 LocalScenario(SemiWay(region, assets, jeonse), region, assets, afford, preferred, cap),
                 LocalScenario(StandardWay(region, assets, standard), region, assets, afford, preferred, cap),
                 LocalScenario(LowWay(region), region, assets, afford, preferred, cap)>>
<1>1. /\ region.jeonse \in Nat /\ region.deposit \in Nat
  BY RegionNumbers
<1>2. JeonseCap(region, jeonse) \in Nat /\ SemiDeposit(region) \in Nat /\ LowDeposit(region) \in Nat
  BY WayTypes
<1>3. standard.max \in Nat
  BY DEF Loan
<1>4. /\ capOf(region, jeonse) = JeonseCap(region, jeonse)
      /\ rateOf(jeonse) = RateOf(jeonse) /\ rateOf(standard) = RateOf(standard)
      /\ semiOf(region) = SemiDeposit(region) /\ lowOf(region) = LowDeposit(region)
  BY SameAmounts
<1>5. sizeLoan(region.jeonse, assets, capOf(region, jeonse)) = size_loan(region.jeonse, assets, JeonseCap(region, jeonse))
  BY <1>1, <1>2, <1>4, SameLoanSize
<1>6. sizeLoan(semiOf(region), assets, capOf(region, jeonse)) = size_loan(SemiDeposit(region), assets, JeonseCap(region, jeonse))
  BY <1>2, <1>4, SameLoanSize
<1>7. convertedOf(region, region.jeonse - semiOf(region)) = AsRent(region, region.jeonse - SemiDeposit(region))
  <2>1. region.jeonse - SemiDeposit(region) \in Int
    BY <1>1, <1>2
  <2> QED
    BY <1>4, <2>1, SameAmounts
<1>8. sizeLoan(region.deposit, assets, standard.max) = size_loan(region.deposit, assets, standard.max)
  BY <1>1, <1>3, SameLoanSize
<1>9. convertedOf(region, region.deposit - lowOf(region)) = AsRent(region, region.deposit - LowDeposit(region))
  <2>1. region.deposit - LowDeposit(region) \in Int
    BY <1>1, <1>2
  <2> QED
    BY <1>4, <2>1, SameAmounts
<1> QED
  BY <1>4, <1>5, <1>6, <1>7, <1>8, <1>9, LocalWays
     DEF LocalWaysOf, JeonseWay, SemiWay, StandardWay, LowWay

LEMMA SameWays ==
    ASSUME NEW region, RegionOK(region), NEW assets \in Nat, NEW afford \in AffordType,
           NEW jeonse \in Loan, jeonse = NoLoan \/ jeonse.name # "none", NEW standard \in Loan,
           NEW preferred, NEW cap \in Nat
    PROVE  /\ buildScenarios(region, assets, afford, jeonse, standard, preferred, cap)
                = build_scenarios(region, assets, afford, jeonse, standard, preferred, cap)
           /\ HasFit(build_scenarios(region, assets, afford, jeonse, standard, preferred, cap))
           /\ \E S : build_scenarios(region, assets, afford, jeonse, standard, preferred, cap) \in Seq(S)
<1> DEFINE list == WaysOf(region, assets, afford, jeonse, standard, preferred, cap)
           sorted == Sorted(list, ByFit(list))
<1>1. LocalWaysOf(region, assets, afford, jeonse, standard, preferred, cap) = list
  <2>1. /\ Ways(JeonseWay(region, assets, jeonse)) /\ Ways(SemiWay(region, assets, jeonse))
        /\ Ways(StandardWay(region, assets, standard)) /\ Ways(LowWay(region))
    BY WayTypes
  <2>2. \A w : Ways(w) => LocalScenario(w, region, assets, afford, preferred, cap)
                            = Evaluation(w, region, assets, afford, preferred, cap)
    BY SameEvaluation
  <2> QED
    BY <2>1, <2>2, SameFourWays DEF WaysOf
<1>2. DOMAIN list = 1 .. 4 /\ HasFit(list) /\ \E S : list \in Seq(S)
  <2> DEFINE e1 == Evaluation(JeonseWay(region, assets, jeonse), region, assets, afford, preferred, cap)
             e2 == Evaluation(SemiWay(region, assets, jeonse), region, assets, afford, preferred, cap)
             e3 == Evaluation(StandardWay(region, assets, standard), region, assets, afford, preferred, cap)
             e4 == Evaluation(LowWay(region), region, assets, afford, preferred, cap)
  <2>1. list = <<e1, e2, e3, e4>>
    BY DEF WaysOf
  <2>2. /\ Ways(JeonseWay(region, assets, jeonse)) /\ Ways(SemiWay(region, assets, jeonse))
        /\ Ways(StandardWay(region, assets, standard)) /\ Ways(LowWay(region))
    BY WayTypes
  <2>3. \A w : Ways(w) => /\ Evaluation(w, region, assets, afford, preferred, cap).fit \in Int
                          /\ Evaluation(w, region, assets, afford, preferred, cap).monthly \in Int
    BY SameEvaluation
  <2>4. \A e \in {e1, e2, e3, e4} : e.fit \in Int /\ e.monthly \in Int
    BY <2>2, <2>3
  <2> HIDE DEF list, e1, e2, e3, e4
  <2>5. list \in Seq({e1, e2, e3, e4}) /\ DOMAIN list = 1 .. 4
    BY <2>1
  <2>6. \A i \in DOMAIN list : list[i] \in {e1, e2, e3, e4}
    BY <2>5, Positions
  <2> QED
    BY <2>4, <2>5, <2>6 DEF HasFit
<1>3. build_scenarios(region, assets, afford, jeonse, standard, preferred, cap) = sorted
  BY <1>2, ServerSortsWays
<1>4. buildScenarios(region, assets, afford, jeonse, standard, preferred, cap) = stableSort(list, FitKeys(list))
  BY <1>1, LocalSortsWays
<1> HIDE DEF list
<1>5. FitKeys(list) = [i \in DOMAIN list |-> <<Fits(list)[i], Prices(list)[i]>>]
  BY DEF FitKeys, Fits, Prices
<1>6. Keys(list, Fits(list)) /\ Keys(list, Prices(list))
  <2>1. \A i \in DOMAIN list : list[i].fit \in Int /\ list[i].monthly \in Int
    BY <1>2 DEF HasFit
  <2>2. \A i \in DOMAIN list : -list[i].fit \in Int
    BY <2>1
  <2>3. Fits(list) \in [DOMAIN list -> Int]
    BY <2>2 DEF Fits
  <2>4. Prices(list) \in [DOMAIN list -> Int]
    BY <2>1 DEF Prices
  <2> QED
    BY <2>3, <2>4 DEF Keys
<1>7. PICK S0 : list \in Seq(S0)
  BY <1>2
<1>8. stableSort(list, FitKeys(list)) = sorted
  BY <1>5, <1>6, <1>7, LocalSort DEF ByFit
<1>9. HasFit(sorted) /\ sorted \in Seq(S0)
  <2>1. StrictOrder(DOMAIN list, ByFit(list))
    <3>1. \A i \in DOMAIN list : i \in Int /\ Fits(list)[i] \in Int /\ Prices(list)[i] \in Int
      BY <1>2, <1>6 DEF Keys
    <3> QED
      BY <3>1, LexOrderOf DEF ByFit
  <2>2. /\ sorted \in Seq(S0) /\ DOMAIN sorted = DOMAIN list
        /\ \A k \in DOMAIN list : \E i \in DOMAIN list : sorted[k] = list[i]
    BY <1>7, <2>1, SortedFacts
  <2> HIDE DEF sorted
  <2> QED
    BY <1>2, <2>2 DEF HasFit
<1> QED
  BY <1>3, <1>4, <1>8, <1>9

(***************************************************************************)
(* E4: the band of a value, and the five factors.                          *)
(***************************************************************************)
LEMMA SameBand ==
    ASSUME NEW bounds, NEW factors, IsScale(bounds, factors), NEW value \in Int
    PROVE  /\ bandOf(value, bounds, factors) = Band(value, bounds, factors)
           /\ Band(value, bounds, factors).weight \in Nat
<1> DEFINE n == Len(bounds)
           D == DOMAIN bounds
           under == {i \in D : value < bounds[i]}
           over == {i \in D : value >= bounds[i]}
           m == IF under = {} THEN n + 1 ELSE Smallest(under)
<1>1. bounds \in Seq(Nat) /\ \A i, j \in D : i < j => bounds[i] < bounds[j]
  BY DEF IsScale
<1>2. D = 1 .. n /\ n \in Nat /\ IsFiniteSet(D) /\ \A i \in D : bounds[i] \in Int
  BY <1>1, Positions
<1>3. DOMAIN factors = 1 .. n + 1 /\ \A i \in DOMAIN factors : factors[i].weight \in Nat
  BY DEF IsScale
<1>4. bandOf(value, bounds, factors) = factors[m]
  BY DEF bandOf
<1>5. Band(value, bounds, factors) = factors[1 + Cardinality(over)]
  BY DEF Band
<1> HIDE DEF n, D
<1>6. m \in 1 .. n + 1 /\ over = 1 .. m - 1
  <2>1. CASE under = {}
    <3>1. over = D /\ m = n + 1
      BY <1>2, <2>1
    <3>2. n + 1 \in 1 .. n + 1 /\ D = 1 .. (n + 1) - 1
      BY <1>2
    <3> QED
      BY <3>1, <3>2
  <2>2. CASE under # {}
    <3>1. IsFiniteSet(under) /\ \A i \in under : i \in Int
      BY <1>2, FS_Subset
    <3> HIDE DEF under
    <3>2. PICK k \in under : \A i \in under : k <= i
      BY <2>2, <3>1, Extremes
    <3>3. Smallest(under) = k
      BY <3>1, <3>2, SmallestIs
    <3>4. m = k
      BY <2>2, <3>3
    <3>5. k \in D /\ k \in 1 .. n + 1
      BY <1>2, <3>2 DEF under
    <3>6. over = 1 .. k - 1
      <4>1. ASSUME NEW i \in over PROVE i \in 1 .. k - 1
        <5>1. i \in D /\ value >= bounds[i] /\ value < bounds[k] /\ bounds[i] \in Int /\ bounds[k] \in Int
          BY <1>2, <3>2, <3>5 DEF under
        <5>2. i # k /\ ~(k < i)
          BY <1>1, <3>5, <5>1 DEF D
        <5> QED
          BY <1>2, <3>5, <5>1, <5>2
      <4>2. ASSUME NEW i \in 1 .. k - 1 PROVE i \in over
        <5>1. i \in D /\ ~(k <= i)
          BY <1>2, <3>5
        <5>2. i \notin under /\ bounds[i] \in Int
          BY <1>2, <3>2, <5>1
        <5> QED
          BY <5>1, <5>2 DEF under
      <4> QED
        BY <4>1, <4>2
    <3> QED
      BY <3>4, <3>5, <3>6
  <2> QED
    BY <2>1, <2>2
<1> HIDE DEF m, over
<1>7. Cardinality(over) = m - 1
  <2>1. Cardinality(1 .. m - 1) = m - 1
    BY <1>2, <1>6, FS_Interval
  <2> QED
    BY <1>6, <2>1
<1>8. 1 + Cardinality(over) = m
  BY <1>2, <1>6, <1>7
<1> QED
  BY <1>3, <1>4, <1>5, <1>6, <1>8

LEMMA SameFactors ==
    ASSUME NEW region, RegionOK(region), NEW deposit \in Nat, NEW loan \in Nat, NEW cap \in Nat, cap # 0
    PROVE  /\ jeonseRatioFactor(region.ratio) = jeonse_ratio_factor(region.ratio)
           /\ jeonse_ratio_factor(region.ratio).weight \in Nat
           /\ loanShareFactor(loan, deposit) = loan_share_factor(loan, deposit)
           /\ loan_share_factor(loan, deposit).weight \in Nat
           /\ depositSizeFactor(deposit, cap) = deposit_size_factor(deposit, cap)
           /\ deposit_size_factor(deposit, cap).weight \in Nat
           /\ marketFactor(region.risk) = market_factor(region.risk)
           /\ market_factor(region.risk).weight \in Nat
<1>1. /\ IsScale(K.ratioBounds, K.ratioFactors) /\ IsScale(K.shareBounds, K.shareFactors)
      /\ IsScale(K.sizeBounds, K.sizeFactors)
      /\ "medium" \in DOMAIN K.market /\ \A risk \in DOMAIN K.market : K.market[risk].weight \in Nat
  BY ConstantsAssumption
<1> DEFINE pct == region.ratio
           share == IF deposit = 0 THEN 0 ELSE (100 * loan) \div deposit
           size == (100 * deposit) \div cap
<1>2. pct \in Nat
  BY RegionNumbers
<1> HIDE DEF pct
<1>3. jeonseRatioFactor(pct) = jeonse_ratio_factor(pct) /\ jeonse_ratio_factor(pct).weight \in Nat
  <2>1. CASE pct = 0
    <3>1. pct <= 0
      BY <2>1
    <3> QED
      BY <2>1, <3>1 DEF jeonseRatioFactor, jeonse_ratio_factor
  <2>2. CASE pct # 0
    <3>1. ~(pct <= 0) /\ pct \in Int
      BY <1>2, <2>2
    <3>2. bandOf(pct, K.ratioBounds, K.ratioFactors) = Band(pct, K.ratioBounds, K.ratioFactors)
          /\ Band(pct, K.ratioBounds, K.ratioFactors).weight \in Nat
      BY <1>1, <3>1, SameBand
    <3> QED
      BY <2>2, <3>1, <3>2 DEF jeonseRatioFactor, jeonse_ratio_factor
  <2> QED
    BY <2>1, <2>2
<1>4. share \in Int
  <2>1. deposit # 0 => (100 * loan) \div deposit \in Int
    BY Quotient
  <2> QED
    BY <2>1
<1>5. share = IF deposit # 0 THEN (loan * 100) \div deposit ELSE 0
  <2>1. 100 * loan = loan * 100
    OBVIOUS
  <2> QED
    BY <2>1
<1>6. loanShareFactor(loan, deposit) = bandOf(share, K.shareBounds, K.shareFactors)
  BY <1>5 DEF loanShareFactor
<1>7. loan_share_factor(loan, deposit) = Band(share, K.shareBounds, K.shareFactors)
  BY DEF loan_share_factor
<1>8. size \in Int /\ size = (deposit * 100) \div cap
  <2>1. (100 * deposit) \div cap \in Int
    BY Quotient
  <2>2. 100 * deposit = deposit * 100
    OBVIOUS
  <2> QED
    BY <2>1, <2>2
<1>9. depositSizeFactor(deposit, cap) = bandOf(size, K.sizeBounds, K.sizeFactors)
  BY <1>8 DEF depositSizeFactor
<1>10. deposit_size_factor(deposit, cap) = Band(size, K.sizeBounds, K.sizeFactors)
  BY DEF deposit_size_factor
<1> HIDE DEF share, size
<1>11. /\ loanShareFactor(loan, deposit) = loan_share_factor(loan, deposit)
       /\ loan_share_factor(loan, deposit).weight \in Nat
  BY <1>1, <1>4, <1>6, <1>7, SameBand
<1>12. /\ depositSizeFactor(deposit, cap) = deposit_size_factor(deposit, cap)
       /\ deposit_size_factor(deposit, cap).weight \in Nat
  BY <1>1, <1>8, <1>9, <1>10, SameBand
<1>13. marketFactor(region.risk) = market_factor(region.risk) /\ market_factor(region.risk).weight \in Nat
  BY <1>1 DEF marketFactor, market_factor
<1> QED
  BY <1>3, <1>11, <1>12, <1>13 DEF pct

LEMMA SameSum ==
    ASSUME NEW r \in Nat, NEW s \in Nat, NEW d \in Nat, NEW m \in Nat, NEW exposure \in Nat, NEW lack \in Nat
    PROVE  /\ (r + s) * exposure + lack + 10 * (d + m) \in Int
           /\ r * exposure + lack + s * exposure + d * 10 + m * 10
                = (r + s) * exposure + lack + 10 * (d + m)
<1> DEFINE x == r * exposure
           y == s * exposure
<1>1. x \in Nat /\ y \in Nat
  OBVIOUS
<1>2. (r + s) * exposure = x + y
  OBVIOUS
<1> HIDE DEF x, y
<1>3. x + lack + y + d * 10 + m * 10 = x + y + lack + 10 * (d + m) /\ x + y + lack + 10 * (d + m) \in Int
  BY <1>1
<1> QED
  BY <1>2, <1>3 DEF x, y

(* What the lack of a guarantee adds, as the server and as the browser say it. *)
LackOf(deposit, guaranteed) ==
    IF guaranteed THEN 0 ELSE K.noGuarantee * (IF deposit >= K.minimalExposure THEN 10 ELSE K.smallDeposit)
lackOf(deposit, guaranteed) ==
    (IF guaranteed THEN 0 ELSE K.noGuarantee) * (IF deposit >= K.minimalExposure THEN 10 ELSE K.smallDeposit)

RiskTotal(ratio, share, size, market, exposure, lack) ==
    Least(100, round((ratio.weight + share.weight) * exposure + lack + 10 * (size.weight + market.weight), 10))
riskTotal(jr, ls, ds, mf, exposure, lack) ==
    Smallest({100, roundHalf(jr.weight * exposure + lack + ls.weight * exposure
                               + ds.weight * 10 + mf.weight * 10, 10)})

LEMMA SameTotal ==
    ASSUME NEW ratio, NEW share, NEW size, NEW market, NEW exposure \in Nat, NEW lack \in Nat,
           ratio.weight \in Nat, share.weight \in Nat, size.weight \in Nat, market.weight \in Nat
    PROVE  /\ riskTotal(ratio, share, size, market, exposure, lack)
                = RiskTotal(ratio, share, size, market, exposure, lack)
           /\ RiskTotal(ratio, share, size, market, exposure, lack) \in Int
<1> DEFINE n == (ratio.weight + share.weight) * exposure + lack + 10 * (size.weight + market.weight)
           k == ratio.weight * exposure + lack + share.weight * exposure + size.weight * 10 + market.weight * 10
<1>1. n \in Int /\ k = n
  BY SameSum
<1>2. /\ riskTotal(ratio, share, size, market, exposure, lack) = Smallest({100, roundHalf(k, 10)})
      /\ RiskTotal(ratio, share, size, market, exposure, lack) = Least(100, round(n, 10))
  BY DEF riskTotal, RiskTotal
<1> HIDE DEF n, k
<1>3. 10 \in Nat /\ 10 # 0 /\ 100 \in Int
  OBVIOUS
<1>4. roundHalf(n, 10) = round(n, 10) /\ round(n, 10) \in Int
  BY <1>1, <1>3, SameNumbers, RoundFacts
<1>5. Smallest({100, round(n, 10)}) = Least(100, round(n, 10))
  BY <1>3, <1>4, OfTwo
<1>6. Least(100, round(n, 10)) \in Int
  BY <1>4 DEF Least
<1> QED
  BY <1>1, <1>2, <1>4, <1>5, <1>6

BandOfTotal(total) == IF total <= K.lowMax THEN "low" ELSE IF total <= K.mediumMax THEN "medium" ELSE "high"
bandOfTotal(total) ==
    CASE total <= K.lowMax -> "low"
      [] total > K.lowMax /\ total <= K.mediumMax -> "medium"
      [] OTHER -> "high"

LEMMA SameRiskBand ==
    ASSUME NEW total \in Int
    PROVE  bandOfTotal(total) = BandOfTotal(total)
<1>1. K.lowMax \in Int /\ K.mediumMax \in Int
  BY ConstantsAssumption
<1> DEFINE a == K.lowMax
           b == K.mediumMax
<1>2. total > a <=> ~(total <= a)
  BY <1>1
<1> HIDE DEF a, b
<1>3. CASE total <= a
  BY <1>2, <1>3 DEF bandOfTotal, BandOfTotal, a, b
<1>4. CASE ~(total <= a) /\ total <= b
  BY <1>2, <1>4 DEF bandOfTotal, BandOfTotal, a, b
<1>5. CASE ~(total <= a) /\ ~(total <= b)
  BY <1>2, <1>5 DEF bandOfTotal, BandOfTotal, a, b
<1> QED
  BY <1>3, <1>4, <1>5

DampedBy(exposure, impact) == IF exposure >= 10 THEN impact ELSE "low"

RiskReport(total, band, guaranteed, ratio, share, size, market, exposure) ==
    [score |-> total, band |-> band, guaranteed |-> guaranteed,
     impacts |-> <<DampedBy(exposure, ratio.impact), IF guaranteed THEN "low" ELSE "high",
                   DampedBy(exposure, share.impact), size.impact, market.impact>>]

LEMMA ServerRisk ==
    ASSUME NEW deposit, NEW loan, NEW region, NEW cap
    PROVE  LET exposure == exposure_multiplier(deposit)
               available == region.guarantee /\ deposit <= cap
               ratio == jeonse_ratio_factor(region.ratio)
               share == loan_share_factor(Least(loan, deposit), deposit)
               size == deposit_size_factor(deposit, cap)
               market == market_factor(region.risk)
               total == RiskTotal(ratio, share, size, market, exposure, LackOf(deposit, available))
           IN  scan_deposit_risk(deposit, loan, region, cap)
                 = RiskReport(total, BandOfTotal(total), available, ratio, share, size, market, exposure)
  BY DEF scan_deposit_risk, guarantee_available, RiskTotal, LackOf, BandOfTotal, RiskReport, DampedBy

LEMMA LocalRisk ==
    ASSUME NEW deposit, NEW loan, NEW region, NEW cap
    PROVE  LET exposure == exposureMultiplier(deposit)
               guaranteed == region.guarantee /\ ~(deposit > cap)
               jr == jeonseRatioFactor(region.ratio)
               ls == loanShareFactor(Smallest({loan, deposit}), deposit)
               ds == depositSizeFactor(deposit, cap)
               mf == marketFactor(region.risk)
               total == riskTotal(jr, ls, ds, mf, exposure, lackOf(deposit, guaranteed))
           IN  scanDepositRisk(deposit, loan, region, cap)
                 = RiskReport(total, bandOfTotal(total), guaranteed, jr, ls, ds, mf, exposure)
  BY DEF scanDepositRisk, riskTotal, lackOf, bandOfTotal, RiskReport, DampedBy

LEMMA SameExposure ==
    ASSUME NEW deposit \in Nat
    PROVE  /\ exposureMultiplier(deposit) = exposure_multiplier(deposit)
           /\ exposure_multiplier(deposit) \in Nat
           /\ \A guaranteed \in BOOLEAN :
                lackOf(deposit, guaranteed) = LackOf(deposit, guaranteed) /\ LackOf(deposit, guaranteed) \in Nat
<1>1. /\ K.lowExposure \in Nat /\ K.minimalExposure \in Nat /\ K.exposureLow \in Nat /\ K.exposureMinimal \in Nat
      /\ K.noGuarantee \in Nat /\ K.smallDeposit \in Nat
  BY ConstantsAssumption
<1> DEFINE a == K.lowExposure
           b == K.minimalExposure
<1>2. deposit < a <=> ~(deposit >= a)
  BY <1>1
<1>3. exposureMultiplier(deposit) =
        CASE deposit >= a -> 10 [] deposit < a /\ deposit >= b -> K.exposureLow [] OTHER -> K.exposureMinimal
  BY DEF exposureMultiplier
<1>4. exposure_multiplier(deposit) =
        IF deposit >= a THEN 10 ELSE IF deposit >= b THEN K.exposureLow ELSE K.exposureMinimal
  BY DEF exposure_multiplier
<1> HIDE DEF a, b
<1>5. /\ exposureMultiplier(deposit) = exposure_multiplier(deposit)
      /\ exposure_multiplier(deposit) \in Nat
  <2>1. CASE deposit >= a
    BY <1>2, <1>3, <1>4, <2>1
  <2>2. CASE ~(deposit >= a) /\ deposit >= b
    BY <1>1, <1>2, <1>3, <1>4, <2>2
  <2>3. CASE ~(deposit >= a) /\ ~(deposit >= b)
    BY <1>1, <1>2, <1>3, <1>4, <2>3
  <2> QED
    BY <2>1, <2>2, <2>3
<1>6. ASSUME NEW guaranteed \in BOOLEAN
      PROVE  lackOf(deposit, guaranteed) = LackOf(deposit, guaranteed) /\ LackOf(deposit, guaranteed) \in Nat
  <2> DEFINE part == IF deposit >= K.minimalExposure THEN 10 ELSE K.smallDeposit
  <2>1. part \in Nat
    BY <1>1
  <2>2. /\ lackOf(deposit, guaranteed) = (IF guaranteed THEN 0 ELSE K.noGuarantee) * part
        /\ LackOf(deposit, guaranteed) = IF guaranteed THEN 0 ELSE K.noGuarantee * part
    BY DEF lackOf, LackOf
  <2> HIDE DEF part
  <2>3. CASE guaranteed
    <3>1. 0 * part = 0
      BY <2>1
    <3> QED
      BY <2>2, <2>3, <3>1
  <2>4. CASE ~guaranteed
    <3>1. K.noGuarantee * part \in Nat
      BY <1>1, <2>1
    <3> QED
      BY <2>2, <2>4, <3>1
  <2> QED
    BY <2>3, <2>4
<1> QED
  BY <1>5, <1>6

LEMMA SameRisk ==
    ASSUME NEW region, RegionOK(region), NEW deposit \in Nat, NEW loan \in Nat, NEW cap \in Nat, cap # 0
    PROVE  scanDepositRisk(deposit, loan, region, cap) = scan_deposit_risk(deposit, loan, region, cap)
<1> DEFINE exposure == exposure_multiplier(deposit)
           available == region.guarantee /\ deposit <= cap
           guaranteed == region.guarantee /\ ~(deposit > cap)
           ratio == jeonse_ratio_factor(region.ratio)
           share == loan_share_factor(Least(loan, deposit), deposit)
           size == deposit_size_factor(deposit, cap)
           market == market_factor(region.risk)
           lack == LackOf(deposit, available)
           total == RiskTotal(ratio, share, size, market, exposure, lack)
<1>1. Smallest({loan, deposit}) = Least(loan, deposit) /\ Least(loan, deposit) \in Nat
  BY OfTwo DEF Least
<1>2. /\ jeonseRatioFactor(region.ratio) = ratio /\ ratio.weight \in Nat
      /\ loanShareFactor(Least(loan, deposit), deposit) = share /\ share.weight \in Nat
      /\ depositSizeFactor(deposit, cap) = size /\ size.weight \in Nat
      /\ marketFactor(region.risk) = market /\ market.weight \in Nat
  BY <1>1, SameFactors
<1>3. available \in BOOLEAN /\ guaranteed = available
  <2>1. region.guarantee \in BOOLEAN
    BY RegionNumbers
  <2>2. ~(deposit > cap) <=> deposit <= cap
    OBVIOUS
  <2> QED
    BY <2>1, <2>2
<1>4. exposureMultiplier(deposit) = exposure /\ exposure \in Nat
  BY SameExposure
<1>5. lackOf(deposit, available) = lack /\ lack \in Nat
  BY <1>3, SameExposure
<1>6. scan_deposit_risk(deposit, loan, region, cap)
        = RiskReport(total, BandOfTotal(total), available, ratio, share, size, market, exposure)
  BY ServerRisk
<1> HIDE DEF exposure, available, guaranteed, ratio, share, size, market, lack
<1>7. riskTotal(ratio, share, size, market, exposure, lack) = total /\ total \in Int
  <2>1. /\ ratio.weight \in Nat /\ share.weight \in Nat /\ size.weight \in Nat /\ market.weight \in Nat
        /\ exposure \in Nat /\ lack \in Nat
    BY <1>2, <1>4, <1>5
  <2>2. /\ riskTotal(ratio, share, size, market, exposure, lack)
             = RiskTotal(ratio, share, size, market, exposure, lack)
        /\ RiskTotal(ratio, share, size, market, exposure, lack) \in Int
    BY <2>1, SameTotal
  <2> QED
    BY <2>2 DEF total
<1>8. bandOfTotal(total) = BandOfTotal(total)
  BY <1>7, SameRiskBand
<1> DEFINE localTotal == riskTotal(ratio, share, size, market, exposure, lackOf(deposit, available))
<1>9. scanDepositRisk(deposit, loan, region, cap)
        = RiskReport(localTotal, bandOfTotal(localTotal), available, ratio, share, size, market, exposure)
  BY <1>1, <1>2, <1>3, <1>4, LocalRisk DEF guaranteed
<1>10. localTotal = total
  BY <1>5, <1>7
<1> QED
  BY <1>6, <1>8, <1>9, <1>10

(***************************************************************************)
(* The loan product: the browser walks down the priority list and keeps    *)
(* what it has met unless the next product is better, the server takes the *)
(* first of the best of all.                                               *)
(***************************************************************************)
Distinct(evaluated) ==
    \A i, j \in DOMAIN evaluated : evaluated[i].id = evaluated[j].id => i = j

OfferedAt(evaluated, priority, k) ==
    {evaluated[i] : i \in {j \in {n \in DOMAIN evaluated : evaluated[n].status \in {"eligible", "conditional"}} :
                              evaluated[j].id = priority[k]}}

Covers(gap, p) == IF gap # 0 THEN Smallest({gap, p.max}) ELSE p.max

Replaces(gap, p, best) ==
    \/ best = {}
    \/ \E b \in best : \/ Covers(gap, p) > Covers(gap, b)
                       \/ Covers(gap, p) = Covers(gap, b) /\ p.rate < b.rate

Advance(evaluated, priority, gap, k, before) ==
    IF \E p \in OfferedAt(evaluated, priority, k) : Replaces(gap, p, before)
    THEN OfferedAt(evaluated, priority, k) ELSE before

BestSoFar(evaluated, priority, gap) ==
    LET best[k \in 0 .. Len(priority)] ==
            IF k = 0 THEN {} ELSE Advance(evaluated, priority, gap, k, best[k - 1])
    IN  best

LEMMA LoanKept ==
    ASSUME NEW evaluated, NEW priority, NEW deposit, NEW assets
    PROVE  LET kept == BestSoFar(evaluated, priority, Largest({0, deposit - assets}))[Len(priority)]
           IN  loanOption(evaluated, priority, deposit, assets)
                 = IF kept = {} THEN NoLoan ELSE LoanOf(CHOOSE p \in kept : TRUE)
  BY DEF loanOption, BestSoFar, Advance, OfferedAt, Replaces, Covers, NoLoan, LoanOf

LEMMA OfferedIs ==
    ASSUME NEW evaluated \in Seq(Verdicts), Distinct(evaluated), NEW priority \in Seq(STRING),
           NEW k \in DOMAIN priority
    PROVE  OfferedAt(evaluated, priority, k)
             = IF k \in Products(evaluated, priority) THEN {Product(evaluated, priority, k)} ELSE {}
<1> DEFINE name == priority[k]
           U == {n \in DOMAIN evaluated : evaluated[n].status \in {"eligible", "conditional"}}
           offered == OfferedAt(evaluated, priority, k)
<1>1. \A n \in DOMAIN evaluated : evaluated[n] \in Verdicts
  BY Positions
<1>2. \A n \in DOMAIN evaluated :
        evaluated[n].status \in {"eligible", "conditional"} <=> evaluated[n].status # "ineligible"
  BY <1>1 DEF Verdicts, Statuses
<1>3. \A e : e \in offered <=> e \in Usable(evaluated) /\ e.id = name
  <2>1. \A e : e \in offered <=> \E n \in DOMAIN evaluated :
            /\ evaluated[n].status \in {"eligible", "conditional"} /\ evaluated[n].id = name /\ e = evaluated[n]
    BY DEF OfferedAt
  <2>2. \A e : e \in Usable(evaluated) <=> \E n \in DOMAIN evaluated : evaluated[n].status # "ineligible" /\ e = evaluated[n]
    BY DEF Usable
  <2> HIDE DEF offered, name
  <2> QED
    BY <1>2, <2>1, <2>2
<1>4. \A e, f \in Usable(evaluated) : e.id = f.id => e = f
  BY DEF Usable, Distinct
<1>5. k \in Products(evaluated, priority) <=> \E e \in Usable(evaluated) : e.id = name
  BY DEF Products
<1> HIDE DEF offered
<1>6. CASE k \in Products(evaluated, priority)
  <2> DEFINE p == Product(evaluated, priority, k)
  <2>1. p \in Usable(evaluated) /\ p.id = name
    BY <1>5, <1>6 DEF Product
  <2> HIDE DEF p, name
  <2>2. offered = {p}
    BY <1>3, <1>4, <2>1
  <2> QED
    BY <1>6, <2>2 DEF p, offered
<1>7. CASE k \notin Products(evaluated, priority)
  <2>1. offered = {}
    BY <1>3, <1>5, <1>7
  <2> QED
    BY <1>7, <2>1 DEF offered
<1> QED
  BY <1>6, <1>7

(* The best product among the first k of the list. *)
UpTo(evaluated, priority, k) == {m \in Products(evaluated, priority) : m <= k}

BestAmong(evaluated, priority, gap, k) ==
    {Product(evaluated, priority, m) :
        m \in {n \in UpTo(evaluated, priority, k) :
                  First(n, UpTo(evaluated, priority, k), Preference(evaluated, priority, gap))}}

LEMMA CoversIs ==
    ASSUME NEW gap \in Nat, NEW e \in Verdicts
    PROVE  Covers(gap, e) = Coverage(gap, e)
<1>1. e.max \in Int
  BY DEF Verdicts
<1> DEFINE x == e.max
<1>2. Smallest({gap, x}) = Least(gap, x)
  <2> HIDE DEF x
  <2> QED
    BY <1>1, OfTwo DEF x
<1>3. gap # 0 <=> gap > 0
  OBVIOUS
<1> QED
  BY <1>2, <1>3 DEF Covers, Coverage

LEMMA BestIsOne ==
    ASSUME NEW evaluated, NEW priority, NEW gap, NEW k, NEW m,
           StrictOrder(UpTo(evaluated, priority, k), Preference(evaluated, priority, gap)),
           First(m, UpTo(evaluated, priority, k), Preference(evaluated, priority, gap))
    PROVE  BestAmong(evaluated, priority, gap, k) = {Product(evaluated, priority, m)}
<1> DEFINE E == UpTo(evaluated, priority, k)
           R == Preference(evaluated, priority, gap)
<1> HIDE DEF E, R
<1>1. StrictOrder(E, R) /\ First(m, E, R)
  BY DEF E, R
<1>2. m \in E
  BY <1>1 DEF First
<1>3. \A n \in E : First(n, E, R) => n = m
  <2> SUFFICES ASSUME NEW n \in E, First(n, E, R), n # m PROVE FALSE
    OBVIOUS
  <2>1. <<n, m>> \in R /\ <<m, n>> \in R
    BY <1>1, <1>2 DEF First
  <2> QED
    BY <1>1, <1>2, <2>1 DEF StrictOrder
<1>4. {n \in E : First(n, E, R)} = {m}
  BY <1>1, <1>2, <1>3
<1>5. BestAmong(evaluated, priority, gap, k)
        = {Product(evaluated, priority, n) : n \in {n \in E : First(n, E, R)}}
  BY DEF BestAmong, E, R
<1> QED
  BY <1>4, <1>5

LEMMA KeepsTheBest ==
    ASSUME NEW evaluated \in Seq(Verdicts), Distinct(evaluated), NEW priority \in Seq(STRING), NEW gap \in Nat,
           NEW k \in 1 .. Len(priority)
    PROVE  Advance(evaluated, priority, gap, k, BestAmong(evaluated, priority, gap, k - 1))
             = BestAmong(evaluated, priority, gap, k)
<1> DEFINE D == Products(evaluated, priority)
           R == Preference(evaluated, priority, gap)
           P(m) == Product(evaluated, priority, m)
           B(n) == BestAmong(evaluated, priority, gap, n)
           U(n) == UpTo(evaluated, priority, n)
           cov(m) == Coverage(gap, P(m))
           offered == OfferedAt(evaluated, priority, k)
           next == Advance(evaluated, priority, gap, k, B(k - 1))
<1>1. /\ \A m \in D : /\ m \in Int /\ P(m) \in Verdicts /\ cov(m) \in Int /\ P(m).rate \in Int
      /\ IsFiniteSet(D) /\ StrictOrder(D, R)
      /\ \A m, n \in D : <<m, n>> \in R <=>
            \/ cov(m) > cov(n)
            \/ cov(m) = cov(n) /\ P(m).rate < P(n).rate
            \/ cov(m) = cov(n) /\ P(m).rate = P(n).rate /\ m < n
  <2>1. gap \in Int
    OBVIOUS
  <2> QED
    BY <2>1, ProductFacts
<1>2. offered = IF k \in D THEN {P(k)} ELSE {}
  <2>1. k \in DOMAIN priority
    BY Positions
  <2> QED
    BY <2>1, OfferedIs
<1>3. next = IF \E p \in offered : Replaces(gap, p, B(k - 1)) THEN offered ELSE B(k - 1)
  BY DEF Advance
<1>4. \A m \in D : Covers(gap, P(m)) = cov(m)
  BY <1>1, CoversIs
<1>5. \A n : U(n) = {m \in D : m <= n}
  BY DEF UpTo
<1>6. \A n : StrictOrder(U(n), R)
  BY <1>1, <1>5 DEF StrictOrder
<1>7. \A n, m : First(m, U(n), R) => B(n) = {P(m)}
  BY <1>6, BestIsOne
<1>8. \A n : U(n) = {} => B(n) = {}
  BY DEF BestAmong
<1> HIDE DEF D, R, P, B, U, cov, offered, next
<1>9. CASE k \notin D
  <2>1. U(k) = U(k - 1)
    <3>1. \A m \in D : m \in Int /\ m # k
      BY <1>1, <1>9
    <3>2. \A m \in D : m <= k <=> m <= k - 1
      BY <3>1
    <3> QED
      BY <1>5, <3>2
  <2>2. B(k) = B(k - 1)
    BY <2>1 DEF B, U, BestAmong
  <2>3. next = B(k - 1)
    BY <1>2, <1>3, <1>9
  <2> QED
    BY <2>2, <2>3 DEF next, B
<1>10. CASE k \in D
  <2>1. U(k) = U(k - 1) \union {k} /\ k \notin U(k - 1) /\ U(k - 1) \in SUBSET D /\ \A m \in U(k - 1) : m < k
    <3>1. \A m \in D : m <= k <=> (m <= k - 1 \/ m = k)
      BY <1>1
    <3>2. \A m \in D : m <= k - 1 => m < k
      BY <1>1
    <3> QED
      <4>1. \A n : n \in U(k) <=> n \in D /\ n <= k
        BY <1>5
      <4>2. \A n : n \in U(k - 1) <=> n \in D /\ n <= k - 1
        BY <1>5
      <4>3. k <= k /\ ~(k <= k - 1)
        OBVIOUS
      <4> QED
        BY <1>10, <3>1, <3>2, <4>1, <4>2, <4>3
  <2>2. offered = {P(k)}
    BY <1>2, <1>10
  <2>3. CASE U(k - 1) = {}
    <3>1. next = {P(k)}
      BY <1>3, <1>8, <2>2, <2>3 DEF Replaces
    <3>2. First(k, U(k), R)
      BY <2>1, <2>3 DEF First
    <3> QED
      BY <1>7, <3>1, <3>2 DEF next, B
  <2>4. CASE U(k - 1) # {}
    <3>1. IsFiniteSet(U(k - 1)) /\ StrictOrder(U(k - 1), R)
      BY <1>1, <1>6, <2>1, FS_Subset
    <3>2. PICK m : First(m, U(k - 1), R)
      BY <2>4, <3>1, ThereIsAFirst
    <3>3. m \in D /\ m < k /\ m \in Int /\ m # k
      BY <1>1, <2>1, <3>2 DEF First
    <3>4. B(k - 1) = {P(m)}
      BY <1>7, <3>2
    <3>5. Replaces(gap, P(k), {P(m)}) <=> <<k, m>> \in R
      <4>1. Replaces(gap, P(k), {P(m)}) <=> cov(k) > cov(m) \/ (cov(k) = cov(m) /\ P(k).rate < P(m).rate)
        BY <1>4, <1>10, <3>3 DEF Replaces
      <4> QED
        BY <1>1, <1>10, <3>3, <4>1
    <3>6. CASE <<k, m>> \in R
      <4>1. next = {P(k)}
        BY <1>3, <2>2, <3>4, <3>5, <3>6
      <4>2. \A j \in U(k - 1) : <<k, j>> \in R
        <5>1. \A j \in U(k - 1) : j = m \/ <<m, j>> \in R
          BY <3>2 DEF First
        <5> QED
          BY <1>1, <1>10, <2>1, <3>3, <3>6, <5>1 DEF StrictOrder
      <4>3. First(k, U(k), R)
        BY <2>1, <4>2 DEF First
      <4> QED
        BY <1>7, <4>1, <4>3 DEF next, B
    <3>7. CASE <<k, m>> \notin R
      <4>1. next = {P(m)}
        BY <1>3, <2>2, <3>4, <3>5, <3>7
      <4>2. <<m, k>> \in R
        BY <1>1, <1>10, <3>3, <3>7 DEF StrictOrder
      <4>3. First(m, U(k), R)
        BY <2>1, <3>2, <4>2 DEF First
      <4> QED
        BY <1>7, <4>1, <4>3 DEF next, B
    <3> QED
      BY <3>6, <3>7
  <2> QED
    BY <2>3, <2>4
<1> QED
  BY <1>9, <1>10

LEMMA BestKept ==
    ASSUME NEW evaluated \in Seq(Verdicts), Distinct(evaluated), NEW priority \in Seq(STRING), NEW gap \in Nat
    PROVE  BestSoFar(evaluated, priority, gap)[Len(priority)] = BestAmong(evaluated, priority, gap, Len(priority))
<1> DEFINE N == Len(priority)
           goal == [k \in 0 .. N |-> BestAmong(evaluated, priority, gap, k)]
           step(best) == [k \in 0 .. N |-> IF k = 0 THEN {} ELSE Advance(evaluated, priority, gap, k, best[k - 1])]
           best == BestSoFar(evaluated, priority, gap)
<1>1. N \in Nat
  OBVIOUS
<1>2. goal[0] = {}
  <2>1. \A m \in Products(evaluated, priority) : m \in 1 .. N
    <3>1. Products(evaluated, priority) \in SUBSET DOMAIN priority
      BY DEF Products
    <3> QED
      BY <3>1, Positions
  <2>2. UpTo(evaluated, priority, 0) = {}
    BY <2>1 DEF UpTo
  <2>3. BestAmong(evaluated, priority, gap, 0) = {}
    BY <2>2 DEF BestAmong
  <2> QED
    BY <1>1, <2>3
<1>3. \A k \in 1 .. N : goal[k] = Advance(evaluated, priority, gap, k, goal[k - 1])
  BY <1>1, KeepsTheBest
<1> HIDE DEF goal
<1>4. step(goal) = goal
  <2>1. DOMAIN goal = 0 .. N
    BY DEF goal
  <2>2. \A k \in 0 .. N : goal[k] = IF k = 0 THEN {} ELSE Advance(evaluated, priority, gap, k, goal[k - 1])
    <3>1. \A k \in 0 .. N : k = 0 \/ k \in 1 .. N
      BY <1>1
    <3> QED
      BY <1>2, <1>3, <3>1
  <2>3. goal = [k \in 0 .. N |-> goal[k]]
    BY <2>1 DEF goal
  <2> QED
    BY <2>2, <2>3
<1>5. best = CHOOSE f : f = step(f)
  BY DEF BestSoFar
<1>6. best = step(best)
  BY <1>4, <1>5
<1> HIDE DEF best
<1>7. ASSUME NEW k \in 0 .. N, best[k] # goal[k] PROVE FALSE
  <2> DEFINE Bad == {n \in 0 .. N : best[n] # goal[n]}
  <2>1. Bad # {} /\ IsFiniteSet(Bad) /\ \A n \in Bad : n \in Int
    <3>1. IsFiniteSet(0 .. N)
      BY <1>1, FS_Interval
    <3>2. Bad \in SUBSET (0 .. N)
      OBVIOUS
    <3> QED
      BY <1>7, <3>1, <3>2, FS_Subset
  <2> HIDE DEF Bad
  <2>2. PICK m \in Bad : \A n \in Bad : m <= n
    BY <2>1, Extremes
  <2>3. m \in 0 .. N /\ best[m] # goal[m]
    BY <2>2 DEF Bad
  <2>4. best[m] = IF m = 0 THEN {} ELSE Advance(evaluated, priority, gap, m, best[m - 1])
    BY <1>6, <2>3
  <2>5. m # 0
    BY <1>2, <2>3, <2>4
  <2>6. m - 1 \in 0 .. N /\ m - 1 \notin Bad /\ m \in 1 .. N
    BY <2>2, <2>3, <2>5
  <2>7. best[m - 1] = goal[m - 1]
    BY <2>6 DEF Bad
  <2> QED
    BY <1>3, <2>3, <2>4, <2>5, <2>6, <2>7
<1>8. best[N] = goal[N] /\ goal[N] = BestAmong(evaluated, priority, gap, N)
  BY <1>1, <1>7 DEF goal
<1> QED
  BY <1>8 DEF best

LEMMA SameLoan ==
    ASSUME NEW evaluated \in Seq(Verdicts), Distinct(evaluated), NEW priority \in Seq(STRING),
           NEW deposit \in Nat, NEW assets \in Nat
    PROVE  loanOption(evaluated, priority, deposit, assets) = loan_option(evaluated, priority, deposit, assets)
<1> DEFINE gap == Gap(deposit, assets)
           N == Len(priority)
           D == Products(evaluated, priority)
           R == Preference(evaluated, priority, gap)
           kept == BestAmong(evaluated, priority, gap, N)
           P(m) == Product(evaluated, priority, m)
<1>1. gap \in Nat /\ Largest({0, deposit - assets}) = gap
  <2>1. safe_int(deposit) = deposit /\ safe_int(assets) = assets
    BY DEF safe_int, Most
  <2>2. 0 \in Int /\ deposit - assets \in Int
    OBVIOUS
  <2>3. Largest({0, deposit - assets}) = Most(0, deposit - assets)
    BY <2>2, OfTwo
  <2> QED
    BY <2>1, <2>3 DEF Gap, Most
<1> HIDE DEF gap
<1>2. BestSoFar(evaluated, priority, gap)[N] = kept
  BY <1>1, BestKept
<1>3. loanOption(evaluated, priority, deposit, assets)
        = IF kept = {} THEN NoLoan ELSE LoanOf(CHOOSE p \in kept : TRUE)
  BY <1>1, <1>2, LoanKept
<1>4. UpTo(evaluated, priority, N) = D
  <2>1. \A m \in D : m \in 1 .. N
    <3>1. D \in SUBSET DOMAIN priority
      BY DEF Products
    <3> QED
      BY <3>1, Positions
  <2>2. \A m \in D : m <= N
    BY <2>1
  <2> HIDE DEF D
  <2> QED
    BY <2>2 DEF UpTo, D
<1>5. StrictOrder(D, R)
  BY <1>1, ProductFacts
<1>6. CASE D = {} /\ loan_option(evaluated, priority, deposit, assets) = NoLoan
  <2>1. kept = {}
    BY <1>4, <1>6 DEF BestAmong
  <2> QED
    BY <1>3, <1>6, <2>1
<1>7. ASSUME NEW m, First(m, D, R), loan_option(evaluated, priority, deposit, assets) = LoanOf(P(m))
      PROVE  loanOption(evaluated, priority, deposit, assets) = loan_option(evaluated, priority, deposit, assets)
  <2>1. kept = {P(m)}
    BY <1>4, <1>5, <1>7, BestIsOne
  <2> DEFINE q == P(m)
  <2> HIDE DEF kept, q
  <2>2. kept # {} /\ (CHOOSE p \in kept : TRUE) = q
    BY <2>1 DEF q
  <2> QED
    BY <1>3, <1>7, <2>2 DEF q
<1> QED
  BY <1>6, <1>7, LoanOption DEF gap

(***************************************************************************)
(* What is said about the answer: the counts and the cheapest alternative. *)
(***************************************************************************)
LEMMA MinByIs ==
    ASSUME NEW S, NEW list \in Seq(S), list # <<>>, NEW keys \in [DOMAIN list -> Int]
    PROVE  \E m \in DOMAIN list : /\ minBy(list, keys) = list[m]
                                  /\ \A i \in DOMAIN list : keys[m] <= keys[i]
                                  /\ \A i \in DOMAIN list : keys[i] = keys[m] => m <= i
<1> DEFINE D == DOMAIN list
           values == {keys[i] : i \in D}
           least == Smallest(values)
           firsts == {i \in D : keys[i] = least}
<1>1. D = 1 .. Len(list) /\ Len(list) \in Nat /\ IsFiniteSet(D) /\ 1 \in D
  <2>1. Len(list) # 0
    OBVIOUS
  <2> QED
    BY <2>1, Positions
<1>2. minBy(list, keys) = list[Smallest(firsts)]
  BY DEF minBy
<1>3. IsFiniteSet(values) /\ values # {} /\ \A v \in values : v \in Int
  <2>1. keys \in [D -> Int]
    OBVIOUS
  <2> HIDE DEF D
  <2>2. keys \in Surjection(D, values)
    BY <2>1 DEF Surjection
  <2> QED
    BY <1>1, <2>1, <2>2, FS_Surjection
<1> HIDE DEF values
<1>4. PICK v \in values : \A w \in values : v <= w
  BY <1>3, Extremes
<1>5. least = v
  BY <1>3, <1>4, SmallestIs
<1>6. \A i \in D : least <= keys[i]
  BY <1>4, <1>5 DEF values
<1>7. firsts # {} /\ IsFiniteSet(firsts) /\ \A i \in firsts : i \in Int
  <2>1. \E i \in D : keys[i] = v
    BY <1>4 DEF values
  <2>2. firsts # {} /\ firsts \in SUBSET D
    BY <1>5, <2>1
  <2> HIDE DEF firsts
  <2> QED
    BY <1>1, <2>2, FS_Subset
<1> HIDE DEF least, firsts
<1>8. PICK m \in firsts : \A i \in firsts : m <= i
  BY <1>7, Extremes
<1>9. Smallest(firsts) = m
  BY <1>7, <1>8, SmallestIs
<1>10. m \in D /\ keys[m] = least /\ \A i \in D : keys[i] = least => m <= i
  BY <1>8 DEF firsts
<1> QED
  BY <1>2, <1>6, <1>9, <1>10 DEF D

Affordable(scenarios) == {i \in DOMAIN scenarios : scenarios[i].verdict = "affordable"}

(* The cheapest of the affordable scenarios, and of equally cheap ones the first. *)
Cheapest(m, scenarios) ==
    /\ m \in Affordable(scenarios)
    /\ \A i \in Affordable(scenarios) :
        \/ scenarios[m].monthly < scenarios[i].monthly
        \/ scenarios[m].monthly = scenarios[i].monthly /\ m <= i

LEMMA OneIsCheapest ==
    ASSUME NEW S, NEW scenarios \in Seq(S), HasFit(scenarios), NEW m, NEW n,
           Cheapest(m, scenarios), Cheapest(n, scenarios)
    PROVE  m = n
<1>1. m \in DOMAIN scenarios /\ n \in DOMAIN scenarios
  BY DEF Cheapest, Affordable
<1>2. m \in Int /\ n \in Int /\ scenarios[m].monthly \in Int /\ scenarios[n].monthly \in Int
  BY <1>1, Positions DEF HasFit
<1> QED
  BY <1>2 DEF Cheapest

LEMMA ServerNamesTheCheapest ==
    ASSUME NEW S, NEW scenarios \in Seq(S), HasFit(scenarios), Affordable(scenarios) # {},
           NEW best, best.verdict # "affordable"
    PROVE  \E m : Cheapest(m, scenarios) /\ verdict_caveat(best, scenarios) = scenarios[m].id
<1> DEFINE D == Affordable(scenarios)
           price(i) == scenarios[i].monthly
           Wins(i, j) == IF j < i THEN price(i) < price(j) ELSE ~(price(j) < price(i))
           first == CHOOSE i \in D : \A j \in D \ {i} : Wins(i, j)
<1>1. verdict_caveat(best, scenarios) = scenarios[first].id
  BY DEF verdict_caveat, FirstBest, Affordable
<1>2. D \in SUBSET DOMAIN scenarios
  BY DEF Affordable
<1>3. IsFiniteSet(D) /\ \A i \in D : i \in Int /\ price(i) \in Int
  <2>1. DOMAIN scenarios = 1 .. Len(scenarios) /\ IsFiniteSet(DOMAIN scenarios)
    BY Positions
  <2> QED
    BY <1>2, <2>1, FS_Subset DEF HasFit
<1> HIDE DEF D, price
<1> DEFINE a == [i \in D |-> price(i)]
           b == [i \in D |-> 0]
           R == Lex(D, a, b)
<1>4. \A i, j \in D : i # j => (<<i, j>> \in R <=> Wins(i, j))
  <2>1. \A i, j \in D : <<i, j>> \in R <=> price(i) < price(j) \/ (price(i) = price(j) /\ i < j)
    BY DEF Lex
  <2> QED
    <3> SUFFICES ASSUME NEW i \in D, NEW j \in D, i # j PROVE <<i, j>> \in R <=> Wins(i, j)
      OBVIOUS
    <3> DEFINE x == price(i)
               y == price(j)
    <3>1. i \in Int /\ j \in Int /\ x \in Int /\ y \in Int
      BY <1>3
    <3>2. <<i, j>> \in R <=> x < y \/ (x = y /\ i < j)
      BY <2>1
    <3>3. Wins(i, j) <=> IF j < i THEN x < y ELSE ~(y < x)
      OBVIOUS
    <3> HIDE DEF x, y, R
    <3> QED
      BY <3>1, <3>2, <3>3
<1>5. StrictOrder(D, R)
  <2>1. \A i \in D : i \in Int /\ a[i] \in Int /\ b[i] \in Int
    BY <1>3
  <2> HIDE DEF a, b
  <2> QED
    BY <2>1, LexOrderOf
<1>6. PICK m : First(m, D, R)
  <2> HIDE DEF R
  <2> QED
    BY <1>3, <1>5, ThereIsAFirst DEF D
<1>7. m \in D /\ \A j \in D \ {m} : Wins(m, j)
  BY <1>4, <1>6 DEF First
<1> HIDE DEF R, Wins
<1>8. first \in D /\ \A j \in D \ {first} : Wins(first, j)
  BY <1>7
<1> HIDE DEF first
<1>9. \A j \in D : price(first) < price(j) \/ (price(first) = price(j) /\ first <= j)
  BY <1>3, <1>8 DEF Wins
<1>10. Cheapest(first, scenarios)
  BY <1>8, <1>9 DEF Cheapest, D, price
<1> QED
  BY <1>1, <1>10

LEMMA BrowserNamesTheCheapest ==
    ASSUME NEW S, NEW scenarios \in Seq(S), HasFit(scenarios), Affordable(scenarios) # {},
           NEW best, best.verdict # "affordable"
    PROVE  \E m : Cheapest(m, scenarios) /\ verdictCaveat(best, scenarios) = scenarios[m].id
<1> DEFINE D == Affordable(scenarios)
           place == Place(D)
           n == Cardinality(D)
           within == Kept(scenarios, D)
           keys == [i \in DOMAIN within |-> within[i].monthly]
<1>1. D \in SUBSET DOMAIN scenarios
  BY DEF Affordable
<1>2. DOMAIN scenarios = 1 .. Len(scenarios) /\ Len(scenarios) \in Nat
  BY Positions
<1> HIDE DEF D
<1>3. /\ IsFiniteSet(D) /\ n \in Nat /\ within \in Seq(S) /\ DOMAIN within = 1 .. n /\ Len(within) = n
      /\ place \in [1 .. n -> D] /\ \A k \in 1 .. n : within[k] = scenarios[place[k]]
      /\ \A i \in D : \E k \in 1 .. n : place[k] = i
  BY <1>1, KeptFacts
<1>4. \A k, l \in 1 .. n : k <= l => place[k] <= place[l]
  <2>1. D \in SUBSET Nat
    BY <1>1, <1>2
  <2>2. /\ \A k, l \in 1 .. Cardinality(D) : k < l <=> Place(D)[k] < Place(D)[l]
        /\ Place(D) \in [1 .. Cardinality(D) -> D]
    BY <1>3, <2>1, Places
  <2>3. \A k, l \in 1 .. n : k < l => place[k] < place[l]
    BY <2>2
  <2>4. \A k \in 1 .. n : place[k] \in Int
    <3>1. \A k \in 1 .. n : place[k] \in D
      BY <1>3
    <3>2. \A i \in D : i \in Int
      BY <2>1
    <3> HIDE DEF place, n
    <3> QED
      BY <3>1, <3>2
  <2> HIDE DEF place, n
  <2>5. ASSUME NEW k \in 1 .. n, NEW l \in 1 .. n, k <= l PROVE place[k] <= place[l]
    <3>1. CASE k = l
      BY <2>4, <3>1
    <3>2. CASE k # l
      BY <1>3, <2>3, <2>4, <2>5, <3>2
    <3> QED
      BY <3>1, <3>2
  <2> QED
    BY <2>5
<1> HIDE DEF place, n, within
<1>5. n # 0 /\ within # <<>>
  <2>1. D # {}
    BY DEF D
  <2>2. n # 0
    BY <1>3, <2>1, FS_EmptySet DEF n
  <2> QED
    BY <1>3, <2>2
<1>6. verdictCaveat(best, scenarios) = minBy(within, keys).id
  BY <1>5 DEF verdictCaveat, within, D, Affordable
<1>7. keys \in [DOMAIN within -> Int]
  BY <1>1, <1>3 DEF HasFit
<1>8. PICK m \in DOMAIN within : /\ minBy(within, keys) = within[m]
                                 /\ \A i \in DOMAIN within : keys[m] <= keys[i]
                                 /\ \A i \in DOMAIN within : keys[i] = keys[m] => m <= i
  <2> HIDE DEF keys
  <2> QED
    BY <1>3, <1>5, <1>7, MinByIs
<1>9. place[m] \in D /\ minBy(within, keys) = scenarios[place[m]]
  BY <1>3, <1>8
<1>10. \A i \in D : \/ scenarios[place[m]].monthly < scenarios[i].monthly
                    \/ scenarios[place[m]].monthly = scenarios[i].monthly /\ place[m] <= i
  <2> SUFFICES ASSUME NEW i \in D
               PROVE  \/ scenarios[place[m]].monthly < scenarios[i].monthly
                      \/ scenarios[place[m]].monthly = scenarios[i].monthly /\ place[m] <= i
    OBVIOUS
  <2>1. PICK k \in 1 .. n : place[k] = i
    BY <1>3
  <2>2. keys[m] = scenarios[place[m]].monthly /\ keys[k] = scenarios[i].monthly
    BY <1>3, <1>8, <2>1
  <2>3. keys[m] \in Int /\ keys[k] \in Int
    BY <1>3, <1>7, <1>8
  <2>4. keys[m] <= keys[k] /\ (keys[k] = keys[m] => m <= k)
    BY <1>3, <1>8
  <2>5. m <= k => place[m] <= i
    BY <1>3, <1>4, <1>8, <2>1
  <2> HIDE DEF keys
  <2> QED
    BY <2>2, <2>3, <2>4, <2>5
<1>11. Cheapest(place[m], scenarios)
  BY <1>9, <1>10 DEF Cheapest, D
<1> QED
  BY <1>6, <1>9, <1>11

LEMMA SameCaveat ==
    ASSUME NEW S, NEW scenarios \in Seq(S), HasFit(scenarios), NEW best
    PROVE  verdictCaveat(best, scenarios) = verdict_caveat(best, scenarios)
<1>1. CASE best.verdict = "affordable"
  BY <1>1 DEF verdictCaveat, verdict_caveat
<1>2. CASE best.verdict # "affordable" /\ Affordable(scenarios) = {}
  <2>1. verdict_caveat(best, scenarios) = "none fits"
    BY <1>2 DEF verdict_caveat, Affordable
  <2>2. Kept(scenarios, Affordable(scenarios)) = <<>>
    <3>1. Affordable(scenarios) \in SUBSET DOMAIN scenarios
      BY DEF Affordable
    <3>2. /\ Kept(scenarios, Affordable(scenarios)) \in Seq(S)
          /\ Len(Kept(scenarios, Affordable(scenarios))) = Cardinality(Affordable(scenarios))
      BY <3>1, KeptFacts
    <3>3. Cardinality(Affordable(scenarios)) = 0
      BY <1>2, FS_EmptySet
    <3> DEFINE within == Kept(scenarios, Affordable(scenarios))
    <3> HIDE DEF within
    <3>4. within \in Seq(S) /\ Len(within) = 0
      BY <3>2, <3>3 DEF within
    <3>5. within = <<>>
      BY <3>4
    <3> QED
      BY <3>5 DEF within
  <2>3. verdictCaveat(best, scenarios) = "none fits"
    BY <1>2, <2>2 DEF verdictCaveat, Affordable
  <2> QED
    BY <2>1, <2>3
<1>3. CASE best.verdict # "affordable" /\ Affordable(scenarios) # {}
  <2>1. PICK m : Cheapest(m, scenarios) /\ verdict_caveat(best, scenarios) = scenarios[m].id
    BY <1>3, ServerNamesTheCheapest
  <2>2. PICK n : Cheapest(n, scenarios) /\ verdictCaveat(best, scenarios) = scenarios[n].id
    BY <1>3, BrowserNamesTheCheapest
  <2>3. m = n
    BY <2>1, <2>2, OneIsCheapest
  <2> QED
    BY <2>1, <2>2, <2>3
<1> QED
  BY <1>1, <1>2, <1>3

WithStatus(evaluated, status) == {i \in DOMAIN evaluated : evaluated[i].status = status}

LEMMA SameSummary ==
    ASSUME NEW afford \in AffordType, NEW S, NEW scenarios \in Seq(S), HasFit(scenarios),
           NEW evaluated \in Seq(Verdicts)
    PROVE  buildSummary(afford, scenarios, evaluated) = build_summary(afford, scenarios, evaluated)
<1> DEFINE many(status) == Cardinality(WithStatus(evaluated, status))
           kept(status) == Len(Kept(evaluated, WithStatus(evaluated, status)))
           caveat == verdict_caveat(scenarios[1], scenarios)
           apply == IF many("eligible") > 0 THEN <<"eligible", many("eligible")>>
                    ELSE IF many("conditional") > 0 THEN <<"conditional", many("conditional")>>
                    ELSE <<"none", 0>>
           localApply == CASE kept("eligible") > 0 -> <<"eligible", kept("eligible")>>
                           [] kept("eligible") = 0 /\ kept("conditional") > 0 -> <<"conditional", kept("conditional")>>
                           [] OTHER -> <<"none", 0>>
<1>1. build_summary(afford, scenarios, evaluated) =
        [computable |-> afford.recommended > 0, best |-> scenarios[1].id, caveat |-> caveat, apply |-> apply]
  BY DEF build_summary, WithStatus
<1>2. buildSummary(afford, scenarios, evaluated) =
        [computable |-> ~(afford.recommended <= 0), best |-> scenarios[1].id,
         caveat |-> verdictCaveat(scenarios[1], scenarios), apply |-> localApply]
  BY DEF buildSummary, WithStatus
<1>3. (afford.recommended > 0) = (~(afford.recommended <= 0))
  <2>1. afford.recommended \in Nat
    BY DEF AffordType
  <2> QED
    BY <2>1
<1>4. verdictCaveat(scenarios[1], scenarios) = caveat
  BY SameCaveat
<1>5. \A status : kept(status) = many(status) /\ many(status) \in Nat
  <2> SUFFICES ASSUME NEW status PROVE kept(status) = many(status) /\ many(status) \in Nat
    OBVIOUS
  <2>1. WithStatus(evaluated, status) \in SUBSET DOMAIN evaluated
    BY DEF WithStatus
  <2> QED
    BY <2>1, KeptFacts
<1> HIDE DEF kept, many
<1>6. localApply = apply
  <2>1. CASE many("eligible") > 0
    BY <1>5, <2>1
  <2>2. CASE ~(many("eligible") > 0) /\ many("conditional") > 0
    BY <1>5, <2>2
  <2>3. CASE ~(many("eligible") > 0) /\ ~(many("conditional") > 0)
    BY <1>5, <2>3
  <2> QED
    BY <2>1, <2>2, <2>3
<1> HIDE DEF caveat, apply, localApply
<1> QED
  BY <1>1, <1>2, <1>3, <1>4, <1>6

(***************************************************************************)
(* The region, and the answer.                                             *)
(***************************************************************************)
LEMMA SameRegion ==
    ASSUME NEW p, NEW rs, RegionsOK(rs), Known(p, rs)
    PROVE  (IF p.region # "" THEN findRegion(p.region, rs) ELSE rs[1]) = find_region(p, rs)
<1>1. CASE p.region = ""
  BY <1>1 DEF find_region
<1>2. CASE p.region # ""
  <2> DEFINE D == {i \in DOMAIN rs : rs[i].code = p.region}
             Right(i) == rs[i].code = p.region /\ \A j \in 1 .. i - 1 : rs[j].code # p.region
             n == CHOOSE i \in DOMAIN rs : Right(i)
  <2>1. DOMAIN rs = 1 .. Len(rs) /\ Len(rs) \in Nat /\ IsFiniteSet(DOMAIN rs)
    BY Positions DEF RegionsOK
  <2>2. D # {} /\ IsFiniteSet(D) /\ \A i \in D : i \in Int
    <3>1. \E i \in DOMAIN rs : rs[i].code = p.region
      BY <1>2 DEF Known
    <3> QED
      BY <2>1, <3>1, FS_Subset
  <2>3. PICK m \in D : \A i \in D : m <= i
    <3> HIDE DEF D
    <3> QED
      BY <2>2, Extremes
  <2>4. Smallest(D) = m
    <3> HIDE DEF D
    <3> QED
      BY <2>2, <2>3, SmallestIs
  <2>5. m \in DOMAIN rs /\ Right(m)
    BY <2>1, <2>3
  <2>6. n \in DOMAIN rs /\ Right(n)
    BY <2>5
  <2> HIDE DEF n
  <2>7. n \in D /\ m <= n
    BY <2>3, <2>6
  <2>8. ~(m < n)
    <3> SUFFICES ASSUME m < n PROVE FALSE
      OBVIOUS
    <3>1. m \in 1 .. n - 1
      BY <2>1, <2>5, <2>6
    <3> QED
      BY <2>3, <2>6, <3>1
  <2>9. m = n
    BY <2>1, <2>5, <2>6, <2>7, <2>8
  <2>10. find_region(p, rs) = rs[n]
    BY <1>2 DEF find_region, n
  <2>11. findRegion(p.region, rs) = rs[m]
    BY <2>4 DEF findRegion
  <2> QED
    BY <1>2, <2>9, <2>10, <2>11
<1> QED
  BY <1>1, <1>2

LEMMA VerdictsDistinct ==
    ASSUME NEW p, NEW given, NEW vs, GivenOK(given, vs)
    PROVE  Distinct(evaluate_policies(p, Payloads(given)))
<1> DEFINE policies == Payloads(given)
           list == Evaluated(p, policies)
           order == ByStatus(list)
<1>1. policies \in Seq({q \in Rules : RuleOK(q)}) /\ DOMAIN policies = DOMAIN given
  BY RulesRead
<1>2. DOMAIN policies = 1 .. Len(policies) /\ Len(policies) \in Nat
  BY <1>1, Positions
<1>3. \A i \in DOMAIN policies : RuleOK(policies[i])
  BY <1>1, Positions
<1>4. list \in Seq(Verdicts) /\ DOMAIN list = DOMAIN given
  <2>1. \A i \in DOMAIN policies : evaluate_policy(p, policies[i]) \in Verdicts
    BY <1>3, VerdictType
  <2> QED
    BY <1>1, <1>2, <2>1 DEF Evaluated
<1>5. \A i, j \in DOMAIN list : list[i].id = list[j].id => i = j
  <2>1. \A i \in DOMAIN list : list[i].id = given[i].payload.id
    <3>1. \A i \in DOMAIN list : list[i] = evaluate_policy(p, given[i].payload)
      BY <1>1, <1>4 DEF Evaluated, Payloads
    <3>2. \A q : evaluate_policy(p, q).id = q.id
      BY VerdictOf
    <3> QED
      BY <3>1, <3>2
  <2>2. \A i, j \in DOMAIN given : given[i].payload.id = given[j].payload.id => i = j
    BY DEF GivenOK
  <2> QED
    BY <1>4, <2>1, <2>2
<1>6. evaluate_policies(p, policies) = Sorted(list, order)
  BY <1>4, ServerSortsPolicies
<1>7. StrictOrder(DOMAIN list, order)
  <2>1. Keys(list, Standing(list)) /\ Keys(list, Lending(list))
    BY <1>4, StandingType
  <2>2. \A i \in DOMAIN list : i \in Int /\ Standing(list)[i] \in Int /\ Lending(list)[i] \in Int
    <3>1. \A i \in DOMAIN list : i \in Int
      BY <1>1, <1>2, <1>4
    <3> HIDE DEF list
    <3>2. Standing(list) \in [DOMAIN list -> Int] /\ Lending(list) \in [DOMAIN list -> Int]
      BY <2>1 DEF Keys
    <3> QED
      BY <3>1, <3>2
  <2> QED
    BY <2>2, LexOrderOf DEF ByStatus, order
<1> DEFINE t == Sorted(list, order)
<1> HIDE DEF policies, list, order
<1>8. /\ DOMAIN t = DOMAIN list
      /\ \A k, l \in DOMAIN list : k # l => \E i, j \in DOMAIN list : i # j /\ t[k] = list[i] /\ t[l] = list[j]
  <2>1. DOMAIN t = DOMAIN list
    BY <1>4, <1>7, SortedFacts
  <2>2. Apart(Sorted(list, order), list)
    BY <1>4, <1>7, SortedApart
  <2> QED
    BY <2>1, <2>2 DEF Apart
<1> HIDE DEF t
<1>9. Distinct(t)
  BY <1>5, <1>8 DEF Distinct
<1> QED
  BY <1>6, <1>9 DEF t, policies

AnswerMade(afford, scenarios, policies, risk, summary, code) ==
    [affordability |-> afford, scenarios |-> scenarios, policies |-> policies,
     risk |-> risk, summary |-> summary, region |-> code]

LEMMA ServerMakes ==
    ASSUME NEW read
    PROVE  LET list == build_scenarios(RegionRead(read), AssetsRead(read), AffordRead(read), JeonseLoan(read),
                                       StandardLoan(read), preferred_type(read.form), Cap(read.form, read.regions))
           IN  analyze(read.form, read.regions, Payloads(read.given))
                 = AnswerMade(AffordRead(read), list, PoliciesRead(read),
                              scan_deposit_risk(list[1].deposit, list[1].loan, RegionRead(read),
                                                Cap(read.form, read.regions)),
                              build_summary(AffordRead(read), list, PoliciesRead(read)), RegionRead(read).code)
  BY DEF analyze, AnswerMade, RegionRead, AssetsRead, AffordRead, JeonseLoan, StandardLoan, PoliciesRead, Cap

(* The answer of the browser, from what it has found out on the way. *)
BrowserMakes(policies, region, assets, afford, jeonse, standard, preferred, cap) ==
    LET list == buildScenarios(region, assets, afford, jeonse, standard, preferred, cap)
    IN  AnswerMade(afford, list, policies, scanDepositRisk(list[1].deposit, list[1].loan, region, cap),
                   buildSummary(afford, list, policies), region.code)

LEMMA LocalAnswer ==
    ASSUME NEW p, NEW rs, NEW vs, NEW t
    PROVE  LET policies == evaluatePolicies(p, Payloads(activeRuleVersions(vs, t)))
               region == IF p.region # "" THEN findRegion(p.region, rs) ELSE rs[1]
               assets == safeInt(p.assets)
           IN  analyzeLocally(p, rs, vs, t)
                 = BrowserMakes(policies, region, assets, assessAffordability(p),
                                loanOption(policies, K.jeonsePriority, region.jeonse, assets),
                                loanOption(policies, K.monthlyPriority, region.deposit, assets),
                                preferred_type(p), guarantee_deposit_cap_for(region))
<1> DEFINE policies == evaluatePolicies(p, Payloads(activeRuleVersions(vs, t)))
           region == IF p.region # "" THEN findRegion(p.region, rs) ELSE rs[1]
           assets == safeInt(p.assets)
           preferred == IF p.preferred \in {"jeonse", "monthly", "any"} THEN p.preferred ELSE "any"
<1>1. preferred = preferred_type(p)
  BY DEF preferred_type
<1>2. \A r : guaranteeDepositCapFor(r) = guarantee_deposit_cap_for(r)
  BY DEF guaranteeDepositCapFor, guarantee_deposit_cap_for
<1>3. analyzeLocally(p, rs, vs, t)
        = BrowserMakes(policies, region, assets, assessAffordability(p),
                       loanOption(policies, K.jeonsePriority, region.jeonse, assets),
                       loanOption(policies, K.monthlyPriority, region.deposit, assets),
                       preferred, guaranteeDepositCapFor(region))
  BY DEF analyzeLocally, BrowserMakes, AnswerMade, Payloads
<1> HIDE DEF policies, region, assets, preferred
<1>4. analyzeLocally(p, rs, vs, t)
        = BrowserMakes(policies, region, assets, assessAffordability(p),
                       loanOption(policies, K.jeonsePriority, region.jeonse, assets),
                       loanOption(policies, K.monthlyPriority, region.deposit, assets),
                       preferred_type(p), guarantee_deposit_cap_for(region))
  BY <1>1, <1>2, <1>3
<1> QED
  BY <1>4 DEF policies, region, assets

LEMMA BestScenario ==
    ASSUME NEW read, NEW rs, NEW vs, ReadOK(read, rs, vs), Known(read.form, read.regions)
    PROVE  LET list == build_scenarios(RegionRead(read), AssetsRead(read), AffordRead(read), JeonseLoan(read),
                                       StandardLoan(read), preferred_type(read.form), Cap(read.form, read.regions))
           IN  list[1].deposit \in Nat /\ list[1].loan \in Nat
<1> DEFINE list == build_scenarios(RegionRead(read), AssetsRead(read), AffordRead(read), JeonseLoan(read),
                                   StandardLoan(read), preferred_type(read.form), Cap(read.form, read.regions))
           answer == [body |-> analyze(read.form, read.regions, Payloads(read.given))]
<1>1. answer.body = analyze(read.form, read.regions, Payloads(read.given)) /\ answer.body.scenarios = list
  <2>1. analyze(read.form, read.regions, Payloads(read.given)).scenarios
          = Scenarios(read.form, read.regions, Payloads(read.given))
    BY AnswerParts
  <2>2. Scenarios(read.form, read.regions, Payloads(read.given)) = list
    BY DEF Scenarios, RegionRead, AssetsRead, AffordRead, JeonseLoan, StandardLoan, PoliciesRead
  <2> HIDE DEF list
  <2> QED
    BY <2>1, <2>2
<1> HIDE DEF list, answer
<1>2. \A k \in 1 .. 4 : \E w \in WaysRead(read) :
        Ways(w) /\ Scenario(answer.body.scenarios[k], w, RegionRead(read).maintenance, AffordRead(read),
                            RegionRead(read).guarantee, Cap(read.form, read.regions))
  BY <1>1, ScenariosRead
<1>3. 1 \in 1 .. 4
  OBVIOUS
<1>4. PICK w \in WaysRead(read) :
        Ways(w) /\ Scenario(list[1], w, RegionRead(read).maintenance, AffordRead(read),
                            RegionRead(read).guarantee, Cap(read.form, read.regions))
  BY <1>1, <1>2, <1>3
<1>5. w.deposit \in Nat /\ w.loan \in Nat
  BY <1>4 DEF Ways
<1>6. list[1].deposit = w.deposit /\ list[1].loan = Least(w.loan, w.deposit)
  BY <1>4 DEF Scenario
<1>7. list[1].deposit \in Nat /\ list[1].loan \in Nat
  BY <1>5, <1>6 DEF Least
<1> QED
  BY <1>7 DEF list

LEMMA SameLoans ==
    ASSUME NEW read, NEW rs, NEW vs, ReadOK(read, rs, vs), Known(read.form, read.regions)
    PROVE  /\ loanOption(PoliciesRead(read), K.jeonsePriority, RegionRead(read).jeonse, AssetsRead(read))
                = JeonseLoan(read)
           /\ loanOption(PoliciesRead(read), K.monthlyPriority, RegionRead(read).deposit, AssetsRead(read))
                = StandardLoan(read)
<1>1. /\ PoliciesRead(read) \in Seq(Verdicts) /\ AssetsRead(read) \in Nat
      /\ K.jeonsePriority \in Seq(STRING) /\ K.monthlyPriority \in Seq(STRING)
  BY ReadTypes
<1>2. RegionRead(read).jeonse \in Nat /\ RegionRead(read).deposit \in Nat
  BY ReadTypes, RegionNumbers
<1>3. Distinct(PoliciesRead(read))
  <2>1. GivenOK(read.given, vs)
    BY DEF ReadOK
  <2> QED
    BY <2>1, VerdictsDistinct DEF PoliciesRead
<1> QED
  BY <1>1, <1>2, <1>3, SameLoan DEF JeonseLoan, StandardLoan

LEMMA SameMaking ==
    ASSUME NEW read, NEW rs, NEW vs, ReadOK(read, rs, vs), Known(read.form, read.regions)
    PROVE  BrowserMakes(PoliciesRead(read), RegionRead(read), AssetsRead(read), AffordRead(read), JeonseLoan(read),
                        StandardLoan(read), preferred_type(read.form), Cap(read.form, read.regions))
             = analyze(read.form, read.regions, Payloads(read.given))
<1> DEFINE policies == PoliciesRead(read)
           region == RegionRead(read)
           assets == AssetsRead(read)
           afford == AffordRead(read)
           jeonse == JeonseLoan(read)
           standard == StandardLoan(read)
           preferred == preferred_type(read.form)
           cap == Cap(read.form, read.regions)
           list == build_scenarios(region, assets, afford, jeonse, standard, preferred, cap)
           local == buildScenarios(region, assets, afford, jeonse, standard, preferred, cap)
<1>1. /\ policies \in Seq(Verdicts) /\ RegionOK(region) /\ assets \in Nat /\ afford \in AffordType
      /\ jeonse \in Loan /\ standard \in Loan /\ cap \in Nat /\ cap # 0
  <2>1. cap # 0
    BY CapType DEF Cap
  <2> QED
    BY <2>1, ReadTypes
<1>2. jeonse = NoLoan \/ jeonse.name # "none"
  BY LoansRead DEF Offered
<1>3. list[1].deposit \in Nat /\ list[1].loan \in Nat
  BY BestScenario
<1>4. analyze(read.form, read.regions, Payloads(read.given))
        = AnswerMade(afford, list, policies, scan_deposit_risk(list[1].deposit, list[1].loan, region, cap),
                     build_summary(afford, list, policies), region.code)
  BY ServerMakes
<1>5. BrowserMakes(policies, region, assets, afford, jeonse, standard, preferred, cap)
        = AnswerMade(afford, local, policies, scanDepositRisk(local[1].deposit, local[1].loan, region, cap),
                     buildSummary(afford, local, policies), region.code)
  BY DEF BrowserMakes
<1> HIDE DEF policies, region, assets, afford, jeonse, standard, preferred, cap
<1>6. local = list /\ HasFit(list) /\ \E S0 : list \in Seq(S0)
  BY <1>1, <1>2, SameWays
<1> HIDE DEF local, list
<1>7. scanDepositRisk(list[1].deposit, list[1].loan, region, cap)
        = scan_deposit_risk(list[1].deposit, list[1].loan, region, cap)
  <2> DEFINE deposit == list[1].deposit
             loan == list[1].loan
  <2>1. deposit \in Nat /\ loan \in Nat
    BY <1>3
  <2> HIDE DEF deposit, loan
  <2>2. scanDepositRisk(deposit, loan, region, cap) = scan_deposit_risk(deposit, loan, region, cap)
    BY <1>1, <2>1, SameRisk
  <2> QED
    BY <2>2 DEF deposit, loan
<1>8. buildSummary(afford, list, policies) = build_summary(afford, list, policies)
  BY <1>1, <1>6, SameSummary
<1> QED
  BY <1>4, <1>5, <1>6, <1>7, <1>8 DEF policies, region, assets, afford, jeonse, standard, preferred, cap

LEMMA SameAnswer ==
    ASSUME NEW read, NEW rs, NEW vs, ReadOK(read, rs, vs), Known(read.form, read.regions),
           NEW seeded, NEW t, read.given = activeRuleVersions(seeded, t)
    PROVE  analyzeLocally(read.form, read.regions, seeded, t)
             = analyze(read.form, read.regions, Payloads(read.given))
<1>1. read.form \in FormType /\ RegionsOK(read.regions) /\ GivenOK(read.given, vs)
  BY DEF ReadOK, RegionsRead
<1>2. evaluatePolicies(read.form, Payloads(read.given)) = PoliciesRead(read)
  <2>1. Payloads(read.given) \in Seq({q \in Rules : RuleOK(q)})
    BY <1>1, RulesRead
  <2> QED
    BY <1>1, <2>1, SamePolicies DEF PoliciesRead
<1>3. (IF read.form.region # "" THEN findRegion(read.form.region, read.regions) ELSE read.regions[1])
        = RegionRead(read)
  BY <1>1, SameRegion DEF RegionRead
<1>4. safeInt(read.form.assets) = AssetsRead(read)
  <2>1. read.form.assets \in Int /\ 1 \in Nat /\ 1 # 0
    BY <1>1 DEF FormType
  <2> QED
    BY <2>1, SameNumbers DEF AssetsRead
<1>5. assessAffordability(read.form) = AffordRead(read)
  BY <1>1, SameAfford DEF AffordRead
<1>6. guarantee_deposit_cap_for(RegionRead(read)) = Cap(read.form, read.regions)
  BY DEF Cap, RegionRead
<1>7. analyzeLocally(read.form, read.regions, seeded, t)
        = BrowserMakes(PoliciesRead(read), RegionRead(read), AssetsRead(read), AffordRead(read),
                       loanOption(PoliciesRead(read), K.jeonsePriority, RegionRead(read).jeonse, AssetsRead(read)),
                       loanOption(PoliciesRead(read), K.monthlyPriority, RegionRead(read).deposit, AssetsRead(read)),
                       preferred_type(read.form), Cap(read.form, read.regions))
  BY <1>2, <1>3, <1>4, <1>5, <1>6, LocalAnswer
<1> QED
  BY <1>7, SameLoans, SameMaking

(***************************************************************************)
(* The lineage and the grade.                                              *)
(***************************************************************************)
Provenance(used, rules) ==
    {[kind |-> "region_field", fact |-> f, at |-> {}, verification |-> used.verification[f]] :
        f \in DOMAIN used.verification}
      \union rules
      \union {[kind |-> "model_constant", fact |-> c.key, at |-> {}, verification |-> c.verification] :
                 c \in {d \in K.registered : d.required}}

gradeOf(items) ==
    LET types == {i.verification : i \in items} \intersect {"unverified", "stale"}
        freshnessEvaluated == freshness_threshold_keys # {}
    IN  [provenance |-> items,
         reasons |-> types \union (IF freshnessEvaluated THEN {} ELSE {"freshness_not_evaluated"}),
         grade |-> CASE "unverified" \in types -> "C"
                     [] "unverified" \notin types /\ types # {} -> "B"
                     [] OTHER -> IF freshnessEvaluated THEN "A" ELSE "null"]

LEMMA SameGrade == ASSUME NEW items PROVE gradeOf(items) = grade_facts(items)
<1> DEFINE found == {i.verification : i \in items} \intersect {"unverified", "stale"}
           fresh == freshness_threshold_keys # {}
           reasons == found \union (IF fresh THEN {} ELSE {"freshness_not_evaluated"})
           types == found \union {r \in {"freshness_not_evaluated"} : freshness_threshold_keys = {}}
           localGrade == CASE "unverified" \in found -> "C"
                           [] "unverified" \notin found /\ found # {} -> "B"
                           [] OTHER -> IF fresh THEN "A" ELSE "null"
           grade == IF "unverified" \in types THEN "C"
                    ELSE IF types \intersect {"stale", "pending_review"} # {} THEN "B"
                    ELSE IF "freshness_not_evaluated" \in types THEN "null" ELSE "A"
<1>1. gradeOf(items) = [provenance |-> items, reasons |-> reasons, grade |-> localGrade]
  BY DEF gradeOf
<1>2. grade_facts(items) = [provenance |-> items, reasons |-> types, grade |-> grade]
  BY DEF grade_facts
<1>3. \A r : r \in found => r = "unverified" \/ r = "stale"
  OBVIOUS
<1> HIDE DEF found
<1>4. reasons = types
  <2>1. CASE fresh
    BY <2>1
  <2>2. CASE ~fresh
    BY <2>2
  <2> QED
    BY <2>1, <2>2
<1>5. /\ "unverified" \in types <=> "unverified" \in found
      /\ types \intersect {"stale", "pending_review"} # {} <=> "stale" \in found
      /\ "freshness_not_evaluated" \in types <=> ~fresh
  BY <1>3
<1>6. found # {} <=> "unverified" \in found \/ "stale" \in found
  BY <1>3
<1> HIDE DEF types, fresh
<1>7. localGrade = grade
  <2>1. CASE "unverified" \in found
    BY <1>5, <2>1
  <2>2. CASE "unverified" \notin found /\ "stale" \in found
    BY <1>5, <1>6, <2>2
  <2>3. CASE "unverified" \notin found /\ "stale" \notin found /\ fresh
    BY <1>5, <1>6, <2>3
  <2>4. CASE "unverified" \notin found /\ "stale" \notin found /\ ~fresh
    BY <1>5, <1>6, <2>4
  <2> QED
    BY <2>1, <2>2, <2>3, <2>4
<1> HIDE DEF localGrade, grade, reasons
<1> QED
  BY <1>1, <1>2, <1>4, <1>7

LEMMA SameLineage ==
    ASSUME NEW answer, NEW records, NEW given
    PROVE  buildLineage(RecordOf(answer.region, records), given, answer.policies)
             = build_lineage(answer, records, given)
<1> DEFINE used == RecordOf(answer.region, records)
           rules == {ruleFact(given[i], answer.policies) : i \in DOMAIN given}
           local == {[kind |-> "region_field", fact |-> f, at |-> {}, verification |-> used.verification[f]] :
                        f \in DOMAIN used.verification}
                      \union rules
                      \union {[kind |-> "model_constant", fact |-> c.key, at |-> {}, verification |-> c.verification] :
                                 c \in {d \in K.registered : d.engine}}
<1>1. rules = rule_facts(answer, given)
  BY DEF rule_facts, rule_fact, ruleFact
<1>2. {d \in K.registered : d.engine} = {d \in K.registered : d.required}
  BY ConstantsAssumption
<1>3. local = Provenance(used, rules)
  BY <1>2 DEF Provenance
<1>4. build_lineage(answer, records, given) = grade_facts(Provenance(used, rule_facts(answer, given)))
  BY DEF build_lineage, Provenance
<1>5. buildLineage(used, given, answer.policies) = gradeOf(local)
  <2>1. freshnessThresholdKeys = freshness_threshold_keys
    BY DEF freshnessThresholdKeys, freshness_threshold_keys
  <2> QED
    BY <2>1 DEF buildLineage, gradeOf
<1> HIDE DEF used, rules, local
<1>6. buildLineage(used, given, answer.policies) = build_lineage(answer, records, given)
  BY <1>1, <1>3, <1>4, <1>5, SameGrade
<1> QED
  BY <1>6 DEF used

LEMMA BrowserAgrees == Inv => OfflineAgrees
<1> SUFFICES ASSUME Inv, online.kind # "none", offline.kind # "none",
                    online.form = offline.form, online.at = offline.at,
                    regions = SeedRegions, versions = SeedVersions
             PROVE  /\ online.kind = offline.kind
                    /\ Answered => online.body = offline.body /\ online.lineage = offline.lineage
  BY DEF OfflineAgrees
<1>1. OnlineOK /\ OfflineOK
  BY DEF Inv
<1>2. PICK read : ReadOK(read, regions, versions) /\ online = Served(read)
  BY <1>1 DEF OnlineOK, NoAnswer
<1>3. PICK f \in FormType, t \in Int : offline = Shown(f, t)
  BY <1>1 DEF OfflineOK, NoAnswer
<1>4. read.regions = SeedRegions /\ read.given = activeRuleVersions(SeedVersions, read.at)
  BY <1>2 DEF ReadOK, RegionsRead
<1>5. Served(read).form = read.form /\ Served(read).at = read.at
  BY DEF Served, respond
<1>6. Shown(f, t).form = f /\ Shown(f, t).at = t
  BY DEF Shown
<1>7. f = read.form /\ t = read.at
  BY <1>2, <1>3, <1>5, <1>6
<1>8. CASE ~Known(read.form, read.regions)
  <2>1. Served(read).kind = "invalid_region"
    BY <1>8 DEF Served
  <2>2. Shown(f, t).kind = "invalid_region"
    BY <1>4, <1>7, <1>8 DEF Shown
  <2> QED
    BY <1>2, <1>3, <2>1, <2>2 DEF Answered
<1>9. CASE Known(read.form, read.regions)
  <2> DEFINE given == read.given
             answer == analyze(read.form, read.regions, Payloads(given))
             local == analyzeLocally(f, SeedRegions, SeedVersions, t)
  <2>1. Served(read).kind = "answer" /\ MadeFrom(Served(read), read)
    <3>1. Served(read).kind = "answer"
      BY <1>9 DEF Served, respond
    <3> QED
      BY <3>1, ServedAnswer
  <2>2. /\ Served(read).body = answer
        /\ Served(read).lineage = build_lineage(answer, SeedRegions, given)
    BY <1>4, <2>1 DEF MadeFrom
  <2>3. /\ Shown(f, t).kind = "answer" /\ Shown(f, t).body = local
        /\ Shown(f, t).lineage = buildLineage(RecordOf(local.region, SeedRegions), given, local.policies)
    BY <1>4, <1>7, <1>9 DEF Shown
  <2>4. local = answer
    BY <1>2, <1>4, <1>7, <1>9, SameAnswer
  <2> HIDE DEF local, answer, given
  <2>5. buildLineage(RecordOf(answer.region, SeedRegions), given, answer.policies)
          = build_lineage(answer, SeedRegions, given)
    BY SameLineage
  <2> QED
    BY <1>2, <1>3, <2>1, <2>2, <2>3, <2>4, <2>5
<1> QED
  BY <1>8, <1>9

(***************************************************************************)
(* Whatever the constants, the rules and the prices are, and whatever the  *)
(* citizen enters: while the store is what the artifacts were generated    *)
(* from, the browser answers as the server does, in every figure, verdict, *)
(* rank, reason, source and grade (local_engine.js, main.py).              *)
(***************************************************************************)
THEOREM EnginesHaveNotDrifted == Spec => []OfflineAgrees
<1>1. Inv => OfflineAgrees
  BY BrowserAgrees
<1> QED
  BY <1>1, InvHolds, PTL
=============================================================================
