------------------------ MODULE RegionMapCodingProofs ------------------------
(***************************************************************************)
(* For all maps and every payload of a block: a palette stands for its     *)
(* list, the slices of the blocks leave no number out and repeat none, and *)
(* what is read back begins with what was imported, unless a slice of a    *)
(* list that spans several blocks has room for one word more.              *)
(***************************************************************************)
EXTENDS RegionMapCoding, InductionLemmas, FiniteSetTheorems, SequenceTheorems

-----------------------------------------------------------------------------
(* Lengths in binary. *)

\* A set of one more element has twice as many subsets.
LEMMA PowersDouble ==
  ASSUME NEW k \in Nat
  PROVE  2^k \in Nat \ {0} /\ 2^(k + 1) = 2^k + 2^k
<1> DEFINE small == SUBSET (1..k)
           large == SUBSET (1..(k + 1))
           rest == {A \in large : k + 1 \in A}
<1>1. IsFiniteSet(small) /\ Cardinality(small) = 2^k /\ Cardinality(small) \in Nat
  <2>1. IsFiniteSet(1..k) /\ Cardinality(1..k) = k
    BY FS_Interval
  <2>2. QED
    BY <2>1, FS_SUBSET, FS_CardinalityType
<1>2. Cardinality(large) = 2^(k + 1)
  <2>1. IsFiniteSet(1..(k + 1)) /\ Cardinality(1..(k + 1)) = k + 1
    BY FS_Interval
  <2>2. QED
    BY <2>1, FS_SUBSET
<1>3. Cardinality(small) # 0
  BY <1>1, {} \in small, FS_EmptySet
<1>4. IsFiniteSet(rest) /\ Cardinality(rest) = Cardinality(small)
  <2> DEFINE f == [A \in small |-> A \cup {k + 1}]
  <2>1. \A A \in small : A \cup {k + 1} \in rest /\ k + 1 \notin A
    OBVIOUS
  <2>2. ASSUME NEW A \in small, NEW B \in small, A \cup {k + 1} = B \cup {k + 1} PROVE A = B
    BY <2>1, <2>2
  <2>3. ASSUME NEW B \in rest PROVE \E A \in small : A \cup {k + 1} = B
    <3>1. B \ {k + 1} \in small /\ (B \ {k + 1}) \cup {k + 1} = B
      OBVIOUS
    <3>2. QED
      BY <3>1
  <2> HIDE DEF small, rest
  <2>4. f \in Bijection(small, rest)
    <3>1. f \in [small -> rest] /\ \A A \in small : f[A] = A \cup {k + 1}
      BY <2>1
    <3> HIDE DEF f
    <3>2. f \in Injection(small, rest)
      <4>1. \A A, B \in small : f[A] = f[B] => A = B
        BY <2>2, <3>1
      <4>2. QED
        BY <3>1, <4>1, Zenon DEF Injection, IsInjective
    <3>3. f \in Surjection(small, rest)
      BY <2>3, <3>1, Zenon DEF Surjection
    <3>4. QED
      BY <3>2, <3>3 DEF Bijection
  <2>5. QED
    BY <1>1, <2>4, FS_Bijection DEF ExistsBijection
<1>5. large = small \cup rest /\ small \cap rest = {}
  <2>1. \A A \in large : k + 1 \notin A => A \in small
    OBVIOUS
  <2>2. \A A \in small : A \in large /\ k + 1 \notin A
    OBVIOUS
  <2>3. QED
    BY <2>1, <2>2
<1> HIDE DEF small, large, rest
<1>6. Cardinality(large) = Cardinality(small) + Cardinality(rest)
  <2>1. Cardinality(small \cap rest) = 0
    BY <1>5, FS_EmptySet
  <2>2. QED
    BY <1>1, <1>4, <1>5, <2>1, FS_Union
<1>7. QED
  BY <1>1, <1>2, <1>3, <1>4, <1>6

\* Each number has a length in binary.
LEMMA LengthInBinary ==
  ASSUME NEW n \in Nat
  PROVE  \E k \in 1..(n + 1) : IsWordLen(n, k)
<1> DEFINE below == {m \in Nat : m < 2^m}
<1>1. \A m \in Nat : m \in below
  <2>1. 0 \in below
    BY PowersDouble
  <2>2. ASSUME NEW m \in Nat, m \in below PROVE m + 1 \in below
    <3>1. m < 2^m /\ 2^m \in Nat \ {0} /\ 2^(m + 1) = 2^m + 2^m
      BY <2>2, PowersDouble
    <3>2. QED
      BY <3>1
  <2> HIDE DEF below
  <2>3. QED
    BY <2>1, <2>2, EveryNumber
<1> DEFINE long == {k \in Nat : k >= 1 /\ n < 2^k}
<1>2. n + 1 \in long
  <2>1. n < 2^n /\ 2^n \in Nat /\ 2^(n + 1) = 2^n + 2^n
    BY <1>1, PowersDouble
  <2>2. QED
    BY <2>1
<1>3. PICK k \in long : \A j \in long : k <= j
  BY <1>2, LeastNumber
<1>4. k \in 1..(n + 1) /\ n < 2^k
  BY <1>2, <1>3
<1>5. ASSUME k > 1 PROVE 2^(k - 1) <= n
  <2>1. PICK j \in Nat : j = k - 1 /\ j >= 1
    BY <1>3, <1>5
  <2>2. j \notin long
    BY <1>3, <2>1
  <2>3. 2^j \in Nat
    BY PowersDouble
  <2>4. 2^j <= n
    BY <2>1, <2>2, <2>3
  <2>5. QED
    BY <2>1, <2>4
<1>6. QED
  BY <1>4, <1>5 DEF IsWordLen

LEMMA WordLenFits ==
  ASSUME NEW n \in Nat
  PROVE  /\ WordLen(n) \in Nat \ {0}
         /\ 2^WordLen(n) \in Nat
         /\ n < 2^WordLen(n)
<1>1. WordLen(n) \in 1..(n + 1) /\ IsWordLen(n, WordLen(n))
  BY LengthInBinary DEF WordLen
<1>2. QED
  BY <1>1, PowersDouble DEF IsWordLen

-----------------------------------------------------------------------------
(* The palette of a list, and the indices that stand for its numbers. *)

NumberList == {s \in Seq(0..MaxNumber) : Len(s) \in 1..MaxNumber}

LEMMA LargestIsLargest ==
  ASSUME NEW src \in NumberList
  PROVE  /\ Largest(src) \in 0..MaxNumber
         /\ \A j \in DOMAIN src : src[j] <= Largest(src)
<1>0. /\ DOMAIN src = 1..Len(src) /\ Len(src) \in 1..MaxNumber /\ MaxNumber \in Nat
      /\ \A j \in DOMAIN src : src[j] \in 0..MaxNumber
  BY NumbersAssumption DEF NumberList
<1> DEFINE gaps == {MaxNumber - src[j] : j \in DOMAIN src}
<1>1. gaps \in SUBSET Nat /\ gaps # {}
  BY <1>0
<1>2. PICK x \in gaps : \A y \in gaps : x <= y
  BY <1>1, LeastNumber
<1>3. PICK i \in DOMAIN src : x = MaxNumber - src[i]
  BY <1>2
<1>4. \A j \in DOMAIN src : src[j] <= src[i]
  <2>1. TAKE j \in DOMAIN src
  <2>2. MaxNumber - src[i] <= MaxNumber - src[j]
    BY <1>2, <1>3
  <2>3. src[i] \in 0..MaxNumber /\ src[j] \in 0..MaxNumber
    BY <1>0
  <2>4. QED
    BY <2>2, <2>3, <1>0
<1> DEFINE most == CHOOSE k \in DOMAIN src : \A j \in DOMAIN src : src[j] <= src[k]
<1>5. most \in DOMAIN src /\ \A j \in DOMAIN src : src[j] <= src[most]
  BY <1>4
<1>6. QED
  BY <1>0, <1>5 DEF Largest

LEMMA FirstPlaceOfEach ==
  ASSUME NEW src \in NumberList, NEW i \in DOMAIN src
  PROVE  \E j \in FirstPlaces(src) : src[j] = src[i]
<1>0. DOMAIN src = 1..Len(src) /\ Len(src) \in Nat
  BY NumbersAssumption DEF NumberList
<1> DEFINE same == {j \in DOMAIN src : src[j] = src[i]}
<1>1. same \in SUBSET Nat /\ same # {}
  BY <1>0
<1>2. PICK j \in same : \A y \in same : j <= y
  BY <1>1, LeastNumber
<1>3. \A k \in 1..(j - 1) : src[k] # src[j]
  BY <1>0, <1>2
<1>4. QED
  BY <1>2, <1>3 DEF FirstPlaces

LEMMA FirstPlaceIsUnique ==
  ASSUME NEW src \in NumberList, NEW i \in FirstPlaces(src), NEW j \in FirstPlaces(src),
         src[i] = src[j]
  PROVE  i = j
<1>0. DOMAIN src = 1..Len(src) /\ Len(src) \in Nat
  BY NumbersAssumption DEF NumberList
<1>1. i \in 1..Len(src) /\ j \in 1..Len(src)
  BY <1>0 DEF FirstPlaces
<1>2. (\A k \in 1..(j - 1) : src[k] # src[j]) /\ (\A k \in 1..(i - 1) : src[k] # src[i])
  BY DEF FirstPlaces
<1>3. ~(i < j) /\ ~(j < i)
  BY <1>0, <1>1, <1>2
<1>4. QED
  BY <1>0, <1>1, <1>3

LEMMA FirstPlacesAreFinite ==
  ASSUME NEW src \in NumberList
  PROVE  /\ IsFiniteSet(FirstPlaces(src))
         /\ FirstPlaces(src) \subseteq 1..Len(src)
         /\ Cardinality(FirstPlaces(src)) \in 1..Len(src)
<1>0. DOMAIN src = 1..Len(src) /\ Len(src) \in Nat \ {0}
  BY NumbersAssumption DEF NumberList
<1>1. FirstPlaces(src) \subseteq 1..Len(src)
  BY <1>0 DEF FirstPlaces
<1>2. IsFiniteSet(1..Len(src)) /\ Cardinality(1..Len(src)) = Len(src)
  BY <1>0, FS_Interval
<1>3. IsFiniteSet(FirstPlaces(src)) /\ Cardinality(FirstPlaces(src)) <= Len(src)
  BY <1>1, <1>2, FS_Subset
<1>4. FirstPlaces(src) # {}
  <2>1. 1 \in DOMAIN src
    BY <1>0
  <2>2. QED
    BY <2>1, FirstPlaceOfEach
<1>5. QED
  BY <1>0, <1>1, <1>3, <1>4, FS_EmptySet, FS_CardinalityType

\* Ranks run from 0, and no two first places have the same.
LEMMA RanksDiffer ==
  ASSUME NEW src \in NumberList
  PROVE  /\ \A i \in FirstPlaces(src) : Rank(src, i) \in 0..(Cardinality(FirstPlaces(src)) - 1)
         /\ \A i, j \in FirstPlaces(src) : Rank(src, i) = Rank(src, j) => i = j
<1> DEFINE F == FirstPlaces(src)
           before(i) == {j \in F : j < i}
<1>1. /\ IsFiniteSet(F) /\ F \subseteq Nat /\ Cardinality(F) \in Nat \ {0}
  <2>1. Len(src) \in Nat
    BY DEF NumberList
  <2>2. QED
    BY <2>1, FirstPlacesAreFinite
<1>2. \A i \in F : Rank(src, i) = Cardinality(before(i))
  BY DEF Rank
<1> HIDE DEF F
<1>3. \A i \in F : before(i) \in SUBSET F /\ i \notin before(i)
  BY <1>1
<1>4. \A i \in F : /\ IsFiniteSet(before(i))
                   /\ Cardinality(before(i)) \in Nat
                   /\ Cardinality(before(i)) < Cardinality(F)
  <2>1. TAKE i \in F
  <2>2. before(i) \in SUBSET F /\ before(i) # F
    BY <1>3
  <2> HIDE DEF before
  <2>3. IsFiniteSet(before(i)) /\ Cardinality(before(i)) <= Cardinality(F)
        /\ Cardinality(before(i)) # Cardinality(F)
    BY <2>2, <1>1, FS_Subset
  <2>4. Cardinality(before(i)) \in Nat
    BY <2>3, FS_CardinalityType
  <2>5. QED
    BY <2>3, <2>4, <1>1
<1>5. \A i, j \in F : i < j => Cardinality(before(i)) < Cardinality(before(j))
  <2>1. TAKE i, j \in F
  <2>2. HAVE i < j
  <2>3. before(i) \in SUBSET before(j) /\ before(i) # before(j)
    <3>1. i \in before(j) /\ i \notin before(i)
      BY <2>2, <1>1
    <3>2. \A y \in F : y < i => y < j
      <4>1. F \subseteq Int
        BY <1>1
      <4>2. QED
        BY <4>1, <2>2
    <3>3. before(i) \subseteq before(j)
      BY <3>2
    <3>4. QED
      BY <3>1, <3>3
  <2>4. IsFiniteSet(before(j)) /\ Cardinality(before(j)) \in Nat /\ Cardinality(before(i)) \in Nat
    BY <1>4
  <2> HIDE DEF before
  <2>5. Cardinality(before(i)) <= Cardinality(before(j))
        /\ Cardinality(before(i)) # Cardinality(before(j))
    BY <2>3, <2>4, FS_Subset
  <2>6. QED
    BY <2>4, <2>5
<1> HIDE DEF before
<1>6. \A i, j \in F : Cardinality(before(i)) = Cardinality(before(j)) => i = j
  <2>1. TAKE i, j \in F
  <2>2. HAVE Cardinality(before(i)) = Cardinality(before(j))
  <2>3. ~(i < j) /\ ~(j < i)
    BY <2>2, <1>4, <1>5
  <2>4. QED
    BY <2>3, <1>1
<1>7. QED
  BY <1>1, <1>2, <1>4, <1>6 DEF F

\* Every rank below the number of first places is the rank of one.
LEMMA RanksCover ==
  ASSUME NEW src \in NumberList, NEW k \in 0..(Cardinality(FirstPlaces(src)) - 1)
  PROVE  \E i \in FirstPlaces(src) : Rank(src, i) = k
<1> DEFINE F == FirstPlaces(src)
           n == Cardinality(F)
           rank == [i \in F |-> Rank(src, i)]
<1>1. IsFiniteSet(F) /\ n \in Nat \ {0}
  <2>1. Len(src) \in Nat
    BY DEF NumberList
  <2>2. QED
    BY <2>1, FirstPlacesAreFinite
<1>2. rank \in Injection(F, 0..(n - 1))
  BY RanksDiffer DEF Injection, IsInjective
<1>3. IsFiniteSet(0..(n - 1)) /\ Cardinality(0..(n - 1)) = n
  BY <1>1, FS_Interval
<1> HIDE DEF n
<1>4. rank \in Surjection(F, 0..(n - 1))
  <2> HIDE DEF rank, F
  <2>1. Cardinality(F) = Cardinality(0..(n - 1))
    BY <1>3 DEF n
  <2>2. QED
    BY <1>2, <1>3, <2>1, FS_Injection
<1>5. QED
  BY <1>4 DEF Surjection, n

\* The palette holds, at the index that stands for a number, that number.
LEMMA IndicesStandForNumbers ==
  ASSUME NEW src \in NumberList
  PROVE  /\ PaletteOf(src) \in Seq(0..MaxNumber)
         /\ Len(PaletteOf(src)) = Cardinality(FirstPlaces(src))
         /\ IndicesOf(src) \in Seq(Nat)
         /\ Len(IndicesOf(src)) = Len(src)
         /\ \A i \in 1..Len(src) :
              /\ IndicesOf(src)[i] \in 0..(Cardinality(FirstPlaces(src)) - 1)
              /\ PaletteOf(src)[IndicesOf(src)[i] + 1] = src[i]
<1> DEFINE F == FirstPlaces(src)
           n == Cardinality(F)
           at(k) == CHOOSE i \in F : Rank(src, i) = k - 1
           first(i) == CHOOSE j \in F : src[j] = src[i]
<1>0. /\ DOMAIN src = 1..Len(src) /\ Len(src) \in Nat \ {0}
      /\ \A i \in 1..Len(src) : src[i] \in 0..MaxNumber
  BY NumbersAssumption DEF NumberList
<1>1. F \subseteq 1..Len(src) /\ n \in Nat \ {0}
  BY <1>0, FirstPlacesAreFinite
<1>2. \A k \in 1..n : at(k) \in F /\ Rank(src, at(k)) = k - 1
  <2>1. TAKE k \in 1..n
  <2>2. k - 1 \in 0..(n - 1)
    BY <1>1
  <2>3. \E i \in F : Rank(src, i) = k - 1
    BY <2>2, RanksCover
  <2>4. QED
    BY <2>3
<1>3. \A i \in 1..Len(src) : first(i) \in F /\ src[first(i)] = src[i]
  <2>1. TAKE i \in 1..Len(src)
  <2>2. \E j \in F : src[j] = src[i]
    BY <1>0, FirstPlaceOfEach
  <2>3. QED
    BY <2>2
<1>4. PaletteOf(src) = [k \in 1..n |-> src[at(k)]]
  BY DEF PaletteOf
<1>5. IndicesOf(src) = [i \in 1..Len(src) |-> Rank(src, first(i))]
  BY <1>0 DEF IndicesOf
<1>6. /\ \A i \in F : Rank(src, i) \in 0..(n - 1)
      /\ \A i, j \in F : Rank(src, i) = Rank(src, j) => i = j
  BY RanksDiffer
<1> HIDE DEF n, at, first
<1>7. \A k \in 1..n : src[at(k)] \in 0..MaxNumber
  <2> HIDE DEF F
  <2>1. QED
    BY <1>0, <1>1, <1>2
<1>8. PaletteOf(src) \in Seq(0..MaxNumber) /\ Len(PaletteOf(src)) = n
  BY <1>1, <1>4, <1>7
<1>9. IndicesOf(src) \in Seq(Nat) /\ Len(IndicesOf(src)) = Len(src)
  <2> HIDE DEF F
  <2>1. \A i \in 1..Len(src) : Rank(src, first(i)) \in Nat
    <3>1. TAKE i \in 1..Len(src)
    <3>2. Rank(src, first(i)) \in 0..(n - 1)
      BY <1>3, <1>6
    <3>3. QED
      BY <3>2, <1>1
  <2>2. QED
    BY <1>0, <1>5, <2>1
<1>10. \A i \in 1..Len(src) :
         /\ IndicesOf(src)[i] \in 0..(n - 1)
         /\ PaletteOf(src)[IndicesOf(src)[i] + 1] = src[i]
  <2> HIDE DEF F
  <2>1. TAKE i \in 1..Len(src)
  <2> DEFINE r == Rank(src, first(i))
  <2>2. first(i) \in F /\ src[first(i)] = src[i]
    BY <1>3
  <2>3. r \in 0..(n - 1) /\ IndicesOf(src)[i] = r
    BY <2>2, <1>5, <1>6
  <2>4. r + 1 \in 1..n /\ (r + 1) - 1 = r
    BY <2>3, <1>1
  <2>5. at(r + 1) \in F /\ Rank(src, at(r + 1)) = r
    BY <2>4, <1>2
  <2>6. at(r + 1) = first(i)
    BY <2>5, <2>2, <1>6
  <2>7. PaletteOf(src)[r + 1] = src[at(r + 1)]
    BY <2>4, <1>4
  <2>8. QED
    BY <2>2, <2>3, <2>6, <2>7
<1>11. QED
  BY <1>8, <1>9, <1>10 DEF n

\* A coding c of a list src: words wide enough, and the data are the numbers of
\* src or the indices of a palette that gives them.
CodingOf(src, c) ==
  /\ c \in [palette : Seq(Nat), data : Seq(Nat),
            paletteWordLen : Nat, baseWordLen : Nat \ {0}]
  /\ Len(c.data) = Len(src)
  /\ 2^c.baseWordLen \in Nat
  /\ \A i \in 1..Len(src) : c.data[i] < 2^c.baseWordLen
  /\ c.palette = << >> => c.data = src
  /\ c.palette # << >> =>
       /\ c.paletteWordLen # 0
       /\ 2^c.paletteWordLen \in Nat
       /\ \A k \in 1..Len(c.palette) : c.palette[k] < 2^c.paletteWordLen
       /\ \A i \in 1..Len(src) :
            c.data[i] + 1 \in 1..Len(c.palette) /\ c.palette[c.data[i] + 1] = src[i]

LEMMA PaletteMaybeIsCoding ==
  ASSUME NEW src \in NumberList
  PROVE  CodingOf(src, PaletteMaybe(src))
<1> DEFINE n == Cardinality(FirstPlaces(src))
           raw == [palette |-> << >>, data |-> src,
                   paletteWordLen |-> 0, baseWordLen |-> WordLen(Largest(src))]
           packed == [palette |-> PaletteOf(src), data |-> IndicesOf(src),
                      paletteWordLen |-> WordLen(Largest(src)), baseWordLen |-> WordLen(n)]
<1>0. /\ Len(src) \in 1..MaxNumber /\ MaxNumber \in Nat /\ src \in Seq(0..MaxNumber)
      /\ DOMAIN src = 1..Len(src)
      /\ \A i \in 1..Len(src) : src[i] \in 0..MaxNumber
  BY NumbersAssumption DEF NumberList
<1>1. n \in 1..Len(src)
  BY FirstPlacesAreFinite
<1>2. PaletteMaybe(src) = raw \/ PaletteMaybe(src) = packed
  BY DEF PaletteMaybe
<1>3. Largest(src) \in 0..MaxNumber /\ \A j \in 1..Len(src) : src[j] <= Largest(src)
  BY <1>0, LargestIsLargest
<1> DEFINE valueLen == WordLen(Largest(src))
           indexLen == WordLen(n)
<1>4. valueLen \in Nat \ {0} /\ 2^valueLen \in Nat /\ Largest(src) < 2^valueLen
  BY <1>3, WordLenFits
<1>5. indexLen \in Nat \ {0} /\ 2^indexLen \in Nat /\ n < 2^indexLen
  <2>1. n \in 0..MaxNumber
    BY <1>0, <1>1
  <2>2. QED
    BY <2>1, WordLenFits
<1>6. /\ PaletteOf(src) \in Seq(0..MaxNumber)
      /\ Len(PaletteOf(src)) = n
      /\ IndicesOf(src) \in Seq(Nat)
      /\ Len(IndicesOf(src)) = Len(src)
      /\ \A i \in 1..Len(src) :
           /\ IndicesOf(src)[i] \in 0..(n - 1)
           /\ PaletteOf(src)[IndicesOf(src)[i] + 1] = src[i]
  BY IndicesStandForNumbers
<1>7. \A k \in 1..n : PaletteOf(src)[k] < 2^valueLen
  <2>1. TAKE k \in 1..n
  <2>2. PICK i \in FirstPlaces(src) : Rank(src, i) = k - 1
    <3>1. k - 1 \in 0..(n - 1)
      BY <1>0, <1>1
    <3>2. QED
      BY <3>1, RanksCover
  <2> DEFINE p == CHOOSE j \in FirstPlaces(src) : Rank(src, j) = k - 1
  <2>3. p \in FirstPlaces(src)
    BY <2>2
  <2>4. p \in 1..Len(src)
    BY <2>3, FirstPlacesAreFinite
  <2>5. PaletteOf(src)[k] = src[p]
    BY DEF PaletteOf
  <2> HIDE DEF p, valueLen
  <2>6. QED
    BY <2>4, <2>5, <1>0, <1>3, <1>4
<1> HIDE DEF n, valueLen, indexLen
<1>8. CodingOf(src, raw)
  <2>1. raw.data = src /\ raw.palette = << >> /\ raw.baseWordLen = valueLen
    BY DEF valueLen
  <2>2. src \in Seq(Nat)
    BY <1>0
  <2>3. raw \in [palette : Seq(Nat), data : Seq(Nat),
                 paletteWordLen : Nat, baseWordLen : Nat \ {0}]
    BY <1>4, <2>2 DEF valueLen
  <2> HIDE DEF raw
  <2>4. \A i \in 1..Len(src) : src[i] < 2^valueLen
    BY <1>0, <1>3, <1>4
  <2>5. QED
    BY <2>1, <2>3, <2>4, <1>4 DEF CodingOf
<1>9. CodingOf(src, packed)
  <2>1. /\ packed.data = IndicesOf(src) /\ packed.palette = PaletteOf(src)
        /\ packed.baseWordLen = indexLen /\ packed.paletteWordLen = valueLen
    BY DEF valueLen, indexLen, n
  <2>2. PaletteOf(src) \in Seq(Nat)
    BY <1>0, <1>6
  <2>3. packed \in [palette : Seq(Nat), data : Seq(Nat),
                    paletteWordLen : Nat, baseWordLen : Nat \ {0}]
    BY <1>4, <1>5, <1>6, <2>2 DEF valueLen, indexLen, n
  <2> HIDE DEF packed
  <2>4. \A i \in 1..Len(src) : IndicesOf(src)[i] < 2^indexLen /\ IndicesOf(src)[i] + 1 \in 1..n
    <3>1. TAKE i \in 1..Len(src)
    <3> DEFINE r == IndicesOf(src)[i]
               top == 2^indexLen
    <3>2. r \in 0..(n - 1)
      BY <1>6
    <3>3. top \in Nat /\ n < top /\ n \in Nat
      BY <1>0, <1>1, <1>5
    <3> HIDE DEF r, top
    <3>4. r < top /\ r + 1 \in 1..n
      BY <3>2, <3>3
    <3>5. QED
      BY <3>4 DEF r, top
  <2>5. PaletteOf(src) # << >>
    BY <1>1, <1>6
  <2>6. QED
    BY <2>1, <2>3, <2>4, <2>5, <1>4, <1>5, <1>6, <1>7 DEF CodingOf
<1>10. QED
  BY <1>2, <1>8, <1>9

-----------------------------------------------------------------------------
(* The arithmetic of blocks, slices and places. *)

LEMMA CeilDivReaches ==
  ASSUME NEW a \in Nat, NEW b \in Nat \ {0}
  PROVE  /\ CeilDiv(a, b) \in Nat
         /\ a <= CeilDiv(a, b) * b
         /\ a > 0 => CeilDiv(a, b) > 0
  BY DEF CeilDiv

LEMMA RoundDivIsNatural ==
  ASSUME NEW a \in Nat, NEW b \in Nat \ {0}
  PROVE  RoundDiv(a, b) \in Nat
<1>1. 2 * a + b \in Nat /\ 2 * b \in Nat \ {0}
  OBVIOUS
<1>2. \A x \in Nat, y \in Nat \ {0} : x \div y \in Nat
  OBVIOUS
<1>3. QED
  BY <1>1, <1>2 DEF RoundDiv

LEMMA PlaceInSlice ==
  ASSUME NEW i \in Nat, NEW n \in Nat \ {0}
  PROVE  /\ i \div n \in Nat
         /\ i % n \in 0..(n - 1)
         /\ i = (i \div n) * n + (i % n)
  OBVIOUS

LEMMA PlaceIsUnique ==
  ASSUME NEW y \in Nat, NEW n \in Nat \ {0}, NEW x \in 0..(n - 1)
  PROVE  (y * n + x) \div n = y /\ (y * n + x) % n = x
<1> DEFINE i == y * n + x
           q == i \div n
           r == i % n
<1>1. i \in Nat /\ y * n \in Nat
  OBVIOUS
<1>2. q \in Nat /\ r \in 0..(n - 1) /\ i = q * n + r
  BY <1>1, PlaceInSlice
<1> HIDE DEF q, r
<1>3. ~(q < y)
  <2>1. SUFFICES ASSUME q + 1 <= y PROVE FALSE
    BY <1>2
  <2>2. (q + 1) * n <= y * n
    BY <2>1, <1>2
  <2>3. (q + 1) * n = q * n + n
    BY <1>2
  <2>4. QED
    BY <2>2, <2>3, <1>1, <1>2
<1>4. ~(y < q)
  <2>1. SUFFICES ASSUME y + 1 <= q PROVE FALSE
    BY <1>2
  <2>2. (y + 1) * n <= q * n
    BY <2>1, <1>2
  <2>3. (y + 1) * n = y * n + n
    OBVIOUS
  <2>4. QED
    BY <2>2, <2>3, <1>1, <1>2
<1>5. q = y
  BY <1>2, <1>3, <1>4
<1>6. r = x
  BY <1>2, <1>5
<1>7. QED
  BY <1>5, <1>6 DEF q, r

\* The bytes that hold some words have room for all of them.
LEMMA SpareIsNatural ==
  ASSUME NEW len \in Nat, NEW word \in Nat \ {0}
  PROVE  Spare(len, word) \in Nat
<1> DEFINE bits == word * len
           room == 8 * CeilDiv(bits, 8)
           q == room \div word
<1>1. bits \in Nat
  OBVIOUS
<1>2. room \in Nat /\ bits <= room
  <2> HIDE DEF bits
  <2>1. CeilDiv(bits, 8) \in Nat /\ bits <= CeilDiv(bits, 8) * 8
    BY <1>1, CeilDivReaches
  <2>2. QED
    BY <2>1, <1>1
<1> HIDE DEF room
<1>3. q \in Nat /\ room \in Nat /\ room < (q + 1) * word
  <2>1. q \in Nat /\ room % word \in 0..(word - 1) /\ room = q * word + (room % word)
    BY <1>2, PlaceInSlice
  <2> HIDE DEF q
  <2>2. (q + 1) * word = q * word + word
    BY <2>1
  <2>3. QED
    BY <2>1, <2>2, <1>2
<1> HIDE DEF q
<1>4. ~(q < len)
  <2>1. SUFFICES ASSUME q + 1 <= len PROVE FALSE
    BY <1>3
  <2>2. (q + 1) * word <= len * word
    BY <2>1, <1>3
  <2>3. len * word = bits
    OBVIOUS
  <2>4. QED
    BY <2>2, <2>3, <1>1, <1>2, <1>3
<1>5. Spare(len, word) = q - len
  BY DEF Spare, Bytes, q, room
<1>6. QED
  BY <1>3, <1>4, <1>5

\* Words of a byte or more leave no room for a further word, however many they
\* are: only lists of numbers below 128 can be read back out of place.
THEOREM WideWordsAreTight ==
  ASSUME NEW len \in Nat, NEW word \in Nat, word >= 8
  PROVE  Spare(len, word) = 0
<1> DEFINE bits == word * len
           bytes == CeilDiv(bits, 8)
           q == (8 * bytes) \div word
<1>1. bits \in Nat
  OBVIOUS
<1>2. bytes \in Nat /\ 8 * bytes < bits + 8
  <2> HIDE DEF bits
  <2>1. QED
    BY <1>1 DEF CeilDiv
<1>3. Spare(len, word) \in Nat
  BY SpareIsNatural
<1>4. Spare(len, word) = q - len
  BY DEF Spare, Bytes
<1> HIDE DEF bytes
<1>5. q \in Nat /\ q * word <= 8 * bytes
  <2> DEFINE room == 8 * bytes
  <2>1. room \in Nat
    BY <1>2
  <2> HIDE DEF room
  <2>2. room \div word \in Nat /\ room % word \in Nat
        /\ room = (room \div word) * word + (room % word)
    BY <2>1, PlaceInSlice
  <2>3. (room \div word) * word \in Nat
    BY <2>2
  <2>4. room \div word \in Nat /\ (room \div word) * word <= room
    BY <2>1, <2>2, <2>3
  <2>5. QED
    BY <2>4 DEF room
<1> HIDE DEF q
<1>6. ~(q > len)
  <2>1. SUFFICES ASSUME q >= len + 1 PROVE FALSE
    BY <1>5
  <2>2. (len + 1) * word <= q * word
    BY <2>1, <1>5
  <2>3. (len + 1) * word = bits + word
    OBVIOUS
  <2>4. QED
    BY <2>2, <2>3, <1>1, <1>2, <1>5
<1>7. QED
  BY <1>3, <1>4, <1>5, <1>6

-----------------------------------------------------------------------------
(* What is coded, and the blocks that are made of it. *)

Codings == [palette : Seq(Nat), data : Seq(Nat), paletteWordLen : Nat, baseWordLen : Nat \ {0}]

CodingInv ==
  /\ map \in Maps
  /\ coding \in [Dims -> Codings]
  /\ \A d \in Dims : CodingOf(map.lists[d], coding[d])

LEMMA MapsHoldNumbers ==
  ASSUME NEW m \in Maps
  PROVE  /\ m \in MapType
         /\ \A d \in Dims : m.lists[d] \in NumberList
  BY MapsAssumption DEF MapType, NumberList

LEMMA ListsAreCoded ==
  ASSUME CodingInv, NEW kind \in Kinds, NEW d \in Dims
  PROVE  /\ ListOf(kind, d) \in Seq(Nat)
         /\ WordOf(kind, d) \in Nat
         /\ ListOf(kind, d) # << >> =>
              /\ WordOf(kind, d) # 0
              /\ 2^WordOf(kind, d) \in Nat
              /\ \A i \in 1..Len(ListOf(kind, d)) : ListOf(kind, d)[i] < 2^WordOf(kind, d)
<1>1. CodingOf(map.lists[d], coding[d])
  BY DEF CodingInv
<1>2. CASE kind = "palettes"
  <2>1. ListOf(kind, d) = coding[d].palette /\ WordOf(kind, d) = coding[d].paletteWordLen
    BY <1>2 DEF ListOf, WordOf
  <2>2. QED
    BY <2>1, <1>1 DEF CodingOf
<1>3. CASE kind = "data"
  <2>1. ListOf(kind, d) = coding[d].data /\ WordOf(kind, d) = coding[d].baseWordLen
    BY <1>3 DEF ListOf, WordOf
  <2>2. QED
    BY <2>1, <1>1 DEF CodingOf
<1>4. QED
  BY <1>2, <1>3 DEF Kinds

\* A list that is not empty is cut into slices that reach its end.
LEMMA SlicesReach ==
  ASSUME CodingInv, NEW kind \in Kinds
  PROVE  /\ BlockCount(kind) \in Nat
         /\ \A d \in Dims :
              /\ BlockCount(kind) # 0 => Chunk(kind, d) \in Nat
              /\ ListOf(kind, d) # << >> =>
                   /\ BlockCount(kind) # 0
                   /\ Chunk(kind, d) # 0
                   /\ Len(ListOf(kind, d)) <= Chunk(kind, d) * BlockCount(kind)
<1>1. \A d \in Dims :
        /\ ListBytes(kind, d) \in Nat
        /\ ListOf(kind, d) # << >> => ListBytes(kind, d) > 0
  <2>1. TAKE d \in Dims
  <2> DEFINE len == Len(ListOf(kind, d))
             word == WordOf(kind, d)
             bits == word * len
  <2>2. len \in Nat /\ word \in Nat
    BY ListsAreCoded
  <2>3. ListOf(kind, d) # << >> => len > 0 /\ word > 0
    BY ListsAreCoded
  <2>4. ListBytes(kind, d) = CeilDiv(bits, 8)
    BY DEF ListBytes, Bytes
  <2> HIDE DEF len, word
  <2>5. bits \in Nat /\ (len > 0 /\ word > 0 => bits > 0)
    BY <2>2
  <2> HIDE DEF bits
  <2>6. QED
    BY <2>3, <2>4, <2>5, CeilDivReaches
<1>2. TotalSize(kind) \in Nat
      /\ \A d \in Dims : ListOf(kind, d) # << >> => TotalSize(kind) > 0
  BY <1>1 DEF TotalSize, Dims
<1>3. MinBlockCount(kind) \in Nat
      /\ \A d \in Dims : ListOf(kind, d) # << >> => MinBlockCount(kind) > 0
  BY <1>2, CeilDivReaches, PayloadAssumption DEF MinBlockCount
<1>4. /\ BlockCount(kind) \in Nat
      /\ BlockCount(kind) # 0 <=> MinBlockCount(kind) # 0
  BY <1>3 DEF BlockCount
<1>5. ASSUME NEW d \in Dims, BlockCount(kind) # 0
      PROVE  /\ Chunk(kind, d) \in Nat
             /\ ListOf(kind, d) # << >> => Chunk(kind, d) # 0
             /\ Len(ListOf(kind, d)) <= Chunk(kind, d) * BlockCount(kind)
  <2> DEFINE len == Len(ListOf(kind, d))
             rounded == RoundDiv(len, MinBlockCount(kind))
             raised == CeilDiv(len, BlockCount(kind))
             n == BlockCount(kind)
             c == Chunk(kind, d)
  <2>1. len \in Nat /\ (ListOf(kind, d) # << >> => len > 0)
    BY ListsAreCoded
  <2>2. n \in Nat \ {0} /\ MinBlockCount(kind) \in Nat \ {0}
    BY <1>3, <1>4, <1>5
  <2> HIDE DEF len
  <2>3. rounded \in Nat
    BY <2>1, <2>2, RoundDivIsNatural
  <2>4. raised \in Nat /\ len <= raised * n /\ (len > 0 => raised > 0)
    BY <2>1, <2>2, CeilDivReaches
  <2>5. c \in Nat /\ c >= raised
    <3>1. c = GreaterOf(rounded, raised)
      BY DEF Chunk, len
    <3> HIDE DEF rounded, raised
    <3>2. QED
      BY <3>1, <2>3, <2>4 DEF GreaterOf
  <2> HIDE DEF c, n, raised
  <2>6. raised * n <= c * n
    BY <2>2, <2>4, <2>5
  <2>7. len <= c * n /\ (len > 0 => c # 0)
    <3>1. raised * n \in Nat /\ c * n \in Nat
      BY <2>2, <2>4, <2>5
    <3>2. QED
      BY <3>1, <2>1, <2>4, <2>5, <2>6
  <2>8. QED
    BY <2>1, <2>5, <2>7 DEF c, n, len
<1>6. QED
  BY <1>3, <1>4, <1>5

\* Where the slice of block idx ends, counted from its first number.
SliceLen(n, len, idx) == IF idx * n >= len THEN 0 ELSE LesserOf(n, len - idx * n)

LEMMA SliceHolds ==
  ASSUME CodingInv, NEW kind \in Kinds, NEW d \in Dims, NEW idx \in Nat,
         BlockCount(kind) # 0
  PROVE  LET src == ListOf(kind, d)
             n == Chunk(kind, d)
             slice == Block(kind, idx)[d]
         IN  /\ slice \in Seq(Nat)
             /\ Len(slice) = SliceLen(n, Len(src), idx)
             /\ \A j \in 1..Len(slice) :
                  idx * n + j \in 1..Len(src) /\ slice[j] = src[idx * n + j]
<1> DEFINE src == ListOf(kind, d)
           n == Chunk(kind, d)
           len == Len(src)
           start == idx * n
           stop == LesserOf((idx + 1) * n, len)
           part == SubSeq(src, start + 1, stop)
           slice == Block(kind, idx)[d]
           word == WordOf(kind, d)
<1>1. src \in Seq(Nat) /\ len \in Nat /\ n \in Nat
  BY ListsAreCoded, SlicesReach
<1>2. src # << >> => 2^word \in Nat /\ \A i \in 1..len : src[i] < 2^word
  BY ListsAreCoded
<1>3. slice = [i \in DOMAIN part |-> part[i] % 2^word]
  BY DEF Block, Translated
<1> HIDE DEF src, n, slice, word
<1>4. start \in Nat /\ (idx + 1) * n = start + n
  BY <1>1
<1> HIDE DEF start, len
<1>5. stop \in Nat /\ stop <= len /\ stop <= start + n /\ (stop = len \/ stop = start + n)
  BY <1>1, <1>4 DEF LesserOf
<1> HIDE DEF stop
<1> DEFINE k == SliceLen(n, len, idx)
<1>6. k \in Nat /\ (start + k <= len \/ k = 0)
  BY <1>1, <1>4 DEF SliceLen, LesserOf, start
<1>7. k \in Nat /\ (k > 0 => start + k = stop) /\ (k = 0 => stop <= start)
  <2>1. k = IF start >= len THEN 0 ELSE LesserOf(n, len - start)
    BY DEF SliceLen, start
  <2> HIDE DEF k
  <2>2. stop = LesserOf(start + n, len)
    BY <1>4 DEF stop
  <2>3. QED
    BY <1>1, <1>4, <2>1, <2>2 DEF LesserOf
<1> HIDE DEF k
<1>8. Len(part) = k /\ DOMAIN part = 1..k /\ \A j \in 1..k : part[j] = src[start + j]
  <2>1. Len(part) = IF start + 1 <= stop THEN stop - start ELSE 0
    BY <1>1, <1>4, <1>5
  <2>2. /\ DOMAIN part = 1..(IF start + 1 <= stop THEN stop - start ELSE 0)
        /\ \A j \in DOMAIN part : part[j] = src[start + 1 + j - 1]
    BY <1>1, <1>4, <1>5
  <2> HIDE DEF part
  <2>3. (IF start + 1 <= stop THEN stop - start ELSE 0) = k
    BY <1>4, <1>5, <1>7
  <2>4. Len(part) = k /\ DOMAIN part = 1..k
    BY <2>1, <2>2, <2>3
  <2>5. \A j \in 1..k : part[j] = src[start + j]
    <3>1. TAKE j \in 1..k
    <3>2. start + 1 + j - 1 = start + j
      BY <1>4, <1>7
    <3>3. QED
      BY <2>2, <2>4, <3>2
  <2>6. QED
    BY <2>4, <2>5
<1>9. \A j \in 1..k : start + j \in 1..len
  BY <1>1, <1>4, <1>5, <1>7
<1> HIDE DEF part
<1>10. \A j \in 1..k : part[j] % 2^word = src[start + j]
  <2>1. TAKE j \in 1..k
  <2>2. start + j \in 1..len
    BY <1>9
  <2>3. src # << >>
    BY <2>2, <1>1 DEF len
  <2> DEFINE top == 2^word
             x == src[start + j]
  <2>4. top \in Nat /\ x \in Nat /\ x < top
    BY <2>2, <2>3, <1>1, <1>2 DEF len
  <2> HIDE DEF top, x
  <2>5. x % top = x
    BY <2>4
  <2>6. part[j] = x
    BY <1>8 DEF x
  <2>7. QED
    BY <2>5, <2>6 DEF top, x
<1>11. slice = [j \in 1..k |-> src[start + j]]
  BY <1>3, <1>8, <1>10
<1>12. \A j \in 1..k : src[start + j] \in Nat
  BY <1>1, <1>9 DEF len
<1>13. slice \in Seq(Nat) /\ Len(slice) = k
  BY <1>7, <1>11, <1>12
<1>14. \A j \in 1..Len(slice) : start + j \in 1..len /\ slice[j] = src[start + j]
  BY <1>9, <1>11, <1>13
<1>15. QED
  BY <1>13, <1>14 DEF slice, n, src, start, len, k

-----------------------------------------------------------------------------
(* What hydrate makes of a slice. *)

LEMMA HydrateHolds ==
  ASSUME NEW words \in Seq(Nat), NEW palette \in Seq(Nat), NEW word \in Nat \ {0},
         palette # << >> => \A i \in 1..Len(words) : words[i] + 1 \in 1..Len(palette)
  PROVE  LET h == Hydrate(words, palette, word)
         IN  /\ h \in Seq(Nat)
             /\ Len(h) = IF words = << >> THEN 0 ELSE Len(words) + Spare(Len(words), word)
             /\ \A i \in 1..Len(words) :
                  /\ i \in 1..Len(h)
                  /\ h[i] = IF palette = << >> THEN words[i] ELSE palette[words[i] + 1]
<1> DEFINE len == Len(words)
           spare == Spare(len, word)
           filling == [i \in 1..spare |-> 0]
           unpacked == words \o filling
<1>1. CASE words = << >>
  BY <1>1 DEF Hydrate
<1>2. CASE words # << >>
  <2>1. len \in Nat /\ len > 0
    BY <1>2
  <2>2. spare \in Nat
    BY <2>1, SpareIsNatural
  <2> HIDE DEF spare
  <2>3. filling \in Seq(Nat) /\ Len(filling) = spare /\ \A i \in 1..spare : filling[i] = 0
    BY <2>2
  <2> HIDE DEF filling
  <2>4. /\ unpacked \in Seq(Nat) /\ Len(unpacked) = len + spare
        /\ \A i \in 1..len : unpacked[i] = words[i]
        /\ \A i \in (len + 1)..(len + spare) : unpacked[i] = 0
    <3>1. unpacked \in Seq(Nat) /\ Len(unpacked) = len + spare
      BY <2>3, ConcatProperties
    <3>2. \A i \in 1..len : unpacked[i] = words[i]
      BY <2>1, <2>2, <2>3
    <3>3. \A i \in (len + 1)..(len + spare) : unpacked[i] = filling[i - len]
      BY <2>1, <2>2, <2>3
    <3>4. \A i \in (len + 1)..(len + spare) : i - len \in 1..spare
      BY <2>1, <2>2
    <3>5. QED
      BY <3>1, <3>2, <3>3, <3>4, <2>3
  <2>5. Hydrate(words, palette, word) =
          IF palette = << >> THEN unpacked
          ELSE [i \in DOMAIN unpacked |-> palette[unpacked[i] + 1]]
    BY <1>2 DEF Hydrate, filling, spare
  <2> HIDE DEF unpacked, len
  <2>6. CASE palette = << >>
    BY <2>6, <2>1, <2>2, <2>4, <2>5, <1>2 DEF len, spare
  <2>7. CASE palette # << >>
    <3>1. DOMAIN unpacked = 1..(len + spare)
      BY <2>4
    <3>2. 1 \in 1..Len(palette)
      BY <2>7
    <3>3. \A i \in 1..(len + spare) : palette[unpacked[i] + 1] \in Nat
      <4>1. TAKE i \in 1..(len + spare)
      <4>2. CASE i \in 1..len
        <5>1. words[i] + 1 \in 1..Len(palette)
          BY <4>2, <2>7 DEF len
        <5>2. unpacked[i] = words[i]
          BY <4>2, <2>4
        <5>3. QED
          BY <5>1, <5>2
      <4>3. CASE i \in (len + 1)..(len + spare)
        BY <4>3, <2>4, <3>2
      <4>4. QED
        BY <4>2, <4>3, <2>1, <2>2
    <3> DEFINE h == [i \in 1..(len + spare) |-> palette[unpacked[i] + 1]]
    <3>4. Hydrate(words, palette, word) = h
      BY <2>5, <2>7, <3>1
    <3>5. h \in Seq(Nat) /\ Len(h) = len + spare
      BY <3>3, <2>1, <2>2
    <3>6. \A i \in 1..len : i \in 1..(len + spare) /\ h[i] = palette[words[i] + 1]
      <4>1. TAKE i \in 1..len
      <4>2. i \in 1..(len + spare)
        BY <2>1, <2>2
      <4>3. h[i] = palette[unpacked[i] + 1]
        BY <4>2
      <4>4. unpacked[i] = words[i]
        BY <2>4
      <4> HIDE DEF h
      <4>5. QED
        BY <4>2, <4>3, <4>4
    <3> HIDE DEF h
    <3>7. QED
      BY <3>4, <3>5, <3>6, <2>7, <1>2 DEF len, spare
  <2>8. QED
    BY <2>6, <2>7
<1>3. QED
  BY <1>1, <1>2

-----------------------------------------------------------------------------
(* The inductive invariant. *)

BlocksInv ==
  /\ blocks \in [Kinds -> Seq([Dims -> Seq(Nat)])]
  /\ \A kind \in Kinds :
       /\ Len(blocks[kind]) <= BlockCount(kind)
       /\ \A j \in 1..Len(blocks[kind]) : blocks[kind][j] = Block(kind, j - 1)

ReadInv ==
  /\ read \in [Kinds -> Nat]
  /\ \A kind \in Kinds :
       /\ read[kind] <= Len(blocks[kind])
       /\ read[kind] # 0 => \A k \in Kinds : Complete(k)
  /\ read["data"] # 0 => ReadBack("palettes")

\* The numbers that should be read: the palette, or what the data stand for.
Meant(kind, d) == IF kind = "palettes" THEN coding[d].palette ELSE map.lists[d]

\* q is what was read of a list of len numbers, after r slices of n.
ReadSoFar(q, len, n, r) == Len(q) >= LesserOf(r * n, len)
ReadRightSoFar(q, meant, len, n, r) ==
  /\ \A i \in 1..LesserOf(r * n, len) : q[i] = meant[i]
  /\ r * n < len => Len(q) = r * n

ListsInv ==
  /\ lists \in [Kinds -> [Dims -> Seq(Nat)]]
  /\ \A kind \in Kinds, d \in Dims :
       /\ ListOf(kind, d) = << >> => lists[kind][d] = << >>
       /\ ListOf(kind, d) # << >> =>
            ReadSoFar(lists[kind][d], Len(ListOf(kind, d)), Chunk(kind, d), read[kind])
       /\ ListOf(kind, d) # << >> /\ Tight(kind, d) /\ Tight("palettes", d) =>
            ReadRightSoFar(lists[kind][d], Meant(kind, d),
                           Len(ListOf(kind, d)), Chunk(kind, d), read[kind])

PlotInv ==
  /\ plotted.from \in Nat /\ plotted.until \in Nat
  /\ plotted # NoPlot =>
       /\ Loaded
       /\ plotted.from < plotted.until /\ plotted.from < map.size.h
       /\ plotted.points = Points(lists["data"], plotted.from, plotted.until)

IInv == CodingInv /\ BlocksInv /\ ReadInv /\ ListsInv /\ PlotInv

LEMMA InitIsRight == Init => IInv
<1> SUFFICES ASSUME Init PROVE IInv
  OBVIOUS
<1>1. CodingInv
  <2>1. map \in Maps /\ coding = [d \in Dims |-> PaletteMaybe(map.lists[d])]
    BY DEF Init
  <2>2. \A d \in Dims : CodingOf(map.lists[d], coding[d])
    BY <2>1, MapsHoldNumbers, PaletteMaybeIsCoding
  <2>3. \A d \in Dims : coding[d] \in Codings
    BY <2>2 DEF CodingOf, Codings
  <2>4. QED
    BY <2>1, <2>2, <2>3 DEF CodingInv
<1>2. BlocksInv
  <2>1. blocks = [k \in Kinds |-> << >>]
    BY DEF Init
  <2>2. \A kind \in Kinds : BlockCount(kind) \in Nat
    BY <1>1, SlicesReach
  <2>3. QED
    BY <2>1, <2>2 DEF BlocksInv
<1>3. ReadInv
  BY DEF Init, ReadInv, Kinds
<1>4. ListsInv
  <2>1. /\ lists = [k \in Kinds |-> [d \in Dims |-> << >>]]
        /\ read = [k \in Kinds |-> 0]
    BY DEF Init
  <2>2. lists \in [Kinds -> [Dims -> Seq(Nat)]]
    BY <2>1
  <2>3. ASSUME NEW kind \in Kinds, NEW d \in Dims, ListOf(kind, d) # << >>
        PROVE  /\ ReadSoFar(lists[kind][d], Len(ListOf(kind, d)), Chunk(kind, d), read[kind])
               /\ ReadRightSoFar(lists[kind][d], Meant(kind, d),
                                 Len(ListOf(kind, d)), Chunk(kind, d), read[kind])
    <3> DEFINE n == Chunk(kind, d)
               len == Len(ListOf(kind, d))
    <3>1. n \in Nat /\ len \in Nat
      BY <1>1, <2>3, SlicesReach, ListsAreCoded
    <3>2. lists[kind][d] = << >> /\ read[kind] = 0
      BY <2>1
    <3> HIDE DEF n, len
    <3>3. 0 * n = 0 /\ LesserOf(0 * n, len) = 0
      BY <3>1 DEF LesserOf
    <3>4. QED
      BY <3>1, <3>2, <3>3 DEF ReadSoFar, ReadRightSoFar, n, len
  <2>4. QED
    BY <2>1, <2>2, <2>3 DEF ListsInv
<1>5. PlotInv
  BY DEF Init, PlotInv, NoPlot
<1>6. QED
  BY <1>1, <1>2, <1>3, <1>4, <1>5 DEF IInv

\* No step changes the map or its coding, nor what is made of them.
LEMMA CodingStays ==
  ASSUME map' = map, coding' = coding
  PROVE  /\ CodingInv' = CodingInv
         /\ \A kind \in Kinds :
              /\ BlockCount(kind)' = BlockCount(kind)
              /\ \A idx : Block(kind, idx)' = Block(kind, idx)
              /\ \A d \in Dims :
                   /\ ListOf(kind, d)' = ListOf(kind, d)
                   /\ WordOf(kind, d)' = WordOf(kind, d)
                   /\ Chunk(kind, d)' = Chunk(kind, d)
                   /\ Tight(kind, d)' = Tight(kind, d)
                   /\ Meant(kind, d)' = Meant(kind, d)
<1>1. CodingInv' = CodingInv
  BY DEF CodingInv
<1>2. \A kind, d : ListOf(kind, d)' = ListOf(kind, d) /\ WordOf(kind, d)' = WordOf(kind, d)
  BY DEF ListOf, WordOf
<1>3. \A kind : MinBlockCount(kind)' = MinBlockCount(kind)
  BY <1>2 DEF MinBlockCount, TotalSize, ListBytes
<1>4. \A kind : BlockCount(kind)' = BlockCount(kind)
  BY <1>3 DEF BlockCount
<1>5. \A kind, d : Chunk(kind, d)' = Chunk(kind, d)
  BY <1>2, <1>3, <1>4 DEF Chunk
<1>6. \A kind, idx : Block(kind, idx)' = Block(kind, idx)
  BY <1>2, <1>5 DEF Block
<1>7. \A kind, d : Tight(kind, d)' = Tight(kind, d) /\ Meant(kind, d)' = Meant(kind, d)
  BY <1>2, <1>5 DEF Tight, Meant
<1>8. QED
  BY <1>1, <1>2, <1>4, <1>5, <1>6, <1>7

LEMMA BlockIsTyped ==
  ASSUME CodingInv, NEW kind \in Kinds, NEW idx \in Nat, BlockCount(kind) # 0
  PROVE  Block(kind, idx) \in [Dims -> Seq(Nat)]
<1>1. \A d \in Dims : Block(kind, idx)[d] \in Seq(Nat)
  BY SliceHolds
<1>2. QED
  BY <1>1 DEF Block

\* A block more of a kind is the next slice of each list.
LEMMA BlockifyIsRight ==
  ASSUME IInv, NEW kind \in Kinds, Blockify(kind)
  PROVE  IInv'
<1>0. map' = map /\ coding' = coding /\ read' = read /\ lists' = lists /\ plotted' = plotted
  BY DEF Blockify
<1>1. CodingInv /\ BlocksInv /\ ReadInv /\ ListsInv /\ PlotInv
  BY DEF IInv
<1>2. CodingInv'
  BY <1>0, <1>1, CodingStays
<1> DEFINE len == Len(blocks[kind])
           n == BlockCount(kind)
<1>3. len \in Nat /\ n \in Nat /\ len < n /\ n # 0
  BY <1>1, SlicesReach DEF Blockify, BlocksInv
<1>4. Block(kind, len) \in [Dims -> Seq(Nat)]
  BY <1>1, <1>3, BlockIsTyped
<1> DEFINE old == blocks[kind]
           new == Append(old, Block(kind, len))
<1>5. blocks' = [blocks EXCEPT ![kind] = new]
  BY DEF Blockify
<1>6. /\ blocks \in [Kinds -> Seq([Dims -> Seq(Nat)])]
      /\ old \in Seq([Dims -> Seq(Nat)])
  BY <1>1 DEF BlocksInv
<1> DEFINE block == Block(kind, len)
<1> HIDE DEF block
<1>7. /\ new \in Seq([Dims -> Seq(Nat)])
      /\ Len(new) = len + 1
      /\ \A j \in 1..len : new[j] = old[j]
      /\ new[len + 1] = block
  <2>1. new = Append(old, block) /\ block \in [Dims -> Seq(Nat)]
    BY <1>4 DEF block
  <2> HIDE DEF new
  <2>2. QED
    BY <2>1, <1>3, <1>6
<1> HIDE DEF new
<1>8. BlocksInv'
  <2>1. blocks' \in [Kinds -> Seq([Dims -> Seq(Nat)])]
    BY <1>5, <1>6, <1>7
  <2>2. ASSUME NEW k \in Kinds
        PROVE  /\ Len(blocks'[k]) <= BlockCount(k)
               /\ \A j \in 1..Len(blocks'[k]) : blocks'[k][j] = Block(k, j - 1)
    <3>1. CASE k # kind
      BY <3>1, <1>1, <1>5, <1>6 DEF BlocksInv
    <3>2. CASE k = kind
      <4>1. blocks'[k] = new
        BY <3>2, <1>5, <1>6
      <4>2. \A j \in 1..len : old[j] = Block(kind, j - 1)
        BY <1>1 DEF BlocksInv
      <4>3. \A j \in 1..(len + 1) : new[j] = Block(kind, j - 1)
        <5>1. TAKE j \in 1..(len + 1)
        <5>2. CASE j \in 1..len
          BY <5>2, <4>2, <1>7
        <5>3. CASE j = len + 1
          <6>1. j - 1 = len
            BY <5>3, <1>3
          <6>2. QED
            BY <6>1, <5>3, <1>7 DEF block
        <5>4. QED
          BY <5>2, <5>3, <1>3
      <4>4. QED
        BY <3>2, <4>1, <4>3, <1>3, <1>7
    <3>3. QED
      BY <3>1, <3>2
  <2>3. QED
    BY <2>1, <2>2, <1>0, CodingStays DEF BlocksInv
<1>9. ~ Complete(kind) /\ \A k \in Kinds : read[k] = 0
  <2>1. ~ Complete(kind)
    BY <1>3 DEF Complete
  <2>2. QED
    BY <2>1, <1>1 DEF ReadInv
<1>10. ReadInv'
  <2>1. \A k \in Kinds : read'[k] = 0
    BY <1>0, <1>9
  <2>2. \A k \in Kinds : Len(blocks'[k]) \in Nat
    BY <1>8 DEF BlocksInv
  <2>3. "data" \in Kinds
    BY DEF Kinds
  <2>4. QED
    BY <2>1, <2>2, <2>3, <1>0, <1>1 DEF ReadInv
<1>11. ListsInv'
  BY <1>0, <1>1, CodingStays DEF ListsInv, Kinds
<1>12. PlotInv'
  <2>1. plotted = NoPlot
    BY <1>1, <1>9 DEF PlotInv, Loaded
  <2>2. QED
    BY <2>1, <1>0, <1>1 DEF PlotInv
<1>13. QED
  BY <1>2, <1>8, <1>10, <1>11, <1>12 DEF IInv

\* The points of a band are a matter of the map and of its lists.
LEMMA SamePoints ==
  ASSUME map' = map, lists' = lists, NEW from, NEW until
  PROVE  Points(lists["data"], from, until)' = Points(lists["data"], from, until)
<1>1. \A ii : /\ XCol(lists["data"], ii)' = XCol(lists["data"], ii)
             /\ YCol(lists["data"], ii)' = YCol(lists["data"], ii)
  BY DEF XCol, YCol, Coordinate
<1>2. Projected' <=> Projected
  BY DEF Projected
<1>3. QED
  BY <1>1, <1>2 DEF Points

\* Plotting reads, and changes nothing but what is plotted.
LEMMA PlotIsRight ==
  ASSUME IInv, NEW fromY \in 0..(map.size.h - 1),
         NEW untilY \in (fromY + 1)..(map.size.h + 1), Plot(fromY, untilY)
  PROVE  IInv'
<1>0. /\ map' = map /\ coding' = coding /\ blocks' = blocks /\ read' = read /\ lists' = lists
      /\ Loaded
      /\ plotted' = [from |-> fromY, until |-> untilY,
                     points |-> Points(lists["data"], fromY, untilY)]
  BY DEF Plot
<1>1. CodingInv /\ BlocksInv /\ ReadInv /\ ListsInv /\ PlotInv
  BY DEF IInv
<1>2. CodingInv' /\ BlocksInv' /\ ListsInv'
  BY <1>0, <1>1, CodingStays DEF BlocksInv, ListsInv, Kinds
<1>3. ReadInv' /\ Loaded'
  <2>1. \A k \in Kinds : Complete(k)' = Complete(k) /\ ReadBack(k)' = ReadBack(k)
    BY <1>0, CodingStays DEF Complete, ReadBack
  <2>2. QED
    BY <2>1, <1>0, <1>1 DEF ReadInv, Loaded, Kinds
<1>4. map.size.h \in Nat \ {0}
  BY <1>1, MapsHoldNumbers DEF CodingInv, MapType, Geometry
<1>5. PlotInv'
  <2>1. /\ plotted'.from = fromY /\ plotted'.until = untilY
        /\ plotted'.points = Points(lists["data"], fromY, untilY)
    BY <1>0
  <2>2. fromY \in Nat /\ untilY \in Nat /\ fromY < untilY /\ fromY < map.size.h
    BY <1>4
  <2>3. Points(lists["data"], fromY, untilY)' = Points(lists["data"], fromY, untilY)
    BY <1>0, SamePoints
  <2>4. QED
    BY <2>1, <2>2, <2>3, <1>0, <1>3 DEF PlotInv
<1>6. QED
  BY <1>2, <1>3, <1>5 DEF IInv

-----------------------------------------------------------------------------
(* Reading one more block. *)

\* The slice of a list that is not empty, once the numbers before it are read:
\* h is what hydrate makes of slice number r, whose words mean the numbers there.
LEMMA SliceAppended ==
  ASSUME NEW q \in Seq(Nat), NEW h \in Seq(Nat), NEW meant, NEW r \in Nat,
         NEW n \in Nat, NEW len \in Nat,
         ReadSoFar(q, len, n, r), Len(h) >= SliceLen(n, len, r),
         SliceLen(n, len, r) = 0 => h = << >>
  PROVE  /\ ReadSoFar(q \o h, len, n, r + 1)
         /\ /\ ReadRightSoFar(q, meant, len, n, r)
            /\ \A j \in 1..SliceLen(n, len, r) : h[j] = meant[r * n + j]
            /\ SliceLen(n, len, r) = n /\ n < len => Len(h) = n
            => ReadRightSoFar(q \o h, meant, len, n, r + 1)
<1> DEFINE start == r * n
           k == SliceLen(n, len, r)
           longer == q \o h
<1>1. start \in Nat /\ (r + 1) * n = start + n
  OBVIOUS
<1>2. k = IF start >= len THEN 0 ELSE LesserOf(n, len - start)
  BY DEF SliceLen
<1>3. /\ Len(q) >= LesserOf(start, len)
      /\ Len(h) >= k /\ (k = 0 => Len(h) = 0)
  BY DEF ReadSoFar
<1>4. /\ longer \in Seq(Nat) /\ Len(longer) = Len(q) + Len(h)
      /\ \A i \in 1..Len(q) : longer[i] = q[i]
      /\ \A i \in (Len(q) + 1)..(Len(q) + Len(h)) : longer[i] = h[i - Len(q)]
  OBVIOUS
<1>5. Len(q) \in Nat /\ Len(h) \in Nat
  OBVIOUS
<1> HIDE DEF k, start, longer
<1>6. k \in Nat /\ LesserOf(start + n, len) = (IF start >= len THEN len ELSE start + k)
  BY <1>1, <1>2 DEF LesserOf
<1>7. Len(longer) >= LesserOf(start + n, len)
  <2>1. CASE start >= len
    <3>1. Len(q) >= len
      BY <1>1, <1>3, <2>1 DEF LesserOf
    <3>2. QED
      BY <1>4, <1>5, <1>6, <2>1, <3>1
  <2>2. CASE start < len
    <3>1. Len(q) >= start
      BY <1>1, <1>3, <2>2 DEF LesserOf
    <3>2. LesserOf(start + n, len) = start + k
      BY <1>1, <1>6, <2>2
    <3>3. QED
      BY <1>1, <1>3, <1>4, <1>5, <1>6, <3>1, <3>2
  <2>3. QED
    BY <1>1, <2>1, <2>2
<1>8. ASSUME ReadRightSoFar(q, meant, len, n, r),
             \A j \in 1..k : h[j] = meant[start + j],
             k = n /\ n < len => Len(h) = n
      PROVE  /\ \A i \in 1..LesserOf(start + n, len) : longer[i] = meant[i]
             /\ start + n < len => Len(longer) = start + n
  <2>1. /\ \A i \in 1..LesserOf(start, len) : q[i] = meant[i]
        /\ start < len => Len(q) = start
    BY <1>8 DEF ReadRightSoFar, start
  <2>2. CASE start >= len
    <3>1. LesserOf(start + n, len) = len /\ LesserOf(start, len) = len
      BY <2>2, <1>1 DEF LesserOf
    <3>2. \A i \in 1..len : longer[i] = q[i]
      BY <3>1, <1>3, <1>4, <1>5
    <3>3. QED
      BY <3>1, <3>2, <2>1, <2>2, <1>1
  <2>3. CASE start < len
    <3>1. Len(q) = start /\ LesserOf(start, len) = start /\ LesserOf(start + n, len) = start + k
      BY <2>1, <2>3, <1>1, <1>6 DEF LesserOf
    <3>2. \A i \in 1..(start + k) : longer[i] = meant[i]
      <4>1. TAKE i \in 1..(start + k)
      <4>2. CASE i \in 1..start
        BY <4>2, <3>1, <2>1, <1>4
      <4>3. CASE i \in (start + 1)..(start + k)
        <5>1. i - start \in 1..k /\ start + (i - start) = i
          BY <4>3, <1>1, <1>6
        <5>2. longer[i] = h[i - start]
          BY <4>3, <3>1, <1>1, <1>3, <1>4, <1>5, <1>6
        <5>3. h[i - start] = meant[start + (i - start)]
          BY <5>1, <1>8
        <5>4. QED
          BY <5>1, <5>2, <5>3
      <4>4. QED
        BY <4>2, <4>3, <1>1, <1>6
    <3>3. ASSUME start + n < len PROVE Len(longer) = start + n
      <4>1. k = n /\ n < len
        BY <3>3, <2>3, <1>1, <1>2 DEF LesserOf
      <4>2. QED
        BY <4>1, <3>1, <1>4, <1>8
    <3>4. QED
      BY <3>1, <3>2, <3>3
  <2>4. QED
    BY <2>2, <2>3, <1>1
<1>9. QED
  BY <1>1, <1>7, <1>8 DEF ReadSoFar, ReadRightSoFar, longer, k, start

LEMMA PaletteIsComplete ==
  ASSUME IInv, Complete("palettes"), ReadBack("palettes"), NEW d \in Dims
  PROVE  LET p == coding[d].palette
             q == lists["palettes"][d]
         IN  /\ q \in Seq(Nat)
             /\ p = << >> => q = << >>
             /\ p # << >> =>
                  /\ Len(q) >= Len(p)
                  /\ Tight("palettes", d) => \A i \in 1..Len(p) : q[i] = p[i]
<1> DEFINE p == coding[d].palette
           q == lists["palettes"][d]
           len == Len(p)
           n == Chunk("palettes", d)
           r == read["palettes"]
<1>0. "palettes" \in Kinds /\ ListOf("palettes", d) = p /\ Meant("palettes", d) = p
  BY DEF Kinds, ListOf, Meant
<1>1. CodingInv /\ ListsInv
  BY DEF IInv
<1>2. /\ q \in Seq(Nat)
      /\ p = << >> => q = << >>
      /\ p # << >> => ReadSoFar(q, len, n, r)
      /\ p # << >> /\ Tight("palettes", d) => ReadRightSoFar(q, p, len, n, r)
  BY <1>0, <1>1 DEF ListsInv
<1>3. r = BlockCount("palettes")
  BY DEF Complete, ReadBack
<1>4. p # << >> => n \in Nat /\ r \in Nat /\ len <= n * r
  BY <1>0, <1>1, <1>3, SlicesReach
<1>5. p # << >> => LesserOf(r * n, len) = len
  <2> HIDE DEF p, len, n, r
  <2>1. SUFFICES ASSUME p # << >> PROVE LesserOf(r * n, len) = len
    OBVIOUS
  <2>2. n * r = r * n
    BY <2>1, <1>4
  <2>3. len \in Nat
    BY <1>0, <1>1, ListsAreCoded DEF len
  <2>4. r * n \in Nat
    BY <2>1, <1>4
  <2>5. QED
    BY <2>1, <2>2, <2>3, <2>4, <1>4 DEF LesserOf
<1> HIDE DEF p, q, len, n, r
<1>6. p # << >> => Len(q) >= len
  BY <1>2, <1>5 DEF ReadSoFar
<1>7. p # << >> /\ Tight("palettes", d) => \A i \in 1..len : q[i] = p[i]
  BY <1>2, <1>5 DEF ReadRightSoFar
<1>8. QED
  BY <1>2, <1>6, <1>7 DEF p, q, len

\* A list with what a step of unblockify appends to it.
Longer(kind, d) ==
  lists[kind][d] \o
    Hydrate(blocks[kind][read[kind] + 1][d], PaletteRead(kind, d), WordOf(kind, d))

\* What one list gains by a step of unblockify.
LEMMA OneListRead ==
  ASSUME IInv, NEW kind \in Kinds, NEW d \in Dims,
         \A k \in Kinds : Complete(k),
         read[kind] < Len(blocks[kind]),
         kind = "data" => ReadBack("palettes")
  PROVE  /\ Longer(kind, d) \in Seq(Nat)
         /\ ListOf(kind, d) = << >> => Longer(kind, d) = << >>
         /\ ListOf(kind, d) # << >> =>
              ReadSoFar(Longer(kind, d), Len(ListOf(kind, d)), Chunk(kind, d), read[kind] + 1)
         /\ ListOf(kind, d) # << >> /\ Tight(kind, d) /\ Tight("palettes", d) =>
              ReadRightSoFar(Longer(kind, d), Meant(kind, d),
                             Len(ListOf(kind, d)), Chunk(kind, d), read[kind] + 1)
<1> DEFINE q == lists[kind][d]
           r == read[kind]
           src == ListOf(kind, d)
           len == Len(src)
           n == Chunk(kind, d)
           word == WordOf(kind, d)
           slice == Block(kind, r)[d]
           palette == PaletteRead(kind, d)
           h == Hydrate(slice, palette, word)
           k == SliceLen(n, len, r)
<1>0. CodingInv /\ BlocksInv /\ ReadInv /\ ListsInv
  BY DEF IInv
<1>1. r \in Nat /\ Len(blocks[kind]) \in Nat /\ r + 1 \in 1..Len(blocks[kind]) /\ (r + 1) - 1 = r
  BY <1>0 DEF ReadInv, BlocksInv
<1>2. blocks[kind][r + 1] = Block(kind, r)
  BY <1>0, <1>1 DEF BlocksInv
<1>3. BlockCount(kind) # 0
  BY <1>1 DEF Complete
<1>4. /\ slice \in Seq(Nat) /\ Len(slice) = k
      /\ \A j \in 1..k : r * n + j \in 1..len /\ slice[j] = src[r * n + j]
  <2>1. /\ slice \in Seq(Nat) /\ Len(slice) = k
        /\ \A j \in 1..Len(slice) : r * n + j \in 1..len /\ slice[j] = src[r * n + j]
    BY <1>0, <1>1, <1>3, SliceHolds, Zenon
  <2> HIDE DEF slice, src, len, n, r, k
  <2>2. QED
    BY <2>1
<1>5. src \in Seq(Nat) /\ len \in Nat /\ n \in Nat /\ q \in Seq(Nat)
  BY <1>0, <1>3, ListsAreCoded, SlicesReach DEF ListsInv
<1>6. src # << >> => word \in Nat \ {0}
  BY <1>0, ListsAreCoded
<1>7. kind = "data" =>
        /\ palette = lists["palettes"][d]
        /\ palette \in Seq(Nat)
        /\ coding[d].palette = << >> => palette = << >>
        /\ coding[d].palette # << >> =>
             /\ Len(palette) >= Len(coding[d].palette)
             /\ Tight("palettes", d) =>
                  \A i \in 1..Len(coding[d].palette) : palette[i] = coding[d].palette[i]
  <2>1. SUFFICES ASSUME kind = "data"
                 PROVE  /\ palette = lists["palettes"][d]
                        /\ palette \in Seq(Nat)
                        /\ coding[d].palette = << >> => palette = << >>
                        /\ coding[d].palette # << >> =>
                             /\ Len(palette) >= Len(coding[d].palette)
                             /\ Tight("palettes", d) =>
                                  \A i \in 1..Len(coding[d].palette) :
                                    palette[i] = coding[d].palette[i]
    OBVIOUS
  <2>2. palette = lists["palettes"][d]
    BY <2>1 DEF PaletteRead
  <2>3. Complete("palettes") /\ ReadBack("palettes")
    BY <2>1 DEF Kinds
  <2>4. QED
    BY <2>2, <2>3, PaletteIsComplete
<1>8. kind # "data" => palette = << >>
  BY DEF PaletteRead
<1>9. CodingOf(map.lists[d], coding[d])
  BY <1>0 DEF CodingInv
<1>10. kind = "data" => src = coding[d].data /\ Meant(kind, d) = map.lists[d]
  BY DEF ListOf, Meant
<1>11. kind # "data" => src = Meant(kind, d)
  BY DEF ListOf, Meant, Kinds
<1>12. Longer(kind, d) = q \o h
  BY <1>2 DEF Longer
<1>13. r = read[kind] /\ n = Chunk(kind, d) /\ src = ListOf(kind, d)
  OBVIOUS
<1> HIDE DEF src, word, slice, palette, n, r, q
<1>14. /\ palette \in Seq(Nat)
       /\ palette # << >> => \A j \in 1..len : src[j] + 1 \in 1..Len(palette)
  <2>1. CASE kind # "data"
    BY <2>1, <1>8
  <2>2. CASE kind = "data"
    <3>1. palette \in Seq(Nat)
      BY <2>2, <1>7
    <3>2. ASSUME palette # << >>, NEW j \in 1..len PROVE src[j] + 1 \in 1..Len(palette)
      <4> DEFINE p == coding[d].palette
      <4>1. p # << >> /\ Len(palette) >= Len(p)
        BY <2>2, <3>2, <1>7
      <4>2. j \in 1..Len(map.lists[d])
        BY <2>2, <1>9, <1>10 DEF CodingOf
      <4>3. src[j] + 1 \in 1..Len(p)
        BY <2>2, <4>1, <4>2, <1>9, <1>10 DEF CodingOf
      <4>4. Len(p) \in Nat /\ Len(palette) \in Nat
        BY <3>1, <1>9 DEF CodingOf
      <4> HIDE DEF p
      <4>5. QED
        BY <4>1, <4>3, <4>4
    <3>3. QED
      BY <3>1, <3>2
  <2>3. QED
    BY <2>1, <2>2
<1>15. k \in Nat
  <2>1. Len(slice) \in Nat
    BY <1>4
  <2>2. QED
    BY <2>1, <1>4
<1>16. CASE src = << >>
  <2>1. len = 0
    BY <1>16
  <2>2. k = 0
    <3>1. \A j \in 1..k : j \notin 1..k
      BY <2>1, <1>4
    <3>2. QED
      BY <3>1, <1>15
  <2>3. slice = << >>
    BY <2>2, <1>4
  <2>4. h = << >>
    BY <2>3 DEF Hydrate
  <2>5. q = << >>
    BY <1>0, <1>16 DEF ListsInv, q, src
  <2>6. Longer(kind, d) = << >>
    BY <2>4, <2>5, <1>12
  <2>7. << >> \in Seq(Nat)
    OBVIOUS
  <2>8. QED
    BY <2>6, <2>7, <1>16, <1>13
<1>17. CASE src # << >>
  <2>1. palette # << >> => \A j \in 1..Len(slice) : slice[j] + 1 \in 1..Len(palette)
    BY <1>4, <1>14
  <2>2. /\ h \in Seq(Nat)
        /\ Len(h) = IF slice = << >> THEN 0 ELSE Len(slice) + Spare(Len(slice), word)
        /\ \A j \in 1..Len(slice) :
             h[j] = IF palette = << >> THEN slice[j] ELSE palette[slice[j] + 1]
    <3>1. word \in Nat \ {0} /\ palette \in Seq(Nat) /\ slice \in Seq(Nat)
      BY <1>4, <1>6, <1>14, <1>17
    <3> HIDE DEF k, len
    <3>2. QED
      BY <3>1, <2>1, HydrateHolds
  <2>3. slice # << >> => Spare(Len(slice), word) \in Nat
    <3>1. Len(slice) \in Nat
      BY <1>4
    <3>2. QED
      BY <3>1, <1>6, <1>17, SpareIsNatural
  <2> HIDE DEF h
  <2>4. Len(h) >= k /\ (k = 0 => h = << >>)
    <3>1. CASE slice = << >>
      BY <3>1, <2>2, <1>4
    <3>2. CASE slice # << >>
      <4>1. k # 0
        BY <3>2, <1>4
      <4>2. QED
        BY <3>2, <4>1, <2>2, <2>3, <1>4, <1>15
    <3>3. QED
      BY <3>1, <3>2
  <2>5. ReadSoFar(q, len, n, r)
    BY <1>0, <1>17 DEF ListsInv, q, src, n, r
  <2>6. q \o h \in Seq(Nat)
    BY <2>2, <1>5
  <2>7. ReadSoFar(q \o h, len, n, r + 1)
    BY <2>2, <2>4, <2>5, <1>1, <1>5, SliceAppended
  <2>8. ASSUME Tight(kind, d), Tight("palettes", d)
        PROVE  ReadRightSoFar(q \o h, Meant(kind, d), len, n, r + 1)
    <3>1. ReadRightSoFar(q, Meant(kind, d), len, n, r)
      BY <2>8, <1>0, <1>17 DEF ListsInv, q, src, n, r
    <3>2. \A j \in 1..k : h[j] = Meant(kind, d)[r * n + j]
      <4>1. TAKE j \in 1..k
      <4>2. r * n + j \in 1..len /\ slice[j] = src[r * n + j]
        BY <1>4
      <4> DEFINE i == r * n + j
      <4>3. h[j] = IF palette = << >> THEN src[i] ELSE palette[src[i] + 1]
        BY <4>2, <2>2, <1>4
      <4>4. i \in 1..len
        BY <4>2
      <4> HIDE DEF i
      <4>5. CASE kind # "data"
        BY <4>5, <4>3, <1>8, <1>11 DEF i
      <4>6. CASE kind = "data"
        <5> DEFINE p == coding[d].palette
        <5>1. i \in 1..Len(map.lists[d])
          BY <4>4, <4>6, <1>9, <1>10 DEF CodingOf
        <5>2. CASE p = << >>
          <6>1. palette = << >> /\ src = map.lists[d]
            BY <5>2, <4>6, <1>7, <1>9, <1>10 DEF CodingOf
          <6>2. QED
            BY <6>1, <4>3, <4>6, <1>10 DEF i
        <5>3. CASE p # << >>
          <6>1. src[i] + 1 \in 1..Len(p) /\ p[src[i] + 1] = map.lists[d][i]
            BY <5>1, <5>3, <4>6, <1>9, <1>10 DEF CodingOf
          <6>2. palette[src[i] + 1] = p[src[i] + 1]
            BY <6>1, <5>3, <4>6, <2>8, <1>7
          <6>3. palette # << >>
            <7>1. Len(palette) >= Len(p) /\ Len(p) \in Nat
              BY <5>3, <4>6, <1>7, <1>9 DEF CodingOf
            <7>2. Len(p) # 0
              BY <6>1
            <7> HIDE DEF p
            <7>3. QED
              BY <7>1, <7>2
          <6>4. QED
            BY <6>1, <6>2, <6>3, <4>3, <4>6, <1>10 DEF i
        <5>4. QED
          BY <5>2, <5>3
      <4>7. QED
        BY <4>5, <4>6
    <3>3. k = n /\ n < len => Len(h) = n
      <4>1. SUFFICES ASSUME k = n, n < len PROVE Len(h) = n
        OBVIOUS
      <4>2. CASE n = 0
        BY <4>1, <4>2, <2>4
      <4>3. CASE n # 0
        <5>1. Spare(n, word) = 0
          BY <2>8, <4>1, <1>5, <1>17 DEF Tight, src, n, word
        <5>2. slice # << >> /\ Len(slice) = n
          BY <4>1, <4>3, <1>4
        <5>3. QED
          BY <5>1, <5>2, <2>2, <1>5
      <4>4. QED
        BY <4>2, <4>3
    <3>4. QED
      BY <2>2, <2>4, <2>5, <3>1, <3>2, <3>3, <1>1, <1>5, SliceAppended
  <2>9. QED
    BY <2>6, <2>7, <2>8, <1>17, <1>12, <1>13
<1>18. QED
  BY <1>16, <1>17

LEMMA UnblockifyIsRight ==
  ASSUME IInv, NEW kind \in Kinds, Unblockify(kind)
  PROVE  IInv'
<1>0. /\ map' = map /\ coding' = coding /\ blocks' = blocks /\ plotted' = plotted
      /\ \A k \in Kinds : Complete(k)
      /\ read[kind] < Len(blocks[kind])
      /\ kind = "data" => ReadBack("palettes")
      /\ read' = [read EXCEPT ![kind] = @ + 1]
      /\ lists' = [lists EXCEPT ![kind] = [d \in Dims |-> Longer(kind, d)]]
  BY DEF Unblockify, Longer
<1>1. CodingInv /\ BlocksInv /\ ReadInv /\ ListsInv /\ PlotInv
  BY DEF IInv
<1>2. CodingInv' /\ BlocksInv'
  BY <1>0, <1>1, CodingStays DEF BlocksInv
<1>3. /\ read \in [Kinds -> Nat]
      /\ \A k \in Kinds : read[k] \in Nat /\ Len(blocks[k]) \in Nat /\ read[k] <= Len(blocks[k])
      /\ read'[kind] = read[kind] + 1
      /\ \A k \in Kinds : k # kind => read'[k] = read[k]
  BY <1>0, <1>1 DEF ReadInv, BlocksInv
<1>4. \A k \in Kinds : Complete(k)'
  BY <1>0, CodingStays DEF Complete
<1>5. ReadInv'
  <2>1. read' \in [Kinds -> Nat]
    BY <1>0, <1>3
  <2>2. \A k \in Kinds : read'[k] <= Len(blocks[k])
    BY <1>0, <1>3
  <2>3. "data" \in Kinds /\ "palettes" \in Kinds
    BY DEF Kinds
  <2>4. read'["data"] # 0 => read'["palettes"] = Len(blocks["palettes"])
    <3>1. CASE kind = "data"
      BY <3>1, <1>0, <1>3, <2>3 DEF ReadBack
    <3>2. CASE kind # "data"
      <4>1. kind = "palettes" /\ read'["data"] = read["data"]
        BY <3>2, <1>3, <2>3 DEF Kinds
      <4>2. read["data"] = 0
        BY <4>1, <1>0, <1>1, <1>3, <2>3 DEF ReadInv, ReadBack
      <4>3. QED
        BY <4>1, <4>2
    <3>3. QED
      BY <3>1, <3>2
  <2>5. QED
    BY <2>1, <2>2, <2>4, <1>0, <1>4 DEF ReadInv, ReadBack
<1>6. /\ lists \in [Kinds -> [Dims -> Seq(Nat)]]
      /\ \A d \in Dims : lists'[kind][d] = Longer(kind, d) /\ Longer(kind, d) \in Seq(Nat)
      /\ \A k \in Kinds : k # kind => lists'[k] = lists[k]
  <2>1. \A d \in Dims : Longer(kind, d) \in Seq(Nat)
    BY <1>0, OneListRead
  <2>2. QED
    BY <2>1, <1>0, <1>1 DEF ListsInv
<1>7. ListsInv'
  <2>1. lists' \in [Kinds -> [Dims -> Seq(Nat)]]
    BY <1>0, <1>6
  <2>2. ASSUME NEW k \in Kinds, NEW d \in Dims
        PROVE  /\ ListOf(k, d) = << >> => lists'[k][d] = << >>
               /\ ListOf(k, d) # << >> =>
                    ReadSoFar(lists'[k][d], Len(ListOf(k, d)), Chunk(k, d), read'[k])
               /\ ListOf(k, d) # << >> /\ Tight(k, d) /\ Tight("palettes", d) =>
                    ReadRightSoFar(lists'[k][d], Meant(k, d),
                                   Len(ListOf(k, d)), Chunk(k, d), read'[k])
    <3>1. CASE k # kind
      BY <3>1, <1>1, <1>3, <1>6 DEF ListsInv
    <3>2. CASE k = kind
      BY <3>2, <1>0, <1>3, <1>6, OneListRead
    <3>3. QED
      BY <3>1, <3>2
  <2>3. QED
    BY <2>1, <2>2, <1>0, CodingStays DEF ListsInv, Kinds
<1>8. PlotInv'
  <2>1. plotted = NoPlot
    <3>1. ~ Loaded
      BY <1>0, <1>3 DEF Loaded, ReadBack
    <3>2. QED
      BY <3>1, <1>1 DEF PlotInv
  <2>2. QED
    BY <2>1, <1>0, <1>1 DEF PlotInv
<1>9. QED
  BY <1>2, <1>5, <1>7, <1>8 DEF IInv

LEMMA EveryStepIsRight == IInv /\ [Next]_vars => IInv'
<1> SUFFICES ASSUME IInv, [Next]_vars PROVE IInv'
  OBVIOUS
<1>1. ASSUME NEW kind \in Kinds, Blockify(kind) PROVE IInv'
  BY <1>1, BlockifyIsRight
<1>2. ASSUME NEW kind \in Kinds, Unblockify(kind) PROVE IInv'
  BY <1>2, UnblockifyIsRight
<1>3. ASSUME NEW fromY \in 0..(map.size.h - 1),
             NEW untilY \in (fromY + 1)..(map.size.h + 1), Plot(fromY, untilY)
      PROVE  IInv'
  BY <1>3, PlotIsRight
<1>4. CASE UNCHANGED vars
  <2>1. /\ map' = map /\ coding' = coding /\ blocks' = blocks /\ read' = read
        /\ lists' = lists /\ plotted' = plotted
    BY <1>4 DEF vars
  <2>2. CodingInv' /\ BlocksInv' /\ ListsInv'
    BY <2>1, CodingStays DEF IInv, BlocksInv, ListsInv, Kinds
  <2>3. \A k \in Kinds : Complete(k)' = Complete(k) /\ ReadBack(k)' = ReadBack(k)
    BY <2>1, CodingStays DEF Complete, ReadBack
  <2>4. ReadInv' /\ (Loaded' = Loaded)
    BY <2>1, <2>3 DEF IInv, ReadInv, Loaded, Kinds
  <2>5. PlotInv'
    <3>1. \A from, until : Points(lists["data"], from, until)' = Points(lists["data"], from, until)
      BY <2>1, SamePoints
    <3>2. QED
      BY <2>1, <2>4, <3>1 DEF IInv, PlotInv
  <2>6. QED
    BY <2>2, <2>4, <2>5 DEF IInv
<1>5. QED
  BY <1>1, <1>2, <1>3, <1>4 DEF Next

LEMMA CodingIsRight == Spec => []IInv
<1>1. QED
  BY InitIsRight, EveryStepIsRight, PTL DEF Spec

-----------------------------------------------------------------------------
(* The theorems. *)

\* The state is of the types that TypeOK states, and no more blocks are made
\* than were announced, nor read than were made.
THEOREM TypeCorrect == Spec => []TypeOK
<1>1. IInv => TypeOK
  <2> SUFFICES ASSUME IInv PROVE TypeOK
    OBVIOUS
  <2>1. map \in MapType
    BY MapsHoldNumbers DEF IInv, CodingInv
  <2>2. QED
    BY <2>1 DEF IInv, CodingInv, Codings, BlocksInv, ReadInv, ListsInv, PlotInv, TypeOK
<1>2. QED
  BY <1>1, CodingIsRight, PTL

\* For every list, payload and word length, the slices leave no number out and
\* repeat none: number i is in slice i \div n, at place i % n.
THEOREM NumbersStay == Spec => []NumbersKeepTheirPlaces
<1>1. IInv => NumbersKeepTheirPlaces
  <2> SUFFICES ASSUME IInv, NEW kind \in Kinds, NEW d \in Dims,
                      NEW i \in 0..(Len(ListOf(kind, d)) - 1)
               PROVE  LET n == Chunk(kind, d)
                      IN  /\ n > 0 /\ i \div n < BlockCount(kind)
                          /\ i \div n < Len(blocks[kind]) =>
                               LET slice == blocks[kind][i \div n + 1][d]
                               IN  /\ (i % n) + 1 \in DOMAIN slice
                                   /\ slice[(i % n) + 1] = ListOf(kind, d)[i + 1]
    BY DEF NumbersKeepTheirPlaces
  <2> DEFINE src == ListOf(kind, d)
             len == Len(src)
             n == Chunk(kind, d)
             q == i \div n
             r == i % n
             start == q * n
  <2>0. CodingInv /\ BlocksInv
    BY DEF IInv
  <2>1. src \in Seq(Nat) /\ len \in Nat
    BY <2>0, ListsAreCoded
  <2>2. src # << >> /\ i \in Nat /\ i < len
    BY <2>1
  <2>3. n \in Nat \ {0} /\ BlockCount(kind) \in Nat \ {0} /\ len <= n * BlockCount(kind)
    BY <2>0, <2>2, SlicesReach
  <2>4. q \in Nat /\ r \in 0..(n - 1) /\ i = start + r
    BY <2>2, <2>3, PlaceInSlice
  <2> HIDE DEF src, len, n, q, r
  <2>5. start \in Nat
    BY <2>3, <2>4
  <2>6. q < BlockCount(kind)
    <3> DEFINE b == BlockCount(kind)
    <3> HIDE DEF b
    <3>1. b \in Nat /\ len <= n * b
      BY <2>3 DEF b
    <3>2. SUFFICES ASSUME b <= q PROVE FALSE
      BY <3>1, <2>4 DEF b
    <3>3. b * n <= q * n
      BY <3>1, <3>2, <2>3, <2>4
    <3>4. n * b = b * n /\ b * n \in Nat
      BY <3>1, <2>3
    <3>5. QED
      BY <3>1, <3>3, <3>4, <2>1, <2>2, <2>4, <2>5
  <2>7. ASSUME q < Len(blocks[kind])
        PROVE  /\ r + 1 \in DOMAIN (blocks[kind][q + 1][d])
               /\ blocks[kind][q + 1][d][r + 1] = src[i + 1]
    <3> DEFINE slice == blocks[kind][q + 1][d]
    <3>1. q + 1 \in 1..Len(blocks[kind]) /\ (q + 1) - 1 = q
      BY <2>0, <2>4, <2>7 DEF BlocksInv
    <3>2. slice = Block(kind, q)[d]
      BY <3>1, <2>0 DEF BlocksInv
    <3> HIDE DEF slice
    <3>3. /\ slice \in Seq(Nat)
          /\ Len(slice) = SliceLen(n, len, q)
          /\ \A j \in 1..Len(slice) : slice[j] = src[start + j]
      BY <3>2, <2>0, <2>3, <2>4, SliceHolds DEF n, src, len
    <3>4. r + 1 \in 1..SliceLen(n, len, q)
      <4>1. SliceLen(n, len, q) = IF start >= len THEN 0 ELSE LesserOf(n, len - start)
        BY DEF SliceLen
      <4> HIDE DEF start
      <4>2. QED
        BY <4>1, <2>1, <2>2, <2>3, <2>4, <2>5 DEF LesserOf
    <3>5. start + (r + 1) = i + 1
      BY <2>3, <2>4, <2>5
    <3>6. r + 1 \in DOMAIN slice /\ slice[r + 1] = src[i + 1]
      BY <3>3, <3>4, <3>5
    <3>7. QED
      BY <3>6 DEF slice
  <2>8. QED
    BY <2>3, <2>6, <2>7 DEF n, q, r, src
<1>2. QED
  BY <1>1, CodingIsRight, PTL

LEMMA LoadedListsBegin ==
  ASSUME IInv, Loaded, NEW d \in Dims, Tight("palettes", d), Tight("data", d)
  PROVE  Begins(map.lists[d], lists["data"][d])
<1> DEFINE src == map.lists[d]
           q == lists["data"][d]
           len == Len(src)
           n == Chunk("data", d)
           r == read["data"]
<1>0. "data" \in Kinds /\ CodingInv /\ ListsInv /\ map \in Maps
  BY DEF IInv, CodingInv, Kinds
<1>1. src \in Seq(0..MaxNumber) /\ len \in Nat \ {0}
  BY <1>0, MapsHoldNumbers, NumbersAssumption DEF NumberList
<1>2. ListOf("data", d) = coding[d].data /\ Len(coding[d].data) = len
      /\ coding[d].data \in Seq(Nat) /\ Meant("data", d) = src
  BY <1>0 DEF CodingInv, CodingOf, ListOf, Meant
<1>3. ListOf("data", d) # << >>
  BY <1>1, <1>2
<1>4. r = BlockCount("data")
  BY <1>0 DEF Loaded, Complete, ReadBack
<1>5. n \in Nat /\ r \in Nat /\ len <= n * r
  BY <1>0, <1>2, <1>3, <1>4, SlicesReach
<1>6. /\ q \in Seq(Nat)
      /\ ReadSoFar(q, len, n, r)
      /\ ReadRightSoFar(q, src, len, n, r)
  BY <1>0, <1>2, <1>3 DEF ListsInv
<1> HIDE DEF src, q, len, n, r
<1>7. LesserOf(r * n, len) = len
  <2>1. n * r = r * n /\ r * n \in Nat
    BY <1>5
  <2>2. QED
    BY <2>1, <1>1, <1>5 DEF LesserOf
<1>8. Len(q) >= len /\ \A i \in 1..len : q[i] = src[i]
  BY <1>6, <1>7 DEF ReadSoFar, ReadRightSoFar
<1>9. QED
  BY <1>1, <1>8 DEF Begins, src, q, len

\* For every map and payload, what is read back begins with what was imported,
\* save for lists in several slices whose words leave room for one more.
THEOREM ListsAreRestored == Spec => []ListsRestored
<1>1. IInv => ListsRestored
  BY LoadedListsBegin DEF ListsRestored
<1>2. QED
  BY <1>1, CodingIsRight, PTL

\* Coordinates of two sets of lists agree where one begins with the other.
LEMMA CoordinatesAgree ==
  ASSUME NEW m \in Maps, NEW ls \in [Dims -> Seq(Nat)],
         \A d \in Dims : Begins(m.lists[d], ls[d]), NEW ii \in Nat
  PROVE  /\ ii < Len(m.lists["rowsN"]) => XCol(ls, ii) = XCol(m.lists, ii)
         /\ ii < Len(m.lists["colsN"]) => YCol(ls, ii) = YCol(m.lists, ii)
<1>1. \A d \in Dims : m.lists[d] \in Seq(0..MaxNumber) /\ ls[d] \in Seq(Nat)
  BY MapsHoldNumbers DEF NumberList
<1>2. \A d \in Dims : ii < Len(m.lists[d]) =>
        ii + 1 \in DOMAIN m.lists[d] /\ ii + 1 \in DOMAIN ls[d]
        /\ ls[d][ii + 1] = m.lists[d][ii + 1]
  <2>1. TAKE d \in Dims
  <2>2. HAVE ii < Len(m.lists[d])
  <2>3. Len(m.lists[d]) <= Len(ls[d]) /\ \A i \in DOMAIN m.lists[d] : ls[d][i] = m.lists[d][i]
    BY DEF Begins
  <2>4. ii + 1 \in 1..Len(m.lists[d]) /\ ii + 1 \in 1..Len(ls[d])
    BY <2>2, <2>3, <1>1
  <2>5. QED
    BY <2>3, <2>4, <1>1
<1>3. /\ Len(m.lists["rowsN"]) = Len(m.lists["rowsD"])
      /\ Len(m.lists["colsN"]) = Len(m.lists["colsD"])
  BY MapsAssumption
<1>4. "rowsN" \in Dims /\ "rowsD" \in Dims /\ "colsN" \in Dims /\ "colsD" \in Dims
  BY DEF Dims
<1>5. QED
  BY <1>2, <1>3, <1>4 DEF XCol, YCol, Coordinate

\* For every map of either layout, a band plots each pixel of its rows once, in
\* order, at the coordinates that were imported for it.
THEOREM BandsPlotTheirRows == Spec => []BandPlotsItsRows
<1>1. IInv => BandPlotsItsRows
  <2> DEFINE w == map.size.w
             h == map.size.h
             from == plotted.from
             until == plotted.until
             yMax == LesserOf(until, h)
             rows == yMax - from
             place(x, y) == IF Projected THEN <<x, y>> ELSE <<y * w + x, y * w + x>>
             ls == lists["data"]
  <2> SUFFICES ASSUME IInv, plotted # NoPlot, WellFormed,
                      \A d \in Dims, k \in Kinds : Tight(k, d)
               PROVE  /\ Len(plotted.points) = rows * w
                      /\ \A y \in 0..(rows - 1), x \in 0..(w - 1) :
                           plotted.points[y * w + x + 1] =
                             <<XCol(map.lists, place(x, from + y)[1]),
                               YCol(map.lists, place(x, from + y)[2])>>
    BY DEF BandPlotsItsRows
  <2>1. /\ map \in Maps /\ w \in Nat \ {0} /\ h \in Nat \ {0}
        /\ from \in Nat /\ until \in Nat /\ from < until /\ from < h
        /\ Loaded
        /\ plotted.points = Points(ls, from, until)
        /\ ls \in [Dims -> Seq(Nat)]
    BY MapsHoldNumbers DEF IInv, CodingInv, PlotInv, ListsInv, Kinds, MapType, Geometry
  <2>2. \A d \in Dims : Begins(map.lists[d], ls[d])
    BY <2>1, LoadedListsBegin DEF Kinds
  <2>3. \A ii \in Nat :
          /\ ii < Len(map.lists["rowsN"]) => XCol(ls, ii) = XCol(map.lists, ii)
          /\ ii < Len(map.lists["colsN"]) => YCol(ls, ii) = YCol(map.lists, ii)
    BY <2>1, <2>2, CoordinatesAgree
  <2> DEFINE projected ==
               [k \in 1..(w * rows) |-> <<XCol(ls, (k - 1) % w), YCol(ls, from + (k - 1) \div w)>>]
             start == w * from
             listed ==
               [k \in 1..(w * yMax - start) |-> <<XCol(ls, start + k - 1), YCol(ls, start + k - 1)>>]
  <2>4. plotted.points = IF Projected THEN projected ELSE listed
    BY <2>1 DEF Points
  <2>5. /\ Projected => w = Len(map.lists["rowsN"]) /\ h = Len(map.lists["colsN"])
        /\ ~ Projected => w * h = Len(map.lists["rowsN"]) /\ w * h = Len(map.lists["colsN"])
    BY DEF WellFormed, Projected
  <2> HIDE DEF w, h, from, until, ls
  <2>6. yMax \in Nat /\ yMax <= h /\ rows \in Nat \ {0} /\ rows + from = yMax
    BY <2>1 DEF LesserOf
  <2> HIDE DEF yMax
  <2>7. ASSUME NEW y \in 0..(rows - 1), NEW x \in 0..(w - 1)
        PROVE  /\ y * w + x + 1 \in 1..(rows * w) /\ y * w + x \in Nat
               /\ (from + y) * w + x \in Nat /\ (from + y) * w + x < h * w
               /\ (from + y) * w + x = w * from + (y * w + x)
    <3> HIDE DEF rows
    <3>1. y \in Nat /\ x \in Nat /\ x < w /\ y + 1 <= rows /\ from + y + 1 <= h
      BY <2>1, <2>6
    <3>2. (y + 1) * w <= rows * w /\ (y + 1) * w = y * w + w /\ y * w \in Nat /\ rows * w \in Nat
      BY <3>1, <2>1, <2>6
    <3>3. /\ (from + y + 1) * w <= h * w /\ (from + y + 1) * w = (from + y) * w + w
          /\ (from + y) * w \in Nat /\ h * w \in Nat
      BY <3>1, <2>1
    <3>4. (from + y) * w = w * from + y * w /\ w * from \in Nat
      BY <3>1, <2>1
    <3> DEFINE before == y * w
               all == rows * w
               above == (from + y) * w
               top == h * w
               skipped == w * from
    <3>5. /\ before \in Nat /\ all \in Nat /\ before + w <= all
          /\ above \in Nat /\ top \in Nat /\ above + w <= top
          /\ skipped \in Nat /\ above = skipped + before
      BY <3>2, <3>3, <3>4
    <3> HIDE DEF before, all, above, top, skipped
    <3>6. /\ before + x + 1 \in 1..all /\ before + x \in Nat
          /\ above + x \in Nat /\ above + x < top
          /\ above + x = skipped + (before + x)
      BY <3>1, <3>5, <2>1
    <3>7. QED
      BY <3>6 DEF before, all, above, top, skipped
  <2>8. w * rows = rows * w /\ rows * w \in Nat /\ w * yMax - start = rows * w /\ start \in Nat
    <3>1. w * yMax = w * rows + w * from
      BY <2>1, <2>6
    <3> HIDE DEF rows
    <3>2. QED
      BY <3>1, <2>1, <2>6
  <2>9. CASE Projected
    <3>1. plotted.points = projected /\ Len(projected) = rows * w
      BY <2>4, <2>8, <2>9
    <3>2. ASSUME NEW y \in 0..(rows - 1), NEW x \in 0..(w - 1)
          PROVE  plotted.points[y * w + x + 1] = <<XCol(map.lists, x), YCol(map.lists, from + y)>>
      <4> DEFINE i == y * w + x
      <4>1. i \in Nat /\ i + 1 \in 1..(w * rows) /\ (i + 1) - 1 = i
        BY <2>7, <2>8
      <4>2. i \div w = y /\ i % w = x
        <5>1. y \in Nat
          <6> HIDE DEF rows
          <6>1. QED
            BY <2>6
        <5>2. QED
          BY <5>1, <2>1, PlaceIsUnique
      <4> HIDE DEF i
      <4>3. plotted.points[i + 1] = <<XCol(ls, i % w), YCol(ls, from + i \div w)>>
        BY <3>1, <4>1
      <4>4. x \in Nat /\ x < w /\ from + y \in Nat /\ from + y < h
        BY <2>1, <2>6
      <4>5. XCol(ls, x) = XCol(map.lists, x) /\ YCol(ls, from + y) = YCol(map.lists, from + y)
        BY <4>4, <2>3, <2>5, <2>9
      <4>6. plotted.points[i + 1] = <<XCol(map.lists, x), YCol(map.lists, from + y)>>
        BY <4>2, <4>3, <4>5
      <4>7. QED
        BY <4>6 DEF i
    <3>3. \A x, y : place(x, y)[1] = x /\ place(x, y)[2] = y
      BY <2>9
    <3>4. ASSUME NEW y \in 0..(rows - 1), NEW x \in 0..(w - 1)
          PROVE  plotted.points[y * w + x + 1] =
                   <<XCol(map.lists, place(x, from + y)[1]),
                     YCol(map.lists, place(x, from + y)[2])>>
      <4> HIDE DEF place, rows
      <4>1. QED
        BY <3>2, <3>3
    <3>5. Len(plotted.points) = rows * w
      BY <3>1
    <3> HIDE DEF place, rows
    <3>6. QED
      BY <3>4, <3>5
  <2>10. CASE ~ Projected
    <3>1. plotted.points = listed /\ Len(listed) = rows * w
      BY <2>4, <2>8, <2>10
    <3>2. ASSUME NEW y \in 0..(rows - 1), NEW x \in 0..(w - 1)
          PROVE  plotted.points[y * w + x + 1] =
                   <<XCol(map.lists, (from + y) * w + x), YCol(map.lists, (from + y) * w + x)>>
      <4> DEFINE i == y * w + x
                 j == (from + y) * w + x
      <4>1. i \in Nat /\ i + 1 \in 1..(w * yMax - start)
        BY <2>7, <2>8
      <4>2. j \in Nat /\ j < h * w /\ start + (i + 1) - 1 = j
        BY <2>7, <2>8
      <4>3. h * w = w * h
        BY <2>1
      <4> HIDE DEF i, j
      <4>4. plotted.points[i + 1] = <<XCol(ls, j), YCol(ls, j)>>
        BY <3>1, <4>1, <4>2
      <4>5. XCol(ls, j) = XCol(map.lists, j) /\ YCol(ls, j) = YCol(map.lists, j)
        BY <4>2, <4>3, <2>3, <2>5, <2>10
      <4>6. plotted.points[i + 1] = <<XCol(map.lists, j), YCol(map.lists, j)>>
        BY <4>4, <4>5
      <4>7. QED
        BY <4>6 DEF i, j
    <3>3. \A x, y : place(x, y)[1] = y * w + x /\ place(x, y)[2] = y * w + x
      BY <2>10
    <3>4. ASSUME NEW y \in 0..(rows - 1), NEW x \in 0..(w - 1)
          PROVE  plotted.points[y * w + x + 1] =
                   <<XCol(map.lists, place(x, from + y)[1]),
                     YCol(map.lists, place(x, from + y)[2])>>
      <4> HIDE DEF place, rows
      <4>1. QED
        BY <3>2, <3>3
    <3>5. Len(plotted.points) = rows * w
      BY <3>1
    <3> HIDE DEF place, rows
    <3>6. QED
      BY <3>4, <3>5
  <2>11. QED
    BY <2>9, <2>10
<1>2. QED
  BY <1>1, CodingIsRight, PTL
=============================================================================
