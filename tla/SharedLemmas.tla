---------------------------- MODULE SharedLemmas ----------------------------
(* Lemmas the proofs of several components rest on: what Only returns, for  *)
(* every sequence; what the sums of the community modules obey, for every   *)
(* function on a finite set; and the induction over numbers and over finite *)
(* sets it takes, for a set in the place of a predicate.                    *)
EXTENDS StableOrder, Integers, SequencesExt, SequenceTheorems, FiniteSetTheorems, TLAPS

---------------------------------------------------------------------------
(* Numbers.                                                                *)

\* A set of numbers that is not empty has a least one.
LEMMA LeastNat == ASSUME NEW T, T \subseteq Nat, T # {} PROVE \E x \in T : \A y \in T : x <= y
  <1> DEFINE R == {ss \in Nat \X Nat : ss[1] < ss[2]}
  <1>1. IsWellFoundedOn(R, Nat)
    BY NatLessThanWellFounded, Zenon DEF OpToRel
  <1>2. \A x, y \in Nat : <<y, x>> \in R <=> y < x
    OBVIOUS
  <1> HIDE DEF R
  <1>3. PICK x \in T : \A y \in T : <<y, x>> \notin R
    BY <1>1, WFMin
  <1>4. \A y \in T : ~(y < x)
    BY <1>2, <1>3, Zenon
  <1> QED
    BY <1>4

\* A set of numbers that is bounded has a greatest one.
LEMMA GreatestNat ==
  ASSUME NEW n \in Nat, NEW S, S \subseteq 0..n, S # {}
  PROVE  \E x \in S : \A y \in S : y <= x
  <1> DEFINE T == {n - x : x \in S}
  <1>1. T \subseteq Nat /\ T # {}
    <2>1. \A x \in S : n - x \in Nat
      OBVIOUS
    <2> QED
      BY <2>1
  <1>2. PICK t \in T : \A u \in T : t <= u
    <2> HIDE DEF T
    <2> QED
      BY <1>1, LeastNat
  <1>3. PICK x \in S : t = n - x
    OBVIOUS
  <1>4. \A y \in S : y <= x
    <2> TAKE y \in S
    <2>1. n - y \in T
      OBVIOUS
    <2>2. n - x <= n - y
      BY <1>2, <1>3, <2>1
    <2>3. x \in 0..n /\ y \in 0..n
      BY <1>3
    <2> QED
      BY <2>2, <2>3
  <1> QED
    BY <1>4

\* Min and Max return them.
LEMMA MinNat ==
  ASSUME NEW S, S \subseteq Nat, S # {}
  PROVE  Min(S) \in S /\ \A y \in S : Min(S) <= y
  <1>1. PICK x \in S : \A y \in S : x <= y
    BY LeastNat
  <1> QED
    BY <1>1 DEF Min

LEMMA MaxNat ==
  ASSUME NEW n \in Nat, NEW S, S \subseteq 0..n, S # {}
  PROVE  Max(S) \in S /\ \A y \in S : y <= Max(S)
  <1>1. PICK x \in S : \A y \in S : y <= x
    BY GreatestNat
  <1>2. x \in S /\ \A y \in S : x >= y
    BY <1>1
  <1>3. Max(S) \in S /\ \A y \in S : Max(S) >= y
    BY <1>2 DEF Max
  <1> QED
    BY <1>3

\* A set with 0 and with the successor of each of its numbers has them all.
LEMMA SetInduction ==
  ASSUME NEW T, 0 \in T, \A n \in Nat : n \in T => n + 1 \in T
  PROVE  Nat \subseteq T
  <1> SUFFICES ASSUME Nat \ T # {} PROVE FALSE
    OBVIOUS
  <1>1. PICK x \in Nat \ T : \A y \in Nat \ T : x <= y
    BY LeastNat
  <1>2. x # 0 /\ x - 1 \in Nat /\ x - 1 \in T
    BY <1>1
  <1> QED
    BY <1>2

---------------------------------------------------------------------------
(* Sequences.                                                              *)

\* A function on the first numbers is a sequence.
LEMMA FunctionSeq ==
  ASSUME NEW A, NEW n \in Nat, NEW f \in [1..n -> A]
  PROVE  f \in Seq(A) /\ Len(f) = n /\ DOMAIN f = 1..n
  OBVIOUS

\* Two lists one after the other.
LEMMA TwoListed ==
  ASSUME NEW A, NEW K \in Seq(A), NEW R \in Seq(A), NEW O, O = K \o R
  PROVE  /\ O \in Seq(A) /\ Len(O) = Len(K) + Len(R) /\ DOMAIN O = 1..Len(O)
         /\ \A i \in 1..Len(O) : i \in 1..Len(K) \/ i - Len(K) \in 1..Len(R)
         /\ \A i \in 1..Len(K) : i \in 1..Len(O) /\ O[i] = K[i]
         /\ \A i \in 1..Len(R) : i + Len(K) \in 1..Len(O) /\ O[i + Len(K)] = R[i]
  <1>1. Len(K) \in Nat /\ Len(R) \in Nat
    BY LenProperties
  <1>2. /\ O \in Seq(A) /\ Len(O) = Len(K) + Len(R)
        /\ \A i \in 1..(Len(K) + Len(R)) : O[i] = IF i <= Len(K) THEN K[i] ELSE R[i - Len(K)]
    BY ConcatProperties
  <1>3. DOMAIN O = 1..Len(O)
    BY <1>2, LenProperties
  <1>4. \A i \in 1..Len(O) : i \in 1..Len(K) \/ i - Len(K) \in 1..Len(R)
    BY <1>1, <1>2
  <1>5. \A i \in 1..Len(K) : i \in 1..Len(O) /\ O[i] = K[i]
    BY <1>1, <1>2
  <1>6. ASSUME NEW i \in 1..Len(R) PROVE i + Len(K) \in 1..Len(O) /\ O[i + Len(K)] = R[i]
    <2>1. i + Len(K) \in 1..(Len(K) + Len(R)) /\ ~(i + Len(K) <= Len(K)) /\ (i + Len(K)) - Len(K) = i
      BY <1>1
    <2> QED
      BY <1>2, <2>1
  <1> QED
    BY <1>2, <1>3, <1>4, <1>5, <1>6

---------------------------------------------------------------------------
(* The recursion of Only.                                                  *)

\* f holds what is kept of every beginning of seq.
Filters(f, seq, S, m) ==
  f = [n \in 0..m |-> IF n = 0 THEN <<>>
                      ELSE IF seq[n] \in S THEN Append(f[n - 1], seq[n]) ELSE f[n - 1]]

\* There is such a function, for every beginning.
LEMMA FiltersExist == ASSUME NEW seq, NEW S, NEW m \in Nat PROVE \E f : Filters(f, seq, S, m)
  <1> DEFINE T == {n \in Nat : \E f : Filters(f, seq, S, n)}
  <1>1. 0 \in T
    <2> DEFINE f == [n \in 0..0 |-> <<>>]
    <2>1. Filters(f, seq, S, 0)
      BY DEF Filters
    <2> QED
      BY <2>1
  <1>2. ASSUME NEW n \in Nat, n \in T PROVE n + 1 \in T
    <2>1. PICK f : Filters(f, seq, S, n)
      BY <1>2
    <2> DEFINE e == IF seq[n + 1] \in S THEN Append(f[n], seq[n + 1]) ELSE f[n]
               g == [i \in 0..(n + 1) |-> IF i = n + 1 THEN e ELSE f[i]]
    <2>2. \A i \in 0..n : f[i] = IF i = 0 THEN <<>>
                                 ELSE IF seq[i] \in S THEN Append(f[i - 1], seq[i]) ELSE f[i - 1]
      BY <2>1 DEF Filters
    <2>3. \A i \in 0..(n + 1) :
            g[i] = IF i = 0 THEN <<>>
                   ELSE IF seq[i] \in S THEN Append(g[i - 1], seq[i]) ELSE g[i - 1]
      <3> TAKE i \in 0..(n + 1)
      <3>1. CASE i = n + 1
        <4>1. g[i] = e /\ g[i - 1] = f[n] /\ i # 0
          BY <3>1
        <4> QED
          BY <3>1, <4>1
      <3>2. CASE i \in 0..n
        <4>1. g[i] = f[i] /\ (i # 0 => g[i - 1] = f[i - 1])
          BY <3>2
        <4> QED
          BY <2>2, <3>2, <4>1
      <3> QED
        BY <3>1, <3>2
    <2>4. Filters(g, seq, S, n + 1)
      <3>1. g = [i \in 0..(n + 1) |-> g[i]]
        OBVIOUS
      <3> HIDE DEF g
      <3> QED
        BY <2>3, <3>1 DEF Filters
    <2> QED
      BY <2>4
  <1> HIDE DEF T
  <1>3. Nat \subseteq T
    BY <1>1, <1>2, SetInduction
  <1> QED
    BY <1>3 DEF T

\* Only is the last value of such a function.
LEMMA OnlyFilters ==
  ASSUME NEW seq, NEW S, Len(seq) \in Nat
  PROVE  \E f : Filters(f, seq, S, Len(seq)) /\ Only(seq, S) = f[Len(seq)]
  <1> DEFINE f == CHOOSE f : Filters(f, seq, S, Len(seq))
  <1>1. Filters(f, seq, S, Len(seq))
    BY FiltersExist
  <1>2. Only(seq, S) = f[Len(seq)]
    BY DEF Only, Filters
  <1> QED
    BY <1>1, <1>2

---------------------------------------------------------------------------
(* Where the elements of Only come from.                                   *)

\* r is what S keeps of the first m elements of seq: pos[k] is the place in
\* seq of element k.  PlacesOf ascend, so that none is later in r.
PlacesOf(r, pos, seq, S, m) ==
  /\ pos \in [1..Len(r) -> 1..m]
  /\ \A k \in 1..Len(r) : r[k] = seq[pos[k]] /\ r[k] \in S /\ k <= pos[k]
  /\ \A k, l \in 1..Len(r) : k < l => pos[k] < pos[l]
  /\ \A i \in 1..m : seq[i] \in S => \E k \in 1..Len(r) : pos[k] = i

\* One element more of seq: it is kept, at the end, or passed over.
LEMMA PlacesGrow ==
  ASSUME NEW A, NEW seq \in Seq(A), NEW S, NEW m \in Nat, m + 1 \in 1..Len(seq),
         NEW r \in Seq(A), NEW pos, Len(r) <= m, PlacesOf(r, pos, seq, S, m),
         NEW q, q = IF seq[m + 1] \in S THEN Append(r, seq[m + 1]) ELSE r
  PROVE  q \in Seq(A) /\ Len(q) <= m + 1 /\ \E p : PlacesOf(q, p, seq, S, m + 1)
  <1>0. Len(r) \in Nat /\ seq[m + 1] \in A
    BY LenProperties, ElementOfSeq
  <1>1. CASE seq[m + 1] \in S
    <2> DEFINE p == [k \in 1..(Len(r) + 1) |-> IF k = Len(r) + 1 THEN m + 1 ELSE pos[k]]
    <2>1. /\ q \in Seq(A) /\ Len(q) = Len(r) + 1 /\ q[Len(r) + 1] = seq[m + 1]
          /\ \A k \in 1..Len(r) : q[k] = r[k]
      BY <1>0, <1>1, AppendProperties
    <2>2. \A k \in 1..Len(q) : \/ k = Len(r) + 1 /\ p[k] = m + 1
                               \/ k \in 1..Len(r) /\ p[k] = pos[k] /\ pos[k] \in 1..m
      <3>1. \A k \in 1..Len(r) : pos[k] \in 1..m
        BY DEF PlacesOf
      <3>2. \A k \in 1..Len(q) : k = Len(r) + 1 \/ (k \in 1..Len(r) /\ k # Len(r) + 1)
        BY <1>0, <2>1
      <3>3. \A k \in 1..Len(q) : p[k] = IF k = Len(r) + 1 THEN m + 1 ELSE pos[k]
        BY <1>0, <2>1
      <3> HIDE DEF p
      <3> QED
        BY <3>1, <3>2, <3>3
    <2>3. p \in [1..Len(q) -> 1..(m + 1)]
      <3>1. \A k \in 1..Len(q) : p[k] \in 1..(m + 1)
        <4> HIDE DEF p
        <4> QED
          BY <2>2
      <3>2. p = [k \in 1..Len(q) |-> p[k]]
        BY <1>0, <2>1
      <3> HIDE DEF p
      <3> QED
        BY <3>1, <3>2
    <2> HIDE DEF p
    <2>4. \A k \in 1..Len(q) : q[k] = seq[p[k]] /\ q[k] \in S /\ k <= p[k]
      BY <1>0, <1>1, <2>1, <2>2 DEF PlacesOf
    <2>5. \A k, l \in 1..Len(q) : k < l => p[k] < p[l]
      BY <1>0, <2>1, <2>2 DEF PlacesOf
    <2>6. \A i \in 1..(m + 1) : seq[i] \in S => \E k \in 1..Len(q) : p[k] = i
      <3> TAKE i \in 1..(m + 1)
      <3>1. CASE i = m + 1
        BY <1>0, <2>1, <2>2, <3>1
      <3>2. CASE i \in 1..m
        <4> SUFFICES ASSUME seq[i] \in S PROVE \E k \in 1..Len(q) : p[k] = i
          OBVIOUS
        <4>1. PICK k \in 1..Len(r) : pos[k] = i
          BY <3>2 DEF PlacesOf
        <4>2. k \in 1..Len(q) /\ k # Len(r) + 1
          BY <1>0, <2>1
        <4> QED
          BY <2>2, <4>1, <4>2
      <3> QED
        BY <3>1, <3>2
    <2>7. PlacesOf(q, p, seq, S, m + 1)
      BY <2>3, <2>4, <2>5, <2>6 DEF PlacesOf
    <2> QED
      BY <1>0, <2>1, <2>7
  <1>2. CASE seq[m + 1] \notin S
    <2>1. PlacesOf(r, pos, seq, S, m + 1)
      <3>1. pos \in [1..Len(r) -> 1..(m + 1)]
        BY DEF PlacesOf
      <3>2. \A i \in 1..(m + 1) : seq[i] \in S => i \in 1..m
        BY <1>2
      <3> QED
        BY <3>1, <3>2 DEF PlacesOf
    <2> QED
      BY <1>0, <1>2, <2>1
  <1> QED
    BY <1>1, <1>2

\* Only returns elements of seq from ascending places of it, all those of S.
LEMMA OnlyPlaces ==
  ASSUME NEW A, NEW seq \in Seq(A), NEW S
  PROVE  Only(seq, S) \in Seq(A) /\ \E pos : PlacesOf(Only(seq, S), pos, seq, S, Len(seq))
  <1>0. Len(seq) \in Nat
    BY LenProperties
  <1>1. PICK f : Filters(f, seq, S, Len(seq)) /\ Only(seq, S) = f[Len(seq)]
    BY <1>0, OnlyFilters
  <1>2. \A n \in 0..Len(seq) :
          f[n] = IF n = 0 THEN <<>>
                 ELSE IF seq[n] \in S THEN Append(f[n - 1], seq[n]) ELSE f[n - 1]
    BY <1>1 DEF Filters
  <1> DEFINE Good(n) == f[n] \in Seq(A) /\ Len(f[n]) <= n /\ \E pos : PlacesOf(f[n], pos, seq, S, n)
             T == {n \in Nat : n <= Len(seq) => Good(n)}
  <1>3. Good(0)
    <2>1. f[0] = <<>> /\ Len(<<>>) = 0
      BY <1>0, <1>2
    <2>2. PlacesOf(<<>>, <<>>, seq, S, 0)
      BY <2>1 DEF PlacesOf
    <2> QED
      BY <2>1, <2>2, EmptySeq
  <1>4. ASSUME NEW n \in Nat, n + 1 <= Len(seq), Good(n) PROVE Good(n + 1)
    <2>1. n + 1 \in 1..Len(seq) /\ n + 1 \in 0..Len(seq) /\ n + 1 # 0 /\ (n + 1) - 1 = n
      BY <1>0, <1>4
    <2>2. f[n + 1] = IF seq[n + 1] \in S THEN Append(f[n], seq[n + 1]) ELSE f[n]
      BY <1>2, <2>1
    <2>3. PICK pos : PlacesOf(f[n], pos, seq, S, n)
      BY <1>4
    <2> QED
      BY <1>4, <2>1, <2>2, <2>3, PlacesGrow
  <1> HIDE DEF Good
  <1>5. 0 \in T /\ \A n \in Nat : n \in T => n + 1 \in T
    BY <1>0, <1>3, <1>4
  <1> HIDE DEF T
  <1>6. Nat \subseteq T
    BY <1>5, SetInduction
  <1>7. Good(Len(seq))
    BY <1>0, <1>6 DEF T
  <1> QED
    BY <1>1, <1>7 DEF Good

---------------------------------------------------------------------------
(* What follows of Only.                                                   *)

\* Every element of S stays, no later than it was, and nothing else.
LEMMA OnlyElements ==
  ASSUME NEW A, NEW seq \in Seq(A), NEW S
  PROVE  /\ Only(seq, S) \in Seq(A)
         /\ \A k \in 1..Len(Only(seq, S)) :
              Only(seq, S)[k] \in S /\ \E i \in 1..Len(seq) : seq[i] = Only(seq, S)[k]
         /\ \A i \in 1..Len(seq) : seq[i] \in S =>
              \E k \in 1..Len(Only(seq, S)) : Only(seq, S)[k] = seq[i] /\ k <= i
  <1> DEFINE r == Only(seq, S)
  <1>1. r \in Seq(A) /\ Len(r) \in Nat /\ Len(seq) \in Nat
    BY OnlyPlaces, LenProperties
  <1>2. PICK pos : PlacesOf(r, pos, seq, S, Len(seq))
    BY OnlyPlaces
  <1> HIDE DEF r
  <1>3. \A k \in 1..Len(r) : r[k] \in S /\ \E i \in 1..Len(seq) : seq[i] = r[k]
    BY <1>2 DEF PlacesOf
  <1>4. \A i \in 1..Len(seq) : seq[i] \in S => \E k \in 1..Len(r) : r[k] = seq[i] /\ k <= i
    BY <1>2 DEF PlacesOf
  <1> QED
    BY <1>1, <1>3, <1>4 DEF r

\* Where all stay there are no fewer.
LEMMA OnlyAll ==
  ASSUME NEW A, NEW seq \in Seq(A), NEW S, \A i \in 1..Len(seq) : seq[i] \in S
  PROVE  Len(seq) <= Len(Only(seq, S))
  <1> DEFINE r == Only(seq, S)
  <1>1. Len(seq) \in Nat /\ Len(r) \in Nat
    BY OnlyPlaces, LenProperties
  <1>2. PICK pos : PlacesOf(r, pos, seq, S, Len(seq))
    BY OnlyPlaces
  <1> HIDE DEF r
  <1>3. pos \in Surjection(1..Len(r), 1..Len(seq))
    BY <1>2 DEF PlacesOf, Surjection
  <1>4. ASSUME NEW n \in Nat PROVE IsFiniteSet(1..n) /\ Cardinality(1..n) = n
    BY FS_Interval
  <1>5. Cardinality(1..Len(seq)) <= Cardinality(1..Len(r))
    BY <1>1, <1>3, <1>4, FS_Surjection
  <1> QED
    BY <1>1, <1>4, <1>5 DEF r

\* Elements that differ still do.
LEMMA OnlyInjective ==
  ASSUME NEW A, NEW seq \in Seq(A), NEW S,
         \A i, j \in 1..Len(seq) : seq[i] = seq[j] => i = j
  PROVE  \A k, l \in 1..Len(Only(seq, S)) : Only(seq, S)[k] = Only(seq, S)[l] => k = l
  <1> DEFINE r == Only(seq, S)
  <1>1. Len(r) \in Nat
    BY OnlyPlaces, LenProperties
  <1>2. PICK pos : PlacesOf(r, pos, seq, S, Len(seq))
    BY OnlyPlaces
  <1> HIDE DEF r
  <1>3. ASSUME NEW k \in 1..Len(r), NEW l \in 1..Len(r), r[k] = r[l], k < l PROVE FALSE
    <2>1. pos[k] \in 1..Len(seq) /\ pos[l] \in 1..Len(seq) /\ seq[pos[k]] = seq[pos[l]]
      BY <1>2, <1>3 DEF PlacesOf
    <2>2. pos[k] = pos[l] /\ pos[k] < pos[l]
      BY <1>2, <1>3, <2>1 DEF PlacesOf
    <2> QED
      BY <2>1, <2>2
  <1>4. \A k, l \in 1..Len(r) : r[k] = r[l] => k = l
    BY <1>1, <1>3
  <1> QED
    BY <1>4 DEF r

\* What stays keeps its order, and that order is the one it had.
LEMMA OnlyBefore ==
  ASSUME NEW A, NEW seq \in Seq(A), NEW S, NEW a \in S, NEW b \in S
  PROVE  Before(a, b, Only(seq, S)) <=> Before(a, b, seq)
  <1> DEFINE r == Only(seq, S)
  <1>1. /\ Len(r) \in Nat /\ Len(seq) \in Nat
        /\ DOMAIN r = 1..Len(r) /\ DOMAIN seq = 1..Len(seq)
    BY OnlyPlaces, LenProperties
  <1>2. PICK pos : PlacesOf(r, pos, seq, S, Len(seq))
    BY OnlyPlaces
  <1> HIDE DEF r
  <1>3. ASSUME Before(a, b, r) PROVE Before(a, b, seq)
    <2>1. PICK k, l \in 1..Len(r) : k < l /\ r[k] = a /\ r[l] = b
      BY <1>1, <1>3 DEF Before
    <2>2. pos[k] \in 1..Len(seq) /\ pos[l] \in 1..Len(seq) /\ pos[k] < pos[l]
          /\ seq[pos[k]] = a /\ seq[pos[l]] = b
      BY <1>2, <2>1 DEF PlacesOf
    <2> QED
      BY <1>1, <2>2 DEF Before
  <1>4. ASSUME Before(a, b, seq) PROVE Before(a, b, r)
    <2>1. PICK i, j \in 1..Len(seq) : i < j /\ seq[i] = a /\ seq[j] = b
      BY <1>1, <1>4 DEF Before
    <2>2. PICK k \in 1..Len(r) : pos[k] = i
      BY <1>2, <2>1 DEF PlacesOf
    <2>3. PICK l \in 1..Len(r) : pos[l] = j
      BY <1>2, <2>1 DEF PlacesOf
    <2>4. r[k] = a /\ r[l] = b /\ k # l /\ ~(l < k)
      BY <1>2, <2>1, <2>2, <2>3 DEF PlacesOf
    <2> QED
      BY <1>1, <2>4 DEF Before
  <1>5. Before(a, b, r) <=> Before(a, b, seq)
    BY <1>3, <1>4
  <1> QED
    BY <1>5 DEF r

---------------------------------------------------------------------------
(* Listings of a finite set.                                               *)

\* A listing has every element once.
LEMMA ListingHasAll ==
  ASSUME NEW S, IsFiniteSet(S), NEW f \in SetToSeqs(S)
  PROVE  /\ f \in Seq(S)
         /\ \A i, j \in 1..Len(f) : f[i] = f[j] => i = j
         /\ \A x \in S : \E i \in 1..Len(f) : f[i] = x
  <1> DEFINE n == Cardinality(S)
  <1>1. n \in Nat
    BY FS_CardinalityType
  <1>2. f \in [1..n -> S] /\ \A i, j \in 1..n : i # j => f[i] # f[j]
    BY DEF SetToSeqs
  <1>3. IsFiniteSet(1..n) /\ Cardinality(1..n) = n
    BY <1>1, FS_Interval
  <1> HIDE DEF n
  <1>4. f \in Injection(1..n, S)
    BY <1>2 DEF Injection, IsInjective
  <1>5. f \in Surjection(1..n, S)
    BY <1>3, <1>4, FS_Injection DEF n
  <1>6. f \in Seq(S) /\ Len(f) = n
    BY <1>1, <1>2
  <1>7. \A x \in S : \E i \in 1..n : f[i] = x
    BY <1>5 DEF Surjection
  <1> QED
    BY <1>2, <1>6, <1>7

\* A sequence without repetition is a listing of its elements.
LEMMA InjectiveIsListing ==
  ASSUME NEW A, NEW seq \in Seq(A), \A i, j \in 1..Len(seq) : seq[i] = seq[j] => i = j
  PROVE  /\ IsFiniteSet(ToSet(seq)) /\ Cardinality(ToSet(seq)) = Len(seq)
         /\ seq \in SetToSeqs(ToSet(seq))
  <1> DEFINE D == 1..Len(seq)
             S == ToSet(seq)
  <1>1. Len(seq) \in Nat /\ DOMAIN seq = D /\ seq \in [D -> A]
    BY LenProperties
  <1>2. IsFiniteSet(D) /\ Cardinality(D) = Len(seq)
    BY <1>1, FS_Interval
  <1>3. seq \in [D -> S] /\ \A x \in S : \E i \in D : seq[i] = x
    BY <1>1 DEF ToSet
  <1> HIDE DEF D, S
  <1>4. seq \in Surjection(D, S)
    BY <1>3 DEF Surjection
  <1>5. seq \in Injection(D, S)
    BY <1>3 DEF Injection, IsInjective, D
  <1>6. IsFiniteSet(S) /\ Cardinality(S) = Len(seq)
    BY <1>2, <1>4, <1>5, FS_Surjection
  <1>7. seq \in SetToSeqs(S)
    BY <1>3, <1>6 DEF SetToSeqs, D
  <1> QED
    BY <1>6, <1>7 DEF S

---------------------------------------------------------------------------
(* Sums.                                                                   *)

\* Induction over the subsets of a finite set.
LEMMA SubsetInduction ==
  ASSUME NEW S, IsFiniteSet(S), NEW Q, \A s \in SUBSET S : (\A x \in s : s \ {x} \in Q) => s \in Q
  PROVE  SUBSET S \subseteq Q
  <1> DEFINE T == {n \in Nat : \A s \in SUBSET S : Cardinality(s) = n => s \in Q}
  <1>1. \A s \in SUBSET S : IsFiniteSet(s) /\ Cardinality(s) \in Nat
    BY FS_Subset, FS_CardinalityType
  <1>2. ASSUME NEW s \in SUBSET S, NEW x \in s
        PROVE  s \ {x} \in SUBSET S /\ Cardinality(s \ {x}) = Cardinality(s) - 1
    BY <1>1, FS_RemoveElement
  <1>3. 0 \in T
    <2> SUFFICES ASSUME NEW s \in SUBSET S, Cardinality(s) = 0 PROVE s \in Q
      OBVIOUS
    <2>1. s = {}
      BY <1>1, FS_EmptySet
    <2> QED
      BY <2>1
  <1>4. ASSUME NEW n \in Nat, n \in T PROVE n + 1 \in T
    <2> SUFFICES ASSUME NEW s \in SUBSET S, Cardinality(s) = n + 1 PROVE s \in Q
      OBVIOUS
    <2>1. \A x \in s : s \ {x} \in SUBSET S /\ Cardinality(s \ {x}) = n
      BY <1>2
    <2>2. \A x \in s : s \ {x} \in Q
      BY <1>4, <2>1
    <2> QED
      BY <2>2
  <1>5. \A n \in Nat : n \in T
    <2> HIDE DEF T
    <2> QED
      BY <1>3, <1>4, SetInduction
  <1> QED
    BY <1>1, <1>5

\* The recursion behind SumFunction, over a family of sets.
Picked(s) == CHOOSE x \in s : TRUE
Adds(sum, f, F) ==
  sum = [s \in F |-> IF s = {} THEN 0 ELSE f[Picked(s)] + sum[s \ {Picked(s)}]]

\* One step of that recursion.
LEMMA AddsAt ==
  ASSUME NEW sum, NEW f, NEW F, Adds(sum, f, F), NEW s \in F
  PROVE  sum[s] = IF s = {} THEN 0 ELSE f[Picked(s)] + sum[s \ {Picked(s)}]
  BY DEF Adds

\* There is such a function, for the subsets of a finite set.
LEMMA AddsExists ==
  ASSUME NEW S, IsFiniteSet(S), NEW f
  PROVE  \E sum : Adds(sum, f, SUBSET S)
  <1> DEFINE F(n) == {s \in SUBSET S : Cardinality(s) <= n}
             T == {n \in Nat : \E sum : Adds(sum, f, F(n))}
  <1>1. \A s \in SUBSET S : IsFiniteSet(s) /\ Cardinality(s) \in Nat /\ Cardinality(s) <= Cardinality(S)
    BY FS_Subset, FS_CardinalityType
  <1>2. ASSUME NEW s \in SUBSET S, s # {}
        PROVE  s \ {Picked(s)} \in SUBSET S /\ Cardinality(s \ {Picked(s)}) = Cardinality(s) - 1
    <2>1. Picked(s) \in s
      BY <1>2 DEF Picked
    <2> QED
      BY <1>1, <2>1, FS_RemoveElement
  <1>3. 0 \in T
    <2> DEFINE sum == [s \in F(0) |-> 0]
    <2>1. \A s \in F(0) : s = {}
      BY <1>1, FS_EmptySet
    <2>2. Adds(sum, f, F(0))
      BY <2>1 DEF Adds
    <2> QED
      BY <2>2
  <1>4. ASSUME NEW n \in Nat, n \in T PROVE n + 1 \in T
    <2>1. PICK sum : Adds(sum, f, F(n))
      BY <1>4
    <2> DEFINE G == F(n + 1)
               next == [s \in G |-> IF s = {} THEN 0 ELSE f[Picked(s)] + sum[s \ {Picked(s)}]]
    <2>2. \A s \in F(n) : s \in G /\ next[s] = sum[s]
      <3>1. \A s \in F(n) :
               sum[s] = IF s = {} THEN 0 ELSE f[Picked(s)] + sum[s \ {Picked(s)}]
        BY <2>1 DEF Adds
      <3>2. \A s \in F(n) : s \in G
        BY <1>1
      <3> QED
        BY <3>1, <3>2
    <2>3. \A s \in G : s # {} => s \ {Picked(s)} \in F(n)
      BY <1>1, <1>2
    <2>4. \A s \in G : s # {} => next[s \ {Picked(s)}] = sum[s \ {Picked(s)}]
      BY <2>2, <2>3
    <2>5. next = [s \in G |-> IF s = {} THEN 0 ELSE f[Picked(s)] + next[s \ {Picked(s)}]]
      BY <2>4
    <2>6. Adds(next, f, G)
      BY <2>5 DEF Adds
    <2> HIDE DEF next
    <2>7. \E u : Adds(u, f, F(n + 1))
      BY <2>6
    <2>8. n + 1 \in Nat
      OBVIOUS
    <2> HIDE DEF F
    <2> QED
      BY <2>7, <2>8
  <1>5. Cardinality(S) \in T
    <2>1. Cardinality(S) \in Nat
      BY <1>1
    <2> HIDE DEF T
    <2> QED
      BY <1>3, <1>4, <2>1, SetInduction
  <1>6. F(Cardinality(S)) = SUBSET S
    BY <1>1
  <1> QED
    BY <1>5, <1>6

\* A sum is the value of that recursion at the whole set ...
LEMMA SumIsAdds ==
  ASSUME NEW S, IsFiniteSet(S), NEW f, DOMAIN f = S
  PROVE  \E sum : Adds(sum, f, SUBSET S) /\ SumFunction(f) = sum[S]
  <1> DEFINE sum == CHOOSE sum : Adds(sum, f, SUBSET S)
  <1>1. Adds(sum, f, SUBSET S)
    BY AddsExists
  <1>2. SumFunction(f) = sum[S]
    BY DEF SumFunction, SumFunctionOnSet, FoldFunctionOnSet, MapThenFoldSet, Adds, Picked
  <1> QED
    BY <1>1, <1>2

\* ... and the sums of its parts are its values at them.
LEMMA SumOfPart ==
  ASSUME NEW S, IsFiniteSet(S), NEW f, NEW sum, Adds(sum, f, SUBSET S),
         NEW T \in SUBSET S, NEW g, g = [x \in T |-> f[x]]
  PROVE  SumFunction(g) = sum[T]
  <1>1. IsFiniteSet(T)
    BY FS_Subset
  <1>2. DOMAIN g = T /\ \A x \in T : g[x] = f[x]
    OBVIOUS
  <1>3. PICK tum : Adds(tum, g, SUBSET T) /\ SumFunction(g) = tum[T]
    BY <1>1, <1>2, SumIsAdds
  <1> DEFINE Q == {s \in SUBSET T : sum[s] = tum[s]}
  <1>4. ASSUME NEW s \in SUBSET T, \A x \in s : s \ {x} \in Q PROVE s \in Q
    <2>1. s \in SUBSET S
      OBVIOUS
    <2>2. /\ sum[s] = IF s = {} THEN 0 ELSE f[Picked(s)] + sum[s \ {Picked(s)}]
          /\ tum[s] = IF s = {} THEN 0 ELSE g[Picked(s)] + tum[s \ {Picked(s)}]
      BY <1>3, <2>1, AddsAt
    <2>3. s # {} => Picked(s) \in s
      BY DEF Picked
    <2> QED
      BY <1>2, <1>4, <2>2, <2>3
  <1>5. SUBSET T \subseteq Q
    <2> HIDE DEF Q
    <2> QED
      BY <1>1, <1>4, SubsetInduction
  <1> QED
    BY <1>3, <1>5

\* The recursion adds whole numbers.
LEMMA AddsInt ==
  ASSUME NEW S, IsFiniteSet(S), NEW f, \A x \in S : f[x] \in Int,
         NEW sum, Adds(sum, f, SUBSET S)
  PROVE  \A s \in SUBSET S : sum[s] \in Int
  <1> DEFINE Q == {s \in SUBSET S : sum[s] \in Int}
  <1>1. ASSUME NEW s \in SUBSET S, \A x \in s : s \ {x} \in Q PROVE s \in Q
    <2>1. sum[s] = IF s = {} THEN 0 ELSE f[Picked(s)] + sum[s \ {Picked(s)}]
      BY AddsAt
    <2>2. s # {} => Picked(s) \in s /\ s \ {Picked(s)} \in Q
      BY <1>1 DEF Picked
    <2> QED
      BY <2>1, <2>2
  <1>2. SUBSET S \subseteq Q
    <2> HIDE DEF Q
    <2> QED
      BY <1>1, SubsetInduction
  <1> QED
    BY <1>2

\* Any of them may be taken off first.
LEMMA AddsAny ==
  ASSUME NEW S, IsFiniteSet(S), NEW f, \A x \in S : f[x] \in Int,
         NEW sum, Adds(sum, f, SUBSET S)
  PROVE  \A s \in SUBSET S : \A x \in s : sum[s] = f[x] + sum[s \ {x}]
  <1> DEFINE Q == {s \in SUBSET S : \A x \in s : sum[s] = f[x] + sum[s \ {x}]}
  <1>0. \A s \in SUBSET S : sum[s] \in Int
    BY AddsInt
  <1>1. ASSUME NEW s \in SUBSET S, \A x \in s : s \ {x} \in Q PROVE s \in Q
    <2> SUFFICES ASSUME NEW x \in s PROVE sum[s] = f[x] + sum[s \ {x}]
      OBVIOUS
    <2> DEFINE p == Picked(s)
    <2>1. p \in s
      BY DEF Picked
    <2>2. sum[s] = f[p] + sum[s \ {p}]
      BY AddsAt
    <2> HIDE DEF p
    <2>3. CASE x = p
      BY <2>2, <2>3
    <2>4. CASE x # p
      <3> DEFINE u == (s \ {p}) \ {x}
      <3>1. x \in s \ {p} /\ p \in s \ {x} /\ u = (s \ {x}) \ {p} /\ u \in SUBSET S
        BY <2>1, <2>4
      <3>2. sum[s \ {p}] = f[x] + sum[u]
        BY <1>1, <2>1, <3>1
      <3>3. sum[s \ {x}] = f[p] + sum[u]
        BY <1>1, <3>1
      <3>4. f[x] \in Int /\ f[p] \in Int /\ sum[u] \in Int
        BY <1>0, <2>1, <3>1
      <3> HIDE DEF u
      <3> QED
        BY <2>2, <3>2, <3>3, <3>4
    <2> QED
      BY <2>3, <2>4
  <1>2. SUBSET S \subseteq Q
    <2> HIDE DEF Q
    <2> QED
      BY <1>1, SubsetInduction
  <1> QED
    BY <1>2

---------------------------------------------------------------------------
\* What the sums of the models obey, for functions on a finite set.

\* A sum of integers is one.
LEMMA SumInt ==
  ASSUME NEW S, IsFiniteSet(S), NEW f \in [S -> Int]
  PROVE  SumFunction(f) \in Int
  <1>1. PICK sum : Adds(sum, f, SUBSET S) /\ SumFunction(f) = sum[S]
    BY SumIsAdds
  <1>2. Adds(sum, f, SUBSET S)
    BY <1>1
  <1>3. \A s \in SUBSET S : sum[s] \in Int
    BY <1>2, AddsInt
  <1> QED
    BY <1>1, <1>3

\* A sum of smaller numbers is smaller.
LEMMA SumMonotone ==
  ASSUME NEW S, IsFiniteSet(S), NEW f \in [S -> Int], NEW g \in [S -> Int],
         \A x \in S : f[x] <= g[x]
  PROVE  SumFunction(f) <= SumFunction(g)
  <1>1. PICK sum : Adds(sum, f, SUBSET S) /\ SumFunction(f) = sum[S]
    BY SumIsAdds
  <1>2. PICK tum : Adds(tum, g, SUBSET S) /\ SumFunction(g) = tum[S]
    BY SumIsAdds
  <1>3. Adds(sum, f, SUBSET S)
    BY <1>1
  <1>4. Adds(tum, g, SUBSET S)
    BY <1>2
  <1>5. \A s \in SUBSET S : sum[s] \in Int
    BY <1>3, AddsInt
  <1>6. \A s \in SUBSET S : tum[s] \in Int
    BY <1>4, AddsInt
  <1> DEFINE Q == {s \in SUBSET S : sum[s] <= tum[s]}
  <1>7. ASSUME NEW s \in SUBSET S, \A x \in s : s \ {x} \in Q PROVE s \in Q
    <2>1. sum[s] = IF s = {} THEN 0 ELSE f[Picked(s)] + sum[s \ {Picked(s)}]
      BY <1>3, AddsAt
    <2>2. tum[s] = IF s = {} THEN 0 ELSE g[Picked(s)] + tum[s \ {Picked(s)}]
      BY <1>4, AddsAt
    <2>3. CASE s = {}
      BY <2>1, <2>2, <2>3
    <2>4. CASE s # {}
      <3> DEFINE p == Picked(s)
                 u == s \ {p}
      <3>1. p \in s
        BY <2>4 DEF Picked
      <3>2. u \in Q
        BY <1>7, <3>1
      <3>3. sum[s] = f[p] + sum[u] /\ tum[s] = g[p] + tum[u]
        BY <2>1, <2>2, <2>4
      <3> HIDE DEF u, p
      <3>4. f[p] \in Int /\ g[p] \in Int /\ f[p] <= g[p] /\ sum[u] \in Int /\ tum[u] \in Int
            /\ sum[u] <= tum[u]
        BY <1>5, <1>6, <3>1, <3>2
      <3> QED
        BY <3>3, <3>4
    <2> QED
      BY <2>3, <2>4
  <1>8. SUBSET S \subseteq Q
    <2> HIDE DEF Q
    <2> QED
      BY <1>7, SubsetInduction
  <1> QED
    BY <1>1, <1>2, <1>8

\* A sum of natural numbers is one.
LEMMA SumNat ==
  ASSUME NEW S, IsFiniteSet(S), NEW f \in [S -> Nat]
  PROVE  SumFunction(f) \in Nat
  <1>1. f \in [S -> Int] /\ \A x \in S : f[x] \in Int
    OBVIOUS
  <1>2. PICK sum : Adds(sum, f, SUBSET S) /\ SumFunction(f) = sum[S]
    BY SumIsAdds
  <1>3. Adds(sum, f, SUBSET S)
    BY <1>2
  <1> DEFINE Q == {s \in SUBSET S : sum[s] \in Nat}
  <1>4. ASSUME NEW s \in SUBSET S, \A x \in s : s \ {x} \in Q PROVE s \in Q
    <2>1. sum[s] = IF s = {} THEN 0 ELSE f[Picked(s)] + sum[s \ {Picked(s)}]
      BY <1>3, AddsAt
    <2>2. s # {} => Picked(s) \in s /\ s \ {Picked(s)} \in Q
      BY <1>4 DEF Picked
    <2> QED
      BY <2>1, <2>2
  <1>5. SUBSET S \subseteq Q
    <2> HIDE DEF Q
    <2> QED
      BY <1>4, SubsetInduction
  <1> QED
    BY <1>2, <1>5

\* Zeros may be left out of a sum.
LEMMA SumZeros ==
  ASSUME NEW S, IsFiniteSet(S), NEW f \in [S -> Int], NEW T \in SUBSET S, \A x \in S \ T : f[x] = 0
  PROVE  SumFunction([x \in T |-> f[x]]) = SumFunction(f)
  <1>b. \A x \in S : f[x] \in Int
    OBVIOUS
  <1>1. PICK sum : Adds(sum, f, SUBSET S) /\ SumFunction(f) = sum[S]
    BY SumIsAdds
  <1>2. Adds(sum, f, SUBSET S)
    BY <1>1
  <1>3. \A s \in SUBSET S : \A x \in s : sum[s] = f[x] + sum[s \ {x}]
    <2> SUFFICES ASSUME NEW s \in SUBSET S PROVE \A x \in s : sum[s] = f[x] + sum[s \ {x}]
      OBVIOUS
    <2>1. IsFiniteSet(S)
      OBVIOUS
    <2> QED
      BY <1>b, <1>2, <2>1, AddsAny
  <1>4. \A s \in SUBSET S : sum[s] \in Int
    BY <1>2, AddsInt
  <1> DEFINE R == S \ T
             Q == {s \in SUBSET R : sum[T \cup s] = sum[T]}
  <1>5. ASSUME NEW s \in SUBSET R, \A x \in s : s \ {x} \in Q PROVE s \in Q
    <2>1. CASE s = {}
      BY <2>1
    <2>2. ASSUME NEW x \in s PROVE s \in Q
      <3>1. T \cup s \in SUBSET S /\ x \in T \cup s /\ (T \cup s) \ {x} = T \cup (s \ {x})
        BY <2>2
      <3>2. sum[T \cup s] = f[x] + sum[(T \cup s) \ {x}]
        BY <1>3, <3>1
      <3>3. sum[T \cup (s \ {x})] = sum[T] /\ sum[T] \in Int
        BY <1>4, <1>5, <2>2
      <3> QED
        BY <2>2, <3>1, <3>2, <3>3
    <2> QED
      BY <2>1, <2>2
  <1>6. IsFiniteSet(R)
    BY FS_Difference
  <1>7. SUBSET R \subseteq Q
    <2> HIDE DEF Q, R
    <2> QED
      BY <1>5, <1>6, SubsetInduction
  <1>8. T \cup R = S
    OBVIOUS
  <1>9. sum[T \cup R] = sum[T]
    BY <1>7
  <1>10. SumFunction([x \in T |-> f[x]]) = sum[T]
    BY <1>2, SumOfPart
  <1> QED
    BY <1>1, <1>8, <1>9, <1>10

\* The same, for a sum that has a name.
LEMMA SumWithoutZeros ==
  ASSUME NEW S, IsFiniteSet(S), NEW f \in [S -> Int], NEW T \in SUBSET S, \A x \in S \ T : f[x] = 0,
         NEW g, g = [x \in T |-> f[x]]
  PROVE  SumFunction(g) = SumFunction(f)
  BY SumZeros

\* A part of a sum is smaller.
LEMMA SumPart ==
  ASSUME NEW S, IsFiniteSet(S), NEW f \in [S -> Nat], NEW T \in SUBSET S
  PROVE  SumFunction([x \in T |-> f[x]]) <= SumFunction(f)
  <1> SUFFICES ASSUME NEW g, g = [x \in S |-> IF x \in T THEN f[x] ELSE 0]
               PROVE  SumFunction([x \in T |-> f[x]]) <= SumFunction(f)
    OBVIOUS
  <1>1. g \in [S -> Int] /\ f \in [S -> Int]
    OBVIOUS
  <1>2. \A x \in S : g[x] <= f[x]
    OBVIOUS
  <1>3. \A x \in S \ T : g[x] = 0
    OBVIOUS
  <1>4. [x \in T |-> g[x]] = [x \in T |-> f[x]]
    OBVIOUS
  <1>5. SumFunction([x \in T |-> g[x]]) = SumFunction(g)
    BY <1>1, <1>3, SumZeros
  <1>6. SumFunction(g) <= SumFunction(f)
    BY <1>1, <1>2, SumMonotone
  <1> QED
    BY <1>4, <1>5, <1>6

\* A sum of differences is the difference of the sums.
LEMMA SumDifference ==
  ASSUME NEW S, IsFiniteSet(S), NEW f \in [S -> Int], NEW g \in [S -> Int]
  PROVE  SumFunction([x \in S |-> f[x] - g[x]]) = SumFunction(f) - SumFunction(g)
  <1> DEFINE d == [x \in S |-> f[x] - g[x]]
  <1>0. d = [x \in S |-> d[x]]
    OBVIOUS
  <1>11. \A x \in S : d[x] = f[x] - g[x]
    OBVIOUS
  <1> HIDE DEF d
  <1>1. PICK sum : Adds(sum, f, SUBSET S) /\ SumFunction(f) = sum[S]
    BY SumIsAdds
  <1>2. PICK tum : Adds(tum, g, SUBSET S) /\ SumFunction(g) = tum[S]
    BY SumIsAdds
  <1>3. PICK dum : Adds(dum, d, SUBSET S) /\ SumFunction(d) = dum[S]
    BY <1>0, SumIsAdds
  <1>4. Adds(sum, f, SUBSET S)
    BY <1>1
  <1>5. Adds(tum, g, SUBSET S)
    BY <1>2
  <1>6. Adds(dum, d, SUBSET S)
    BY <1>3
  <1>7. \A s \in SUBSET S : sum[s] \in Int
    BY <1>4, AddsInt
  <1>8. \A s \in SUBSET S : tum[s] \in Int
    BY <1>5, AddsInt
  <1> DEFINE Q == {s \in SUBSET S : dum[s] = sum[s] - tum[s]}
  <1>9. ASSUME NEW s \in SUBSET S, \A x \in s : s \ {x} \in Q PROVE s \in Q
    <2>1. sum[s] = IF s = {} THEN 0 ELSE f[Picked(s)] + sum[s \ {Picked(s)}]
      BY <1>4, AddsAt
    <2>2. tum[s] = IF s = {} THEN 0 ELSE g[Picked(s)] + tum[s \ {Picked(s)}]
      BY <1>5, AddsAt
    <2>3. dum[s] = IF s = {} THEN 0 ELSE d[Picked(s)] + dum[s \ {Picked(s)}]
      BY <1>6, AddsAt
    <2>4. CASE s = {}
      BY <2>1, <2>2, <2>3, <2>4
    <2>5. CASE s # {}
      <3> DEFINE p == Picked(s)
                 u == s \ {p}
      <3>1. p \in s
        BY <2>5 DEF Picked
      <3>2. u \in Q
        BY <1>9, <3>1
      <3>3. sum[s] = f[p] + sum[u] /\ tum[s] = g[p] + tum[u] /\ dum[s] = d[p] + dum[u]
        BY <2>1, <2>2, <2>3, <2>5
      <3> HIDE DEF u, p
      <3>4. /\ f[p] \in Int /\ g[p] \in Int /\ d[p] = f[p] - g[p]
            /\ sum[u] \in Int /\ tum[u] \in Int /\ dum[u] = sum[u] - tum[u]
        BY <1>7, <1>8, <1>11, <3>1, <3>2
      <3> QED
        BY <3>3, <3>4
    <2> QED
      BY <2>4, <2>5
  <1>10. SUBSET S \subseteq Q
    <2> HIDE DEF Q
    <2> QED
      BY <1>9, SubsetInduction
  <1> QED
    BY <1>1, <1>2, <1>3, <1>10 DEF d
=============================================================================
