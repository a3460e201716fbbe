----------------------------- MODULE LocalProofs -----------------------------
(* Proofs about what is read of this machine and shown of it: Rows, for    *)
(* every finite grouping, limit, retention and depth; the views of threads, *)
(* LocalSampling and Signals, for any processes, groups and counters.       *)
EXTENDS Rows, LocalSampling, ThreadViews, Signals, SharedLemmas, TLAPS

\* The groupings are finite, all their labels are a finite set.
LEMMA LabelsFinite ==
  /\ \A i \in DOMAIN Groupings : Groupings[i] \subseteq Label /\ IsFiniteSet(Groupings[i])
  /\ IsFiniteSet(Label)
  <1>1. /\ Groupings \in Seq(SUBSET Label) /\ Len(Groupings) \in Nat
        /\ DOMAIN Groupings = 1..Len(Groupings)
        /\ \A i \in DOMAIN Groupings : IsFiniteSet(Groupings[i])
    BY RowsAssumption, LenProperties
  <1> DEFINE all == {Groupings[i] : i \in 1..Len(Groupings)}
  <1>2. IsFiniteSet(1..Len(Groupings))
    BY <1>1, FS_Interval
  <1>3. IsFiniteSet(all)
    <2>1. Groupings \in Surjection(1..Len(Groupings), all)
      <3>1. Groupings \in [1..Len(Groupings) -> all]
        BY <1>1
      <3>2. \A g \in all : \E i \in 1..Len(Groupings) : Groupings[i] = g
        OBVIOUS
      <3> QED
        BY <3>1, <3>2 DEF Surjection
    <2> QED
      BY <1>2, <2>1, FS_Surjection
  <1>4. \A s \in all : IsFiniteSet(s)
    BY <1>1
  <1>5. IsFiniteSet(UNION all)
    BY <1>3, <1>4, FS_UNION
  <1>6. Label = UNION all
    BY <1>1 DEF Label
  <1> QED
    BY <1>1, <1>5, <1>6 DEF Label

---------------------------------------------------------------------------
(* The order.                                                              *)

\* A running order: one place for each of some groups.
Ordering(order, labels) ==
  order \in Seq(labels) /\ \A i, j \in 1..Len(order) : order[i] = order[j] => i = j

LEMMA Members ==
  ASSUME NEW A, NEW seq \in Seq(A)
  PROVE  /\ Len(seq) \in Nat /\ DOMAIN seq = 1..Len(seq)
         /\ \A x : x \in ToSet(seq) <=> \E i \in 1..Len(seq) : seq[i] = x
         /\ ToSet(seq) \subseteq A
  BY LenProperties, ElementOfSeq DEF ToSet

\* What survives a refresh: a group that is kept, at no later a place.
LEMMA Survivors ==
  ASSUME NEW A, Ordering(stable, A), NEW sample
  PROVE  /\ Ordering(Retained(sample), A)
         /\ \A l : l \in ToSet(Retained(sample)) <=> l \in ToSet(stable) /\ Kept(l, sample)
         /\ \A i \in 1..Len(stable) : Kept(stable[i], sample) =>
              \E k \in 1..Len(Retained(sample)) : Retained(sample)[k] = stable[i] /\ k <= i
  <1> DEFINE S == {l \in ToSet(stable) : Kept(l, sample)}
             r == Only(stable, S)
  <1>1. stable \in Seq(A) /\ \A i, j \in 1..Len(stable) : stable[i] = stable[j] => i = j
    BY DEF Ordering
  <1>2. \A l : l \in S <=> l \in ToSet(stable) /\ Kept(l, sample)
    OBVIOUS
  <1>3. Retained(sample) = r
    BY DEF Retained
  <1> HIDE DEF S
  <1>4. /\ r \in Seq(A)
        /\ \A k \in 1..Len(r) : r[k] \in S /\ \E i \in 1..Len(stable) : stable[i] = r[k]
        /\ \A i \in 1..Len(stable) : stable[i] \in S =>
              \E k \in 1..Len(r) : r[k] = stable[i] /\ k <= i
    BY <1>1, OnlyElements
  <1>5. \A k, l \in 1..Len(r) : r[k] = r[l] => k = l
    BY <1>1, OnlyInjective
  <1>6. \A i \in 1..Len(stable) : stable[i] \in ToSet(stable)
    BY <1>1, Members
  <1>7. \A l : l \in ToSet(stable) => \E i \in 1..Len(stable) : stable[i] = l
    BY <1>1, Members
  <1>8. \A l : l \in ToSet(r) <=> \E k \in 1..Len(r) : r[k] = l
    BY <1>4, Members
  <1> HIDE DEF r
  <1>9. Ordering(r, A)
    BY <1>4, <1>5 DEF Ordering
  <1>10. \A l : l \in ToSet(r) <=> l \in S
    BY <1>2, <1>4, <1>7, <1>8
  <1>11. \A i \in 1..Len(stable) : Kept(stable[i], sample) =>
              \E k \in 1..Len(r) : r[k] = stable[i] /\ k <= i
    BY <1>2, <1>4, <1>6
  <1> QED
    BY <1>2, <1>3, <1>9, <1>10, <1>11

\* The order a refresh leaves: the survivors, then the newcomers.
LEMMA Reordered ==
  ASSUME NEW A, Ordering(stable, A), NEW sample \in SUBSET A, IsFiniteSet(sample),
         NEW order \in Orders(sample)
  PROVE  /\ Ordering(order, A)
         /\ sample \subseteq ToSet(order)
         /\ \A l \in ToSet(order) : l \in sample \/ l \in ToSet(stable)
         /\ \A l \in ToSet(order) \cap ToSet(stable) : Kept(l, sample)
         /\ \A i \in 1..Len(stable) : Kept(stable[i], sample) =>
              \E k \in 1..Len(order) : order[k] = stable[i] /\ k <= i
         /\ \A a, b \in ToSet(stable) \cap ToSet(order) :
              Before(a, b, stable) => Before(a, b, order)
  <1> DEFINE r == Retained(sample)
             gone == sample \ ToSet(stable)
             S == {l \in ToSet(stable) : Kept(l, sample)}
  <1>1. PICK new \in SetToSeqs(gone) : order = r \o new
    BY DEF Orders
  <1>2. /\ Ordering(r, A)
        /\ \A l : l \in ToSet(r) <=> l \in ToSet(stable) /\ Kept(l, sample)
        /\ \A i \in 1..Len(stable) : Kept(stable[i], sample) =>
              \E k \in 1..Len(r) : r[k] = stable[i] /\ k <= i
    BY Survivors
  <1>3. IsFiniteSet(gone)
    BY FS_Difference
  <1>4. \A a \in S, b \in S : Before(a, b, r) <=> Before(a, b, stable)
    BY OnlyBefore DEF Retained, Ordering
  <1>5. \A l \in ToSet(stable) : Kept(l, sample) => l \in S
    OBVIOUS
  <1>6. gone \subseteq A /\ gone \subseteq sample /\ gone \cap ToSet(stable) = {}
        /\ \A l \in sample : l \in gone \/ l \in ToSet(stable)
    OBVIOUS
  <1> HIDE DEF r, gone, S
  <1>7. /\ new \in Seq(gone)
        /\ \A i, j \in 1..Len(new) : new[i] = new[j] => i = j
        /\ \A x \in gone : \E i \in 1..Len(new) : new[i] = x
    BY <1>3, ListingHasAll
  <1>8. /\ r \in Seq(A) /\ Len(r) \in Nat /\ Len(new) \in Nat /\ DOMAIN r = 1..Len(r)
        /\ new \in Seq(A)
        /\ \A i \in 1..Len(r) : r[i] \in ToSet(r)
        /\ \A x \in ToSet(r) : \E i \in 1..Len(r) : r[i] = x
        /\ \A i \in 1..Len(new) : new[i] \in gone
    <2>1. r \in Seq(A) /\ new \in Seq(gone) /\ new \in Seq(A)
      BY <1>2, <1>7, <1>6 DEF Ordering
    <2> QED
      BY <2>1, Members, ElementOfSeq
  <1>9. /\ order \in Seq(A) /\ Len(order) = Len(r) + Len(new) /\ DOMAIN order = 1..Len(order)
        /\ \A i \in 1..Len(order) : order[i] = IF i <= Len(r) THEN r[i] ELSE new[i - Len(r)]
    BY <1>1, <1>8, ConcatProperties, LenProperties
  <1>10. ASSUME NEW k \in 1..Len(order)
         PROVE  \/ k \in 1..Len(r) /\ order[k] = r[k] /\ order[k] \in ToSet(r) /\ order[k] \notin gone
                \/ /\ k > Len(r) /\ k - Len(r) \in 1..Len(new)
                   /\ order[k] = new[k - Len(r)] /\ order[k] \in gone /\ order[k] \notin ToSet(r)
    <2>1. k \in Nat /\ (k <= Len(r) => k \in 1..Len(r))
                    /\ (k > Len(r) => k - Len(r) \in 1..Len(new))
      BY <1>8, <1>9
    <2>2. CASE k <= Len(r)
      BY <1>2, <1>6, <1>8, <1>9, <2>1, <2>2
    <2>3. CASE k > Len(r)
      <3>1. order[k] = new[k - Len(r)]
        BY <1>8, <1>9, <2>1, <2>3
      <3> QED
        BY <1>2, <1>6, <1>8, <2>1, <2>3, <3>1
    <2> QED
      BY <1>8, <2>1, <2>2, <2>3
  <1>11. Ordering(order, A)
    <2> SUFFICES ASSUME NEW i \in 1..Len(order), NEW j \in 1..Len(order), order[i] = order[j]
                 PROVE  i = j
      BY <1>9 DEF Ordering
    <2>1. CASE order[i] \in gone
      <3>1. i - Len(r) \in 1..Len(new) /\ j - Len(r) \in 1..Len(new)
            /\ new[i - Len(r)] = new[j - Len(r)]
        BY <1>10, <2>1
      <3>2. i - Len(r) = j - Len(r)
        BY <1>7, <3>1
      <3> QED
        BY <1>8, <1>9, <3>2
    <2>2. CASE order[i] \notin gone
      BY <1>2, <1>10, <2>2 DEF Ordering
    <2> QED
      BY <2>1, <2>2
  <1>12. \A x : x \in ToSet(order) <=> \E i \in 1..Len(order) : order[i] = x
    BY <1>9, Members
  <1>13. \A k \in 1..Len(r) : k \in 1..Len(order) /\ order[k] = r[k]
    BY <1>8, <1>9
  <1>14. \A l \in ToSet(order) : l \in ToSet(r) \/ l \in gone
    BY <1>10, <1>12
  <1>15. \A l \in ToSet(order) \cap ToSet(stable) : Kept(l, sample)
    BY <1>2, <1>6, <1>14
  <1>16. \A l \in sample : l \in ToSet(stable) => l \in ToSet(r)
    BY <1>2 DEF Kept
  <1>17. \A l \in ToSet(r) : l \in ToSet(order)
    BY <1>8, <1>12, <1>13
  <1>18. \A l \in gone : l \in ToSet(order)
    <2> SUFFICES ASSUME NEW k \in 1..Len(new) PROVE new[k] \in ToSet(order)
      BY <1>7
    <2>1. k + Len(r) \in 1..Len(order) /\ ~(k + Len(r) <= Len(r)) /\ (k + Len(r)) - Len(r) = k
      BY <1>8, <1>9
    <2>2. order[k + Len(r)] = new[(k + Len(r)) - Len(r)]
      BY <1>9, <2>1
    <2> QED
      BY <1>12, <2>1, <2>2
  <1>19. sample \subseteq ToSet(order)
    BY <1>6, <1>16, <1>17, <1>18
  <1>20. ASSUME NEW a \in ToSet(stable) \cap ToSet(order), NEW b \in ToSet(stable) \cap ToSet(order),
                Before(a, b, stable)
         PROVE  Before(a, b, order)
    <2>1. Before(a, b, r)
      BY <1>4, <1>5, <1>15, <1>20
    <2> QED
      BY <1>8, <1>9, <1>13, <2>1 DEF Before
  <1>21. \A l \in ToSet(order) : l \in sample \/ l \in ToSet(stable)
    BY <1>2, <1>6, <1>14
  <1>22. \A i \in 1..Len(stable) : Kept(stable[i], sample) =>
              \E k \in 1..Len(order) : order[k] = stable[i] /\ k <= i
    BY <1>2, <1>13
  <1> QED
    BY <1>11, <1>15, <1>19, <1>20, <1>21, <1>22

---------------------------------------------------------------------------
(* The invariant.  Until the rows of a refresh are replaced or the order   *)
(* changed under them they are the head of it; a group that has a place    *)
(* was seen; the ring stands still under the cursor.                       *)

Places == by \in DOMAIN Groupings /\ Ordering(stable, Groupings[by])
SeenTypes == seen \in [Label -> 0..Retention \cup {None}]
PlacesSeen == \A l \in ToSet(stable) : seen[l] \in 0..Retention
LiveRows == shown = "live" => entries = Shown(stable, alive) /\ alive \subseteq ToSet(stable)
RingTypes == entries \in RowSeqs /\ history \in Seq(RowSeqs) /\ Len(history) <= Depth
Cursor == cursor # None => /\ cursor \in DOMAIN history
                           /\ shown = "replay" => entries = history[cursor]
RowsInv == Places /\ SeenTypes /\ PlacesSeen /\ LiveRows /\ RingTypes /\ Cursor

\* The rows of an order are its first labels, as many as --top allows.
LEMMA ShownRows ==
  ASSUME NEW A, NEW order, Ordering(order, A), NEW sample
  PROVE  \E n \in Nat :
           /\ n = IF Top > 0 /\ Top < Len(order) THEN Top ELSE Len(order)
           /\ n <= Len(order) /\ Len(Shown(order, sample)) = n
           /\ Shown(order, sample) = [i \in 1..n |-> Row(order[i], sample)]
           /\ \A l : l \in Labels(Shown(order, sample)) <=> \E i \in 1..n : order[i] = l
  <1> DEFINE n == IF Top > 0 /\ Top < Len(order) THEN Top ELSE Len(order)
             list == [i \in 1..n |-> Row(order[i], sample)]
  <1>1. Len(order) \in Nat
    BY LenProperties DEF Ordering
  <1>2. n \in Nat /\ n <= Len(order)
    BY <1>1, RowsAssumption
  <1>3. Shown(order, sample) = list
    BY DEF Shown
  <1> HIDE DEF n
  <1>4. Len(list) = n /\ DOMAIN list = 1..n /\ \A i \in 1..n : list[i] = Row(order[i], sample)
    BY <1>2
  <1>5. \A i \in 1..n : list[i].label = order[i]
    BY <1>4 DEF Row
  <1> HIDE DEF list
  <1>6. \A l : l \in Labels(list) <=> \E i \in 1..n : order[i] = l
    BY <1>4, <1>5 DEF Labels
  <1> QED
    BY <1>2, <1>3, <1>4, <1>6 DEF n, list

\* They are rows, one for each label.
LEMMA ShownTypes ==
  ASSUME NEW order, Ordering(order, Label), NEW sample
  PROVE  Shown(order, sample) \in RowSeqs
  <1> DEFINE list == Shown(order, sample)
  <1>1. PICK n \in Nat :
           /\ n <= Len(order) /\ Len(list) = n /\ list = [i \in 1..n |-> Row(order[i], sample)]
           /\ \A l : l \in Labels(list) <=> \E i \in 1..n : order[i] = l
    BY ShownRows
  <1> HIDE DEF list
  <1>2. order \in Seq(Label) /\ Len(order) \in Nat /\ \A i \in 1..n : order[i] \in Label
    BY <1>1, LenProperties, ElementOfSeq DEF Ordering
  <1> DEFINE head == [i \in 1..n |-> order[i]]
  <1>3. head \in Seq(Label) /\ Len(head) = n
    BY <1>2
  <1>4. \A i, j \in 1..Len(head) : head[i] = head[j] => i = j
    BY <1>1, <1>2, <1>3 DEF Ordering
  <1>5. IsFiniteSet(ToSet(head)) /\ Cardinality(ToSet(head)) = n
    BY <1>3, <1>4, InjectiveIsListing
  <1>6. ToSet(head) = Labels(list)
    <2>1. \A l : l \in ToSet(head) <=> \E i \in 1..n : order[i] = l
      BY <1>3 DEF ToSet
    <2> QED
      BY <1>1, <2>1
  <1>7. ToSet(head) \subseteq Label
    BY <1>3, Members
  <1>8. n \in 0..Cardinality(Label)
    <2>1. Cardinality(Label) \in Nat /\ Cardinality(ToSet(head)) <= Cardinality(Label)
      BY <1>7, LabelsFinite, FS_Subset, FS_CardinalityType
    <2> QED
      BY <1>5, <2>1
  <1>9. list \in [1..n -> [label : Label, fading : BOOLEAN]]
    BY <1>1, <1>2 DEF Row
  <1> HIDE DEF head
  <1>10. Cardinality(Labels(list)) = Len(list)
    BY <1>1, <1>5, <1>6
  <1> QED
    BY <1>8, <1>9, <1>10 DEF RowSeqs, list

\* The ring keeps the last of the rows that were shown.
LEMMA PushedTypes ==
  ASSUME RingTypes, NEW list \in RowSeqs
  PROVE  Pushed(list) \in Seq(RowSeqs) /\ Len(Pushed(list)) <= Depth
  <1> DEFINE grown == Append(history, list)
  <1>1. history \in Seq(RowSeqs) /\ Len(history) \in Nat /\ Len(history) <= Depth /\ Depth \in Nat \ {0}
    BY RowsAssumption, LenProperties DEF RingTypes
  <1>2. grown \in Seq(RowSeqs) /\ grown # <<>> /\ Len(grown) = Len(history) + 1
    BY <1>1, AppendProperties
  <1>3. Pushed(list) = IF Len(grown) > Depth THEN Tail(grown) ELSE grown
    BY DEF Pushed
  <1> HIDE DEF grown
  <1>4. Tail(grown) \in Seq(RowSeqs) /\ Len(Tail(grown)) = Len(history)
    BY <1>1, <1>2, HeadTailProperties
  <1> QED
    BY <1>1, <1>2, <1>3, <1>4

---------------------------------------------------------------------------
(* The invariant holds.                                                    *)

LEMMA NothingYet ==
  /\ \A A : Ordering(<< >>, A)
  /\ ToSet(<< >>) = {}
  /\ << >> \in RowSeqs
  <1>1. \A A : << >> \in Seq(A)
    OBVIOUS
  <1>2. Len(<< >>) = 0
    OBVIOUS
  <1>3. \A A : Ordering(<< >>, A)
    BY <1>1, <1>2 DEF Ordering
  <1>4. ToSet(<< >>) = {}
    <2>1. DOMAIN << >> = {}
      OBVIOUS
    <2> QED
      BY <2>1 DEF ToSet
  <1>5. Shown(<< >>, {}) = << >>
    <2>1. PICK n \in Nat : n <= 0 /\ Shown(<< >>, {}) = [i \in 1..n |-> Row((<< >>)[i], {})]
      BY <1>2, <1>3, ShownRows
    <2>2. 1..n = {}
      BY <2>1
    <2> QED
      BY <2>1, <2>2
  <1>6. << >> \in RowSeqs
    BY <1>3, <1>5, ShownTypes
  <1> QED
    BY <1>3, <1>4, <1>6

LEMMA RowsInit == Init => RowsInv
  <1> SUFFICES ASSUME Init PROVE RowsInv
    OBVIOUS
  <1>1. by \in DOMAIN Groupings
    <2>1. Len(Groupings) \in Nat /\ Len(Groupings) > 0 /\ DOMAIN Groupings = 1..Len(Groupings)
      BY RowsAssumption, LenProperties
    <2> QED
      BY <2>1 DEF Init
  <1>2. Places /\ PlacesSeen
    BY <1>1, NothingYet DEF Init, Places, PlacesSeen
  <1>3. SeenTypes
    BY DEF Init, SeenTypes
  <1>4. LiveRows /\ Cursor
    BY DEF Init, LiveRows, Cursor
  <1>5. RingTypes
    <2>1. history \in Seq(RowSeqs) /\ Len(history) = 0
      BY DEF Init
    <2> QED
      BY <2>1, NothingYet, RowsAssumption DEF Init, RingTypes
  <1> QED
    BY <1>2, <1>3, <1>4, <1>5 DEF RowsInv

\* A group has a place under its grouping, and a label.
LEMMA PlacesLabelled ==
  ASSUME Places
  PROVE  /\ Ordering(stable, Label) /\ Ordering(stable, Groupings[by])
         /\ Groupings[by] \subseteq Label /\ IsFiniteSet(Groupings[by])
         /\ ToSet(stable) \subseteq Groupings[by]
  <1>1. Groupings[by] \subseteq Label /\ IsFiniteSet(Groupings[by])
    BY LabelsFinite DEF Places
  <1>2. stable \in Seq(Groupings[by])
    BY DEF Places, Ordering
  <1>3. stable \in Seq(Label)
    BY <1>1, <1>2
  <1> QED
    BY <1>1, <1>2, <1>3, Members DEF Places, Ordering

LEMMA RefreshRowsInv ==
  ASSUME RowsInv, NEW sample \in SUBSET Groupings[by], Refresh(sample)
  PROVE  RowsInv'
  <1>1. /\ Ordering(stable, Groupings[by]) /\ IsFiniteSet(sample)
        /\ Groupings[by] \subseteq Label
    BY PlacesLabelled, FS_Subset DEF RowsInv
  <1>2. stable' \in Orders(sample)
    BY DEF Refresh
  <1>3. /\ Ordering(stable', Groupings[by])
        /\ sample \subseteq ToSet(stable')
        /\ \A l \in ToSet(stable') : l \in sample \/ l \in ToSet(stable)
    BY <1>1, <1>2, Reordered
  <1>4. Places'
    BY <1>3 DEF Refresh, RowsInv, Places
  <1>5. Ordering(stable', Label)
    BY <1>4, LabelsFinite DEF Places, Ordering
  <1>6. SeenTypes'
    BY RowsAssumption DEF Refresh, Seen, RowsInv, SeenTypes
  <1>7. PlacesSeen'
    <2> SUFFICES ASSUME NEW l \in ToSet(stable') PROVE seen'[l] \in 0..Retention
      BY DEF PlacesSeen
    <2>1. l \in Label
      BY <1>5, Members DEF Ordering
    <2>2. seen'[l] = IF l \in sample THEN 0 ELSE seen[l]
      BY <2>1 DEF Refresh, Seen
    <2> QED
      BY <1>3, <2>2, RowsAssumption DEF RowsInv, PlacesSeen
  <1>8. LiveRows'
    BY <1>3 DEF Refresh, LiveRows, Shown
  <1>9. entries' \in RowSeqs
    BY <1>5, ShownTypes DEF Refresh
  <1>10. RingTypes'
    BY <1>9, PushedTypes DEF Refresh, RingTypes, RowsInv
  <1>11. Cursor'
    BY DEF Refresh, Cursor
  <1> QED
    BY <1>4, <1>6, <1>7, <1>8, <1>10, <1>11 DEF RowsInv

LEMMA SortKeyInv == ASSUME RowsInv, SortKey PROVE RowsInv'
  <1> DEFINE S == ToSet(stable)
  <1>1. stable \in Seq(Groupings[by]) /\ Ordering(stable, Groupings[by])
    BY DEF RowsInv, Places, Ordering
  <1>2. IsFiniteSet(S) /\ S \subseteq Groupings[by]
    BY <1>1, InjectiveIsListing, Members DEF Ordering
  <1>3. stable' \in SetToSeqs(S)
    BY DEF SortKey
  <1> HIDE DEF S
  <1>4. stable' \in Seq(S) /\ \A i, j \in 1..Len(stable') : stable'[i] = stable'[j] => i = j
    BY <1>2, <1>3, ListingHasAll
  <1>5. ToSet(stable') \subseteq S
    BY <1>4, Members
  <1>6. stable' \in Seq(Groupings[by])
    BY <1>2, <1>4
  <1>7. Places'
    BY <1>4, <1>6 DEF SortKey, RowsInv, Places, Ordering
  <1>8. PlacesSeen'
    BY <1>5 DEF SortKey, RowsInv, PlacesSeen, S
  <1>9. shown' # "live" /\ (shown' = "replay" => shown = "replay")
    BY DEF SortKey
  <1> QED
    BY <1>7, <1>8, <1>9 DEF SortKey, RowsInv, SeenTypes, LiveRows, RingTypes, Cursor

LEMMA PauseKeyInv == ASSUME RowsInv, PauseKey PROVE RowsInv'
  <1>1. Len(history) \in Nat /\ DOMAIN history = 1..Len(history)
    BY LenProperties DEF RowsInv, RingTypes
  <1>2. history # << >> => Len(history) \in DOMAIN history
    BY <1>1, EmptySeq DEF RowsInv, RingTypes
  <1>3. shown' # "replay" /\ (shown' = "live" => shown = "live")
    BY DEF PauseKey
  <1>4. Cursor'
    BY <1>2, <1>3 DEF PauseKey, Cursor
  <1>5. LiveRows'
    BY <1>3 DEF PauseKey, RowsInv, LiveRows, Shown, Row
  <1> QED
    BY <1>4, <1>5 DEF PauseKey, RowsInv, Places, Ordering, SeenTypes, PlacesSeen, RingTypes

LEMMA RowsNext == RowsInv /\ [Next]_vars => RowsInv'
  <1> SUFFICES ASSUME RowsInv, [Next]_vars PROVE RowsInv'
    OBVIOUS
  <1>1. ASSUME NEW sample \in SUBSET Groupings[by], Refresh(sample) PROVE RowsInv'
    BY <1>1, RefreshRowsInv
  <1>2. CASE RefreshFails
    <2>1. RingTypes'
      BY <1>2, PushedTypes DEF RefreshFails, RowsInv, RingTypes
    <2>2. Cursor'
      BY <1>2 DEF RefreshFails, Cursor
    <2>3. Places' /\ SeenTypes' /\ PlacesSeen' /\ LiveRows'
      BY <1>2 DEF RefreshFails, RowsInv, Places, SeenTypes, PlacesSeen, LiveRows
    <2> QED
      BY <2>1, <2>2, <2>3 DEF RowsInv
  <1>3. CASE Tick
    <2>1. \A l \in Label : /\ seen'[l] \in 0..Retention \cup {None}
                           /\ seen[l] \in 0..Retention => seen'[l] \in 0..Retention
      <3> SUFFICES ASSUME NEW l \in Label
                   PROVE  /\ seen'[l] \in 0..Retention \cup {None}
                          /\ seen[l] \in 0..Retention => seen'[l] \in 0..Retention
        OBVIOUS
      <3>1. seen[l] \in 0..Retention \cup {None}
        BY DEF RowsInv, SeenTypes
      <3>2. seen'[l] = IF seen[l] \in {None, Retention} THEN seen[l] ELSE seen[l] + 1
        BY <1>3 DEF Tick
      <3> QED
        BY <3>1, <3>2, RowsAssumption
    <2>2. SeenTypes'
      BY <1>3, <2>1 DEF Tick, SeenTypes
    <2>3. PlacesSeen'
      BY <1>3, <2>1, PlacesLabelled DEF Tick, RowsInv, PlacesSeen
    <2>4. Places' /\ LiveRows' /\ RingTypes' /\ Cursor'
      BY <1>3 DEF Tick, RowsInv, Places, LiveRows, RingTypes, Cursor
    <2> QED
      BY <2>2, <2>3, <2>4 DEF RowsInv
  <1>4. CASE GroupKey
    <2>1. by' \in DOMAIN Groupings
      <3>1. Len(Groupings) \in Nat /\ Len(Groupings) > 0 /\ DOMAIN Groupings = 1..Len(Groupings)
        BY RowsAssumption, LenProperties
      <3> QED
        BY <1>4, <3>1 DEF GroupKey, NextBy, RowsInv, Places
    <2>2. Places' /\ PlacesSeen'
      BY <1>4, <2>1, NothingYet DEF GroupKey, Places, PlacesSeen
    <2>3. SeenTypes' /\ RingTypes' /\ LiveRows' /\ Cursor'
      BY <1>4, NothingYet DEF GroupKey, RowsInv, SeenTypes, RingTypes, LiveRows, Cursor
    <2> QED
      BY <2>2, <2>3 DEF RowsInv
  <1>5. CASE SortKey
    BY <1>5, SortKeyInv
  <1>6. CASE PauseKey
    BY <1>6, PauseKeyInv
  <1>7. ASSUME NEW to \in 1..Depth, Scrub(to) PROVE RowsInv'
    <2>1. history[to] \in RowSeqs
      BY <1>7, ElementOfSeq, LenProperties DEF Scrub, RowsInv, RingTypes
    <2>2. RingTypes' /\ Cursor' /\ LiveRows'
      BY <1>7, <2>1 DEF Scrub, RowsInv, RingTypes, Cursor, LiveRows
    <2>3. Places' /\ SeenTypes' /\ PlacesSeen'
      BY <1>7 DEF Scrub, RowsInv, Places, SeenTypes, PlacesSeen
    <2> QED
      BY <2>2, <2>3 DEF RowsInv
  <1>8. CASE UNCHANGED vars
    BY <1>8 DEF vars, RowsInv, Places, SeenTypes, PlacesSeen, LiveRows, RingTypes, Cursor
  <1> QED
    BY <1>1, <1>2, <1>3, <1>4, <1>5, <1>6, <1>7, <1>8 DEF Next

LEMMA RowsInvariant == Spec => []RowsInv
  BY RowsInit, RowsNext, PTL DEF Spec

---------------------------------------------------------------------------
(* What follows from it.                                                   *)

\* No group has two places nor two rows, every place is of a group of the
\* grouping in force, and the ring stays within its depth.
THEOREM RowTypes == Spec => []TypeOK
  <1>1. RowsInv => TypeOK
    <2> SUFFICES ASSUME RowsInv PROVE TypeOK
      OBVIOUS
    <2>1. stable \in Seq(Groupings[by]) /\ DOMAIN stable = 1..Len(stable)
      BY LenProperties DEF RowsInv, Places, Ordering
    <2>2. IsInjective(stable) /\ ToSet(stable) \subseteq Groupings[by]
      BY <2>1, Members DEF RowsInv, Places, Ordering, IsInjective
    <2>3. cursor \in 1..Depth \cup {None}
      <3>1. Len(history) \in Nat /\ DOMAIN history = 1..Len(history) /\ Len(history) <= Depth
        BY LenProperties DEF RowsInv, RingTypes
      <3> QED
        BY <3>1, RowsAssumption DEF RowsInv, Cursor
    <2> QED
      BY <2>2, <2>3 DEF RowsInv, Places, SeenTypes, RingTypes, TypeOK
  <1> QED
    BY <1>1, RowsInvariant, PTL

\* Right after a refresh no live group is shown fading nor a dead one alive, and
\* each has its row while --top allows; a paused screen shows what is under the
\* cursor.
THEOREM RowsAreTrue == Spec => []RowsTrue
  <1>1. RowsInv => RowsTrue
    <2> SUFFICES ASSUME RowsInv PROVE RowsTrue
      OBVIOUS
    <2>1. ASSUME shown = "live"
          PROVE  /\ \A i \in DOMAIN entries : entries[i].fading <=> entries[i].label \notin alive
                 /\ Top = 0 \/ Len(stable) <= Top => alive \subseteq Labels(entries)
      <3>1. entries = Shown(stable, alive) /\ alive \subseteq ToSet(stable)
        BY <2>1 DEF RowsInv, LiveRows
      <3>2. Ordering(stable, Label)
        BY PlacesLabelled DEF RowsInv
      <3>3. PICK n \in Nat :
              /\ n = IF Top > 0 /\ Top < Len(stable) THEN Top ELSE Len(stable)
              /\ entries = [i \in 1..n |-> Row(stable[i], alive)]
              /\ \A l : l \in Labels(entries) <=> \E i \in 1..n : stable[i] = l
        BY <3>1, <3>2, ShownRows
      <3>4. \A i \in DOMAIN entries : entries[i].fading <=> entries[i].label \notin alive
        BY <3>3 DEF Row
      <3>5. ASSUME Top = 0 \/ Len(stable) <= Top PROVE alive \subseteq Labels(entries)
        <4>1. Len(stable) \in Nat /\ \A l \in ToSet(stable) : \E i \in 1..Len(stable) : stable[i] = l
          BY <3>2, Members DEF Ordering
        <4>2. n = Len(stable)
          BY <3>3, <3>5, <4>1, RowsAssumption
        <4> QED
          BY <3>1, <3>3, <4>1, <4>2
      <3> QED
        BY <3>4, <3>5
    <2> QED
      BY <2>1 DEF RowsInv, Cursor, RowsTrue
  <1> QED
    BY <1>1, RowsInvariant, PTL

\* A refresh swaps no two places, and takes no row from the screen of which the
\* group was not gone for the whole retention.
THEOREM PlacesAreKept == Spec => PlacesKept
  <1> DEFINE Keeping ==
        (\E sample \in SUBSET Groupings[by] : Refresh(sample)) =>
          /\ \A a, b \in ToSet(stable) \cap ToSet(stable') :
               Before(a, b, stable) => Before(a, b, stable')
          /\ shown = "live" =>
               \A l \in Labels(entries) \ Labels(entries') : seen'[l] = Retention
  <1>1. RowsInv /\ [Next]_vars => [Keeping]_vars
    <2> SUFFICES ASSUME RowsInv, RowsInv', NEW sample \in SUBSET Groupings[by], Refresh(sample)
                 PROVE  /\ \A a, b \in ToSet(stable) \cap ToSet(stable') :
                             Before(a, b, stable) => Before(a, b, stable')
                        /\ shown = "live" =>
                             \A l \in Labels(entries) \ Labels(entries') : seen'[l] = Retention
      BY RowsNext
    <2>1. Ordering(stable, Label) /\ Ordering(stable, Groupings[by]) /\ IsFiniteSet(sample)
      BY PlacesLabelled, FS_Subset DEF RowsInv
    <2>2. stable' \in Orders(sample) /\ entries' = Shown(stable', sample)
      BY DEF Refresh
    <2>3. /\ Ordering(stable', Groupings[by])
          /\ \A i \in 1..Len(stable) : Kept(stable[i], sample) =>
                \E k \in 1..Len(stable') : stable'[k] = stable[i] /\ k <= i
          /\ \A a, b \in ToSet(stable) \cap ToSet(stable') :
                Before(a, b, stable) => Before(a, b, stable')
      BY <2>1, <2>2, Reordered
    <2>4. ASSUME shown = "live", NEW l \in Labels(entries) \ Labels(entries')
          PROVE  seen'[l] = Retention
      <3>1. entries = Shown(stable, alive)
        BY <2>4 DEF RowsInv, LiveRows
      <3>2. PICK n \in Nat :
              /\ n = IF Top > 0 /\ Top < Len(stable) THEN Top ELSE Len(stable)
              /\ n <= Len(stable)
              /\ \A x : x \in Labels(entries) <=> \E i \in 1..n : stable[i] = x
        BY <2>1, <3>1, ShownRows
      <3>3. PICK m \in Nat :
              /\ m = IF Top > 0 /\ Top < Len(stable') THEN Top ELSE Len(stable')
              /\ \A x : x \in Labels(entries') <=> \E i \in 1..m : stable'[i] = x
        BY <2>2, <2>3, ShownRows
      <3>4. Len(stable) \in Nat /\ Len(stable') \in Nat
        BY <2>1, <2>3, LenProperties DEF Ordering
      <3>5. PICK i \in 1..n : stable[i] = l
        BY <3>2
      <3>6. i \in 1..Len(stable) /\ (Top > 0 => i <= Top)
        BY <3>2, <3>4, RowsAssumption
      <3>7. ~Kept(l, sample)
        <4> SUFFICES ASSUME Kept(l, sample) PROVE FALSE
          OBVIOUS
        <4>1. PICK k \in 1..Len(stable') : stable'[k] = l /\ k <= i
          BY <2>3, <3>5, <3>6
        <4>2. k \in 1..m
          BY <3>3, <3>4, <3>6, <4>1, RowsAssumption
        <4> QED
          BY <2>4, <3>3, <4>1, <4>2
      <3>8. l \in ToSet(stable) /\ l \in Label
        BY <2>1, <3>5, <3>6, Members DEF Ordering
      <3>9. seen[l] \in 0..Retention
        BY <3>8 DEF RowsInv, PlacesSeen
      <3>10. seen'[l] = seen[l]
        BY <3>7, <3>8 DEF Refresh, Seen, Kept
      <3> QED
        BY <3>7, <3>9, <3>10, RowsAssumption DEF Kept
    <2> QED
      BY <2>3, <2>4
  <1> QED
    BY <1>1, RowsInvariant, PTL DEF Spec, PlacesKept

---------------------------------------------------------------------------
(* ThreadViews.                                                            *)

\* The snapshot a view of threads keeps is of the group it shows, but for a
\* heat map entered from the fleet face, and but when it shows none.
Records == /\ heat = [basis |-> heat.basis, samples |-> heat.samples]
           /\ detail = [of |-> detail.of, basis |-> detail.basis, samples |-> detail.samples]
MapOwn == view = "Threads" /\ ~drilled /\ heat.basis # None => heat.basis.of = label
DetailOwn == detail.of # None /\ detail.basis # None => detail.basis.of = detail.of
OverlayOwn == \A l \in Groups : over[l].basis # None => over[l].basis.of = l
ThreadsInv == Records /\ MapOwn /\ DetailOwn /\ OverlayOwn

\* Rates against a snapshot of the same group are what threads did since.
LEMMA RatesAreWork ==
  ASSUME NEW b, NEW own, NEW l, NEW io, NEW m, NEW moved,
         b # None => b.of = own,
         m = "DiskRead" => io /\ (b # None => b.io)
  PROVE  RatesSince(b, own, Rates(b, Basis(l, io), m, moved))
  <1> DEFINE now == Basis(l, io)
  <1>1. now.io = io /\ DOMAIN now.tids = ThreadsOf(l) \cap LiveThreads
        /\ \A t \in DOMAIN now.tids : now.tids[t] = thr[t].work
    BY DEF Basis
  <1> HIDE DEF now
  <1> SUFFICES ASSUME NEW t \in DOMAIN now.tids, NEW r, r = Rates(b, now, m, moved)[t], r # 0
               PROVE  b # None /\ b.of = own /\ (t \in DOMAIN b.tids => r = thr[t].work - b.tids[t])
    BY DEF RatesSince, Rates, now
  <1>2. b # None /\ r = Minus(Count(now, t, m), Count(b, t, m))
    BY DEF Rates
  <1>3. r = Count(now, t, m) - Count(b, t, m)
    BY <1>2 DEF Minus
  <1>4. Count(now, t, m) = thr[t].work
    BY <1>1 DEF Count
  <1>5. t \in DOMAIN b.tids => Count(b, t, m) = b.tids[t]
    BY <1>2 DEF Count
  <1> QED
    BY <1>2, <1>3, <1>4, <1>5

\* Nothing shown, nothing claimed; nor without a snapshot to compare with.
LEMMA NothingShown == \A b, own : RatesSince(b, own, NoThreads)
  <1>1. DOMAIN NoThreads = {}
    BY DEF NoThreads
  <1> QED
    BY <1>1 DEF RatesSince

LEMMA ThreadsStart == ThreadsInit => ThreadsInv
  BY DEF ThreadsInit, Closed, ThreadsInv, Records, MapOwn, DetailOwn, OverlayOwn, NoHeat, NoSeries

LEMMA BasisOf == \A l, io : Basis(l, io).of = l
  BY DEF Basis

\* What a step may do to each of the three.
MapStep == heat' # heat => RatesSince(heat.basis, label, heat'.samples)
DetailStep == detail' # detail => RatesSince(detail.basis, detail'.of, detail'.samples)
OverlayStep ==
  \A l \in Groups :
    (over'[l].basis # over[l].basis /\ over'[l].vals # None /\ over'[l].vals # over[l].vals
       /\ (metric = "DiskRead" /\ over[l].basis # None => over[l].basis.io)) =>
    RatesSince(over[l].basis, l, over'[l].vals.of)

LEMMA HeatMapStep ==
  ASSUME ThreadsInv, NEW moved, HeatMap(moved), UNCHANGED screen
  PROVE  MapStep /\ MapOwn' /\ heat' = [basis |-> heat'.basis, samples |-> heat'.samples]
  <1> DEFINE now == Basis(label, TRUE)
             rates == Rates(heat.basis, now, "Cpu", moved)
             read == IF view # "Threads" \/ ThreadsOf(label) = {} THEN heat
                     ELSE [basis |-> now, samples |-> rates]
  <1>1. now.of = label
    BY BasisOf
  <1>2. view = "Threads" /\ ~drilled => RatesSince(heat.basis, label, rates)
    <2> SUFFICES ASSUME view = "Threads" /\ ~drilled PROVE RatesSince(heat.basis, label, rates)
      OBVIOUS
    <2>1. heat.basis # None => heat.basis.of = label
      BY DEF ThreadsInv, MapOwn
    <2>2. "Cpu" = "DiskRead" => TRUE /\ (heat.basis # None => heat.basis.io)
      OBVIOUS
    <2> QED
      BY <2>1, <2>2, RatesAreWork
  <1>3. heat' = IF drilled THEN [read EXCEPT !.samples = NoThreads] ELSE read
    BY DEF HeatMap
  <1>4. view' = view /\ label' = label /\ drilled' = drilled
    BY DEF screen
  <1>5. heat = [basis |-> heat.basis, samples |-> heat.samples]
        /\ (view = "Threads" /\ ~drilled /\ heat.basis # None => heat.basis.of = label)
    BY DEF ThreadsInv, Records, MapOwn
  <1>6. RatesSince(heat.basis, label, NoThreads)
    BY NothingShown
  <1> HIDE DEF now, rates
  <1>7. CASE drilled
    <2>1. heat' = [basis |-> heat'.basis, samples |-> NoThreads] /\ heat'.samples = NoThreads
      BY <1>3, <1>5, <1>7
    <2> QED
      BY <1>4, <1>6, <1>7, <2>1 DEF MapStep, MapOwn
  <1>8. CASE ~drilled
    <2>1. \/ heat' = heat
          \/ view = "Threads" /\ heat' = [basis |-> now, samples |-> rates]
      BY <1>3, <1>8
    <2> QED
      BY <1>1, <1>2, <1>4, <1>5, <1>8, <2>1 DEF MapStep, MapOwn
  <1> QED
    BY <1>7, <1>8

LEMMA SelectionStep ==
  ASSUME ThreadsInv, NEW l, NEW moved, Detail(l, moved)
  PROVE  /\ DetailStep /\ DetailOwn'
         /\ detail' = [of |-> detail'.of, basis |-> detail'.basis, samples |-> detail'.samples]
  <1> DEFINE b == IF detail.of = l THEN detail.basis ELSE None
             now == Basis(l, TRUE)
             rates == Rates(b, now, "Cpu", moved)
  <1>1. now.of = l
    BY BasisOf
  <1>2. detail = [of |-> detail.of, basis |-> detail.basis, samples |-> detail.samples]
        /\ (detail.of # None /\ detail.basis # None => detail.basis.of = detail.of)
    BY DEF ThreadsInv, Records, DetailOwn
  <1>3. l # None /\ b # None => b = detail.basis /\ b.of = l
    BY <1>2
  <1>4. l # None => RatesSince(b, l, rates)
    <2> SUFFICES ASSUME l # None PROVE RatesSince(b, l, rates)
      OBVIOUS
    <2>1. b # None => b.of = l
      BY <1>3
    <2>2. "Cpu" = "DiskRead" => TRUE /\ (b # None => b.io)
      OBVIOUS
    <2> HIDE DEF b
    <2> QED
      BY <2>1, <2>2, RatesAreWork
  <1>5. \A x : RatesSince(detail.basis, x, NoThreads)
    BY NothingShown
  <1>6. detail' = IF l = None THEN [detail EXCEPT !.of = None, !.samples = NoThreads]
                  ELSE IF ThreadsOf(l) = {} THEN [of |-> l, basis |-> b, samples |-> NoThreads]
                  ELSE [of |-> l, basis |-> now, samples |-> rates]
    BY DEF Detail
  <1>7. l # None => RatesSince(detail.basis, l, rates)
    <2> SUFFICES ASSUME l # None, b = None PROVE RatesSince(detail.basis, l, rates)
      BY <1>3, <1>4
    <2>1. \A t \in DOMAIN rates : rates[t] = 0
      BY DEF Rates
    <2> QED
      BY <2>1 DEF RatesSince
  <1> HIDE DEF b, now, rates
  <1>8. CASE l = None
    <2>1. detail' = [of |-> None, basis |-> detail.basis, samples |-> NoThreads]
      BY <1>2, <1>6, <1>8
    <2> QED
      BY <1>5, <2>1 DEF DetailStep, DetailOwn
  <1>9. CASE l # None /\ ThreadsOf(l) = {}
    <2>1. detail' = [of |-> l, basis |-> b, samples |-> NoThreads]
      BY <1>6, <1>9
    <2> QED
      BY <1>3, <1>5, <1>9, <2>1 DEF DetailStep, DetailOwn
  <1>10. CASE l # None /\ ThreadsOf(l) # {}
    <2>1. detail' = [of |-> l, basis |-> now, samples |-> rates]
      BY <1>6, <1>10
    <2> QED
      BY <1>1, <1>7, <1>10, <2>1 DEF DetailStep, DetailOwn
  <1> QED
    BY <1>8, <1>9, <1>10

LEMMA HistogramsStep ==
  ASSUME ThreadsInv, Histograms
  PROVE  OverlayStep /\ OverlayOwn'
  <1>1. PICK visible, moved :
          over' = [l \in Groups |-> IF l \in visible THEN Series(l, moved) ELSE NoSeries]
    BY DEF Histograms
  <1> SUFFICES ASSUME NEW l \in Groups
               PROVE  /\ over'[l].basis # None => over'[l].basis.of = l
                      /\ (over'[l].basis # over[l].basis /\ over'[l].vals # None /\ over'[l].vals # over[l].vals
                            /\ (metric = "DiskRead" /\ over[l].basis # None => over[l].basis.io)) =>
                         RatesSince(over[l].basis, l, over'[l].vals.of)
    BY DEF OverlayStep, OverlayOwn
  <1>2. CASE l \notin visible
    BY <1>1, <1>2 DEF NoSeries
  <1>3. CASE l \in visible
    <2> DEFINE now == Basis(l, metric = "DiskRead")
               rates == Rates(over[l].basis, now, metric, moved)
    <2>1. over'[l] = [basis |-> now,
                      vals |-> IF DOMAIN rates = {} THEN over[l].vals ELSE [metric |-> metric, of |-> rates]]
      BY <1>1, <1>3 DEF Series
    <2>2. now.of = l
      BY BasisOf
    <2>3. over[l].basis # None => over[l].basis.of = l
      BY DEF ThreadsInv, OverlayOwn
    <2>4. (metric = "DiskRead" /\ over[l].basis # None => over[l].basis.io) =>
            RatesSince(over[l].basis, l, rates)
      BY <2>3, RatesAreWork
    <2> HIDE DEF now, rates
    <2>5. over'[l].basis = now /\ (over'[l].vals # over[l].vals => over'[l].vals.of = rates)
      BY <2>1
    <2> QED
      BY <2>2, <2>4, <2>5
  <1> QED
    BY <1>2, <1>3

LEMMA ThreadsStep ==
  ASSUME ThreadsInv, [ThreadsNext]_threadVars
  PROVE  ThreadsInv' /\ MapStep /\ DetailStep /\ OverlayStep
  <1> USE DEF ThreadsInv
  <1>1. ASSUME UNCHANGED heat PROVE MapStep /\ heat' = [basis |-> heat'.basis, samples |-> heat'.samples]
    BY <1>1 DEF MapStep, Records
  <1>2. ASSUME UNCHANGED detail
        PROVE  /\ DetailStep /\ DetailOwn'
               /\ detail' = [of |-> detail'.of, basis |-> detail'.basis, samples |-> detail'.samples]
    BY <1>2 DEF DetailStep, DetailOwn, Records
  <1>3. ASSUME UNCHANGED over PROVE OverlayStep /\ OverlayOwn'
    BY <1>3 DEF OverlayStep, OverlayOwn
  <1>4. ASSUME UNCHANGED <<heat, view, label, drilled>> PROVE MapOwn'
    BY <1>4 DEF MapOwn
  <1>5. ASSUME NEW selection, RefreshThreads(selection)
        PROVE  ThreadsInv' /\ MapStep /\ DetailStep /\ OverlayStep
    <2>1. MapStep /\ MapOwn' /\ heat' = [basis |-> heat'.basis, samples |-> heat'.samples]
      BY <1>5, HeatMapStep DEF RefreshThreads
    <2>2. /\ DetailStep /\ DetailOwn'
          /\ detail' = [of |-> detail'.of, basis |-> detail'.basis, samples |-> detail'.samples]
      BY <1>2, <1>5, SelectionStep DEF RefreshThreads
    <2>3. OverlayStep /\ OverlayOwn'
      BY <1>3, <1>5 DEF RefreshThreads
    <2> QED
      BY <2>1, <2>2, <2>3 DEF Records
  <1>6. ASSUME NEW l, OpenThreads(l) PROVE ThreadsInv' /\ MapStep /\ DetailStep /\ OverlayStep
    <2> DEFINE now == Basis(l, TRUE)
               rates == Rates(None, now, "Cpu", TRUE)
    <2>1. label' = l /\ UNCHANGED <<detail, over>>
      BY <1>6 DEF OpenThreads
    <2>2. \/ heat' = [basis |-> None, samples |-> NoThreads]
          \/ heat' = [basis |-> now, samples |-> rates]
      BY <1>6 DEF OpenThreads, NoHeat
    <2>3. now.of = l
      BY BasisOf
    <2>4. \A b, own : RatesSince(b, own, rates)
      <3>1. \A t \in DOMAIN rates : rates[t] = 0
        BY DEF Rates
      <3> QED
        BY <3>1 DEF RatesSince
    <2>5. \A b, own : RatesSince(b, own, NoThreads)
      BY NothingShown
    <2> HIDE DEF now, rates
    <2>6. MapStep
      BY <2>2, <2>4, <2>5 DEF MapStep
    <2>7. MapOwn' /\ heat' = [basis |-> heat'.basis, samples |-> heat'.samples]
      BY <2>1, <2>2, <2>3 DEF MapOwn
    <2> QED
      BY <1>2, <1>3, <2>1, <2>6, <2>7 DEF Records
  <1>7. ASSUME heat' = [basis |-> heat'.basis, samples |-> NoThreads], view' # "Threads" \/ drilled',
               UNCHANGED <<detail, over>>
        PROVE  ThreadsInv' /\ MapStep /\ DetailStep /\ OverlayStep
    <2>1. heat'.samples = NoThreads
      BY <1>7
    <2>2. MapStep
      BY <2>1, NothingShown DEF MapStep
    <2>3. MapOwn'
      BY <1>7 DEF MapOwn
    <2> QED
      BY <1>2, <1>3, <1>7, <2>1, <2>2, <2>3 DEF Records
  <1>8. ASSUME NEW l, OpenFromFace(l) PROVE ThreadsInv' /\ MapStep /\ DetailStep /\ OverlayStep
    <2>1. heat' = [basis |-> heat'.basis, samples |-> NoThreads]
      BY <1>8 DEF OpenFromFace, Records
    <2>2. drilled' /\ UNCHANGED <<detail, over>>
      BY <1>8 DEF OpenFromFace, Show
    <2> QED
      BY <1>7, <2>1, <2>2
  <1>9. CASE Esc
    <2>1. heat' = [basis |-> heat'.basis, samples |-> NoThreads]
      BY <1>9 DEF Esc
    <2>2. view' # "Threads" /\ UNCHANGED <<detail, over>>
      BY <1>9 DEF Esc, Show
    <2> QED
      BY <1>7, <2>1, <2>2
  <1>10. CASE Switch
    <2>1. view' # "Threads" /\ UNCHANGED <<heat, detail, over>>
      BY <1>10 DEF Switch, Show
    <2>2. MapOwn'
      BY <2>1 DEF MapOwn
    <2> QED
      BY <1>1, <1>2, <1>3, <2>1, <2>2 DEF Records
  <1>11. CASE Histograms
    <2>1. UNCHANGED <<heat, detail, view, label, drilled>>
      BY <1>11 DEF Histograms, screen
    <2> QED
      BY <1>1, <1>2, <1>4, <1>11, <2>1, HistogramsStep DEF Records
  <1>12. ASSUME UNCHANGED <<heat, detail, over, view, label, drilled>>
         PROVE  ThreadsInv' /\ MapStep /\ DetailStep /\ OverlayStep
    BY <1>1, <1>2, <1>3, <1>4, <1>12 DEF Records
  <1>13. CASE Threads \/ Regroup \/ Metric \/ UNCHANGED threadVars
    BY <1>12, <1>13 DEF Threads, Machine, Regroup, Metric, threadVars, screen
  <1>14. CASE Shared
    BY <1>10, <1>13, <1>14 DEF Shared
  <1>15. CASE MapPart
    BY <1>5, <1>6, <1>8, <1>9, <1>14, <1>15 DEF MapPart
  <1>16. CASE DetailPart
    BY <1>5, <1>14, <1>16 DEF DetailPart
  <1>17. CASE OverlayPart
    BY <1>5, <1>11, <1>13, <1>17 DEF OverlayPart
  <1> QED
    BY <1>13, <1>15, <1>16, <1>17 DEF ThreadsNext

\* A thread shows what it did since the group on the screen was last read, in
\* each of the three views, whatever is selected, left and come back to.
THEOREM ThreadsShowOwnWork == ThreadsSpec => ThreadRates
  <1>1. ThreadsInit => ThreadsInv
    BY ThreadsStart
  <1>2. ThreadsInv /\ [ThreadsNext]_threadVars => ThreadsInv'
    BY ThreadsStep
  <1>3. ThreadsInv /\ [ThreadsNext]_threadVars => MapStep /\ DetailStep /\ OverlayStep
    BY ThreadsStep
  <1> QED
    BY <1>1, <1>2, <1>3, PTL DEF ThreadsSpec, ThreadRates, MapStep, DetailStep, OverlayStep

---------------------------------------------------------------------------
(* LocalSampling.                                                          *)

\* The snapshot is of the grouping in force; a file that was read says what
\* was done, and a process that is still there has done no less.
ProcTypes == procs \in [Pids -> {None} \cup [kind : Kinds, cpu : Nat, io : Nat]]
Recorded(p, r) ==
  /\ r.cpu \in Nat /\ r.io \in Nat /\ r.did \in Nat
  /\ r.how = "Ok" => r.io = r.did
  /\ p \in Live => procs[p].io >= r.did
SnapTrue ==
  snap # None => /\ snap.by = groupBy
                 /\ DOMAIN snap.reads \subseteq Pids
                 /\ \A p \in DOMAIN snap.reads : Recorded(p, snap.reads[p])
SamplingInv == ProcTypes /\ SnapTrue

LEMMA SamplingStart == SamplingInit => SamplingInv
  BY DEF SamplingInit, SamplingInv, ProcTypes, SnapTrue

\* The counters of the processes that live on do not fall.
LEMMA ProcsStep ==
  ASSUME SamplingInv, UNCHANGED <<groupBy, snap>>, ProcTypes',
         \A p \in Known : procs'[p] # None => procs[p] # None /\ procs'[p].io >= procs[p].io
  PROVE  SamplingInv'
  <1> SUFFICES ASSUME snap # None, NEW p \in DOMAIN snap.reads
               PROVE  Recorded(p, snap.reads[p])'
    BY DEF SamplingInv, SnapTrue
  <1>1. p \in Pids /\ p \in Known /\ Recorded(p, snap.reads[p])
    BY DEF SamplingInv, SnapTrue, Known
  <1>2. p \in Live' => p \in Live /\ procs'[p].io >= procs[p].io /\ procs[p].io \in Nat /\ procs'[p].io \in Nat
    BY <1>1 DEF Live, SamplingInv, ProcTypes
  <1> QED
    BY <1>1, <1>2 DEF Recorded

LEMMA ProcessKeeps ==
  ASSUME SamplingInv, NEW p \in Pids, Process(p)
  PROVE  SamplingInv'
  <1>1. procs \in [Pids -> {None} \cup [kind : Kinds, cpu : Nat, io : Nat]]
    BY DEF SamplingInv, ProcTypes
  <1>2. UNCHANGED <<groupBy, snap>>
    BY DEF Process, Exit, Work, Start, Become, settings
  <1>3. ASSUME NEW new \in {None} \cup [kind : Kinds, cpu : Nat, io : Nat],
               procs' = [procs EXCEPT ![p] = new],
               p \in Known /\ new # None => procs[p] # None /\ new.io >= procs[p].io
        PROVE  SamplingInv'
    <2>1. ProcTypes'
      BY <1>1, <1>3 DEF ProcTypes
    <2>2. ASSUME NEW q \in Known, procs'[q] # None PROVE procs[q] # None /\ procs'[q].io >= procs[q].io
      <3>0. q \in Pids
        BY DEF Known, SamplingInv, SnapTrue
      <3>1. CASE q = p
        BY <1>1, <1>3, <2>2, <3>1
      <3>2. CASE q # p
        <4>1. procs'[q] = procs[q]
          BY <1>1, <1>3, <3>2
        <4>2. procs[q] \in [kind : Kinds, cpu : Nat, io : Nat]
          BY <1>1, <2>2, <3>0, <4>1
        <4> QED
          BY <2>2, <4>1, <4>2
      <3> QED
        BY <3>1, <3>2
    <2> QED
      BY <1>2, <2>1, <2>2, ProcsStep
  <1>4. CASE Exit(p)
    <2>1. procs' = [procs EXCEPT ![p] = None]
      BY <1>4 DEF Exit
    <2> QED
      BY <1>3, <2>1
  <1>5. CASE Work(p)
    <2>1. PICK cpu \in {0, 1}, io \in {0, 1} :
            procs' = [procs EXCEPT ![p].cpu = @ + cpu, ![p].io = @ + io]
      BY <1>5 DEF Work
    <2>2. procs[p] \in [kind : Kinds, cpu : Nat, io : Nat] /\ procs[p] # None
      BY <1>1, <1>5 DEF Work, Live
    <2> DEFINE new == [kind |-> procs[p].kind, cpu |-> procs[p].cpu + cpu, io |-> procs[p].io + io]
    <2> DEFINE half == [procs[p] EXCEPT !.cpu = @ + cpu]
    <2>a. procs' = [procs EXCEPT ![p] = [half EXCEPT !.io = @ + io]]
      <3>1. procs' = [[procs EXCEPT ![p] = half] EXCEPT ![p].io = @ + io]
        BY <2>1
      <3>2. [procs EXCEPT ![p] = half][p] = half
        BY <1>1
      <3> HIDE DEF half
      <3> QED
        BY <1>1, <3>1, <3>2
    <2>b. [half EXCEPT !.io = @ + io] = new
      <3>1. half = [kind |-> procs[p].kind, cpu |-> procs[p].cpu + cpu, io |-> procs[p].io]
        BY <2>2
      <3> HIDE DEF half
      <3> QED
        BY <3>1
    <2>3. procs' = [procs EXCEPT ![p] = new]
      BY <2>a, <2>b
    <2>4. new \in [kind : Kinds, cpu : Nat, io : Nat] /\ new.io >= procs[p].io
      BY <2>2
    <2> HIDE DEF new
    <2> QED
      BY <1>3, <2>2, <2>3, <2>4
  <1>6. ASSUME NEW k \in Kinds, Start(p, k) PROVE SamplingInv'
    <2>1. p \notin Known /\ procs' = [procs EXCEPT ![p] = [kind |-> k, cpu |-> 0, io |-> 0]]
      BY <1>6 DEF Start
    <2>2. [kind |-> k, cpu |-> 0, io |-> 0] \in [kind : Kinds, cpu : Nat, io : Nat]
      OBVIOUS
    <2> QED
      BY <1>3, <2>1, <2>2
  <1>7. ASSUME NEW k \in Kinds, Become(p, k) PROVE SamplingInv'
    <2>1. procs[p] \in [kind : Kinds, cpu : Nat, io : Nat] /\ procs[p] # None
      BY <1>1, <1>7 DEF Become, Live
    <2> DEFINE new == [kind |-> k, cpu |-> procs[p].cpu, io |-> procs[p].io]
    <2>a. procs' = [procs EXCEPT ![p] = [procs[p] EXCEPT !.kind = k]]
      BY <1>7 DEF Become
    <2>b. [procs[p] EXCEPT !.kind = k] = new
      BY <2>1
    <2>2. procs' = [procs EXCEPT ![p] = new]
      BY <2>a, <2>b
    <2>3. new \in [kind : Kinds, cpu : Nat, io : Nat] /\ new.io >= procs[p].io
      BY <2>1
    <2> HIDE DEF new
    <2> QED
      BY <1>3, <2>1, <2>2, <2>3
  <1> QED
    BY <1>4, <1>5, <1>6, <1>7 DEF Process

\* What a snapshot says of a process.
LEMMA CollectReads ==
  ASSUME ProcTypes, NEW dying
  PROVE  /\ Collect(dying).by = groupBy
         /\ DOMAIN Collect(dying).reads = Live
         /\ \A p \in Live : LET r == Collect(dying).reads[p] IN
              /\ r.kind = procs[p].kind /\ r.cpu = procs[p].cpu /\ r.did = procs[p].io
              /\ r.cpu \in Nat /\ r.did \in Nat
              /\ r.how = "Ok" => r.io = procs[p].io
              /\ r.how # "Ok" => r.io = 0
              /\ needIo => r.how \in {"Gone", "Ok", "Denied"}
  <1>1. \A p \in Live : procs[p] \in [kind : Kinds, cpu : Nat, io : Nat]
    BY DEF ProcTypes, Live
  <1>2. /\ Collect(dying).by = groupBy
        /\ Collect(dying).reads = [p \in Live |-> Reading(p, dying)]
    BY DEF Collect
  <1>3. ASSUME NEW p \in Live, NEW r, r = Reading(p, dying)
        PROVE  /\ r.kind = procs[p].kind /\ r.cpu = procs[p].cpu /\ r.did = procs[p].io
               /\ r.how = "Ok" => r.io = procs[p].io
               /\ r.how # "Ok" => r.io = 0
               /\ needIo => r.how \in {"Gone", "Ok", "Denied"}
    BY <1>3 DEF Reading
  <1> QED
    BY <1>1, <1>2, <1>3

LEMMA SnapshotKeeps ==
  ASSUME SamplingInv, NEW moved, TakeSnapshot(moved), UNCHANGED settings
  PROVE  SamplingInv'
  <1>1. PICK dying : /\ snap' = Collect(dying)
                     /\ procs' = [p \in Pids |-> IF p \in dying THEN None ELSE procs[p]]
    BY DEF TakeSnapshot
  <1>2. procs \in [Pids -> {None} \cup [kind : Kinds, cpu : Nat, io : Nat]]
    BY DEF SamplingInv, ProcTypes
  <1>3. ProcTypes'
    BY <1>1, <1>2 DEF ProcTypes
  <1> DEFINE now == Collect(dying)
  <1>4. /\ now.by = groupBy /\ DOMAIN now.reads = Live
        /\ \A p \in Live : LET r == now.reads[p] IN
             /\ r.did = procs[p].io /\ r.cpu \in Nat /\ r.did \in Nat
             /\ r.how = "Ok" => r.io = procs[p].io
             /\ r.how # "Ok" => r.io = 0
    BY CollectReads DEF SamplingInv
  <1> HIDE DEF now
  <1>5. ASSUME NEW p \in Live
        PROVE  LET r == now.reads[p] IN
                 /\ r.cpu \in Nat /\ r.io \in Nat /\ r.did \in Nat
                 /\ r.how = "Ok" => r.io = r.did
                 /\ p \in Live' => procs'[p].io >= r.did
    <2>1. p \in Pids /\ (p \in Live' => procs'[p] = procs[p])
      BY <1>1 DEF Live
    <2>2. now.reads[p].did = procs[p].io /\ procs[p].io \in Nat
      BY <1>4
    <2>3. now.reads[p].io \in Nat
      BY <1>4, <2>2
    <2> QED
      BY <1>4, <2>1, <2>2, <2>3
  <1>6. Live \subseteq Pids
    BY DEF Live
  <1>7. snap' = now /\ groupBy' = groupBy
    BY <1>1 DEF settings, now
  <1>8. SnapTrue'
    BY <1>4, <1>5, <1>6, <1>7 DEF SnapTrue, Recorded
  <1> QED
    BY <1>3, <1>8 DEF SamplingInv

LEMMA SamplingKeeps ==
  ASSUME SamplingInv, [SamplingNext]_samplingVars
  PROVE  SamplingInv'
  <1>1. CASE RefreshSample
    <2>1. CASE LoseSnapshot
      BY <2>1 DEF LoseSnapshot, SamplingInv, ProcTypes, SnapTrue
    <2> QED
      BY <1>1, <2>1, SnapshotKeeps DEF RefreshSample
  <1>2. CASE UNCHANGED <<procs, groupBy, snap>>
    BY <1>2 DEF SamplingInv, ProcTypes, SnapTrue, Recorded, Live
  <1>3. CASE ChangeGrouping
    BY <1>3 DEF ChangeGrouping, machine, SamplingInv, ProcTypes, SnapTrue
  <1>4. CASE MetricKey \/ UNCHANGED samplingVars
    BY <1>2, <1>4 DEF MetricKey, samplingVars, machine, settings
  <1> QED
    BY <1>1, <1>3, <1>4, ProcessKeeps DEF SamplingNext, Viewer

---------------------------------------------------------------------------
\* e: what f is more than g, where there is a g.
Less(e, W, f, M, g) == e = [p \in W |-> f[p] - IF p \in M THEN g[p] ELSE 0]

\* What is left of the work of some processes when the counters of others that
\* were read before are taken off: no more than they did since, and just that
\* if all that were read are among them.
LEMMA WorkSince ==
  ASSUME NEW S, IsFiniteSet(S), NEW W \in SUBSET S, NEW M \in SUBSET S,
         NEW f \in [W -> Int], NEW g \in [M -> Nat],
         NEW e, Less(e, W, f, M, g)
  PROVE  /\ SumFunction(e) \in Int /\ SumFunction(f) \in Int /\ SumFunction(g) \in Nat
         /\ SumFunction(f) - SumFunction(g) <= SumFunction(e)
         /\ M \subseteq W => SumFunction(e) = SumFunction(f) - SumFunction(g)
  <1> DEFINE both == W \cap M
  <1> SUFFICES ASSUME NEW h, h = [p \in W |-> IF p \in M THEN g[p] ELSE 0]
               PROVE  /\ SumFunction(e) \in Int /\ SumFunction(f) \in Int /\ SumFunction(g) \in Nat
                      /\ SumFunction(f) - SumFunction(g) <= SumFunction(e)
                      /\ M \subseteq W => SumFunction(e) = SumFunction(f) - SumFunction(g)
    OBVIOUS
  <1>1. IsFiniteSet(W) /\ IsFiniteSet(M)
    BY FS_Subset
  <1>2. h \in [W -> Int] /\ \A p \in W \ both : h[p] = 0
    OBVIOUS
  <1>3. e = [p \in W |-> f[p] - h[p]]
    BY DEF Less
  <1>4. [p \in both |-> h[p]] = [p \in both |-> g[p]]
    OBVIOUS
  <1>5. both \in SUBSET W /\ both \in SUBSET M
    OBVIOUS
  <1>6. M \subseteq W => [p \in both |-> g[p]] = g
    <2>1. M \subseteq W => both = M
      OBVIOUS
    <2>2. [p \in M |-> g[p]] = g
      OBVIOUS
    <2> HIDE DEF both
    <2> QED
      BY <2>1, <2>2
  <1> HIDE DEF both
  <1>7. SumFunction(e) = SumFunction(f) - SumFunction(h)
    BY <1>1, <1>2, <1>3, SumDifference
  <1>8. SumFunction([p \in both |-> h[p]]) = SumFunction(h)
    <2>1. IsFiniteSet(W)
      BY <1>1
    <2>2. h \in [W -> Int]
      BY <1>2
    <2>3. both \in SUBSET W
      BY <1>5
    <2>4. \A p \in W \ both : h[p] = 0
      BY <1>2
    <2> QED
      BY <2>1, <2>2, <2>3, <2>4, SumWithoutZeros
  <1>9. SumFunction([p \in both |-> g[p]]) <= SumFunction(g)
    BY <1>1, <1>5, SumPart
  <1>10. SumFunction(f) \in Int /\ SumFunction(h) \in Int
    BY <1>1, <1>2, SumInt
  <1>11. SumFunction(g) \in Nat
    BY <1>1, SumNat
  <1>12. SumFunction(h) <= SumFunction(g)
    BY <1>4, <1>8, <1>9
  <1>13. M \subseteq W => SumFunction(h) = SumFunction(g)
    BY <1>4, <1>6, <1>8
  <1> QED
    BY <1>7, <1>10, <1>11, <1>12, <1>13

\* The snapshots a row is the difference of.
LEMMA RowOf ==
  ASSUME SamplingInv, RefreshSample, snap # None, snap' # None, NEW l \in DOMAIN rows'
  PROVE  /\ rows'[l] = Delta(snap, snap', l) /\ Cpu(snap', l) > Cpu(snap, l)
         /\ snap'.by = groupBy /\ DOMAIN snap'.reads = Live
         /\ \A p \in Live : LET r == snap'.reads[p] IN
              /\ r.kind = procs[p].kind /\ r.cpu = procs[p].cpu /\ r.did = procs[p].io
              /\ r.cpu \in Nat /\ r.did \in Nat
              /\ r.how = "Ok" => r.io = procs[p].io
              /\ r.how # "Ok" => r.io = 0
              /\ needIo => r.how \in {"Gone", "Ok", "Denied"}
  <1>1. PICK moved \in BOOLEAN : TakeSnapshot(moved)
    BY DEF RefreshSample, LoseSnapshot
  <1>2. PICK dying : /\ snap' = Collect(dying)
                     /\ rows' = Sample(snap, Collect(dying), moved)
    BY <1>1 DEF TakeSnapshot
  <1> DEFINE now == Collect(dying)
  <1>3. /\ now.by = groupBy /\ DOMAIN now.reads = Live
        /\ \A p \in Live : LET r == now.reads[p] IN
             /\ r.kind = procs[p].kind /\ r.cpu = procs[p].cpu /\ r.did = procs[p].io
             /\ r.cpu \in Nat /\ r.did \in Nat
             /\ r.how = "Ok" => r.io = procs[p].io
             /\ r.how # "Ok" => r.io = 0
             /\ needIo => r.how \in {"Gone", "Ok", "Denied"}
    BY CollectReads DEF SamplingInv
  <1>4. snap' = now /\ rows' = Sample(snap, now, moved)
    BY <1>2
  <1> HIDE DEF now
  <1>5. moved
    <2> SUFFICES ASSUME ~moved PROVE FALSE
      OBVIOUS
    <2>1. rows' = NoRows
      BY <1>4 DEF Sample
    <2> QED
      BY <2>1 DEF NoRows
  <1>6. rows' = [x \in {y \in GroupsIn(now) : Cpu(now, y) > Cpu(snap, y)} |-> Delta(snap, now, x)]
    BY <1>4, <1>5 DEF Sample
  <1>7. rows'[l] = Delta(snap, now, l) /\ Cpu(now, l) > Cpu(snap, l)
    BY <1>6
  <1> QED
    BY <1>3, <1>4, <1>7

\* The cpu of a row, and its io where the files of its processes were read.
LEMMA RowAccounts ==
  ASSUME SamplingInv, RefreshSample, snap # None, snap' # None, NEW l \in DOMAIN rows', ~Joined(l),
         NEW who, who = MembersOf(snap', l),
         NEW cpu, cpu = SumFunction([p \in who |-> CpuSince(p)]),
         NEW io, io = SumFunction([p \in who |-> IoSince(p)])
  PROVE  /\ rows'[l].cpu <= cpu
         /\ ~Left(l) => rows'[l].cpu = cpu
         /\ (needIo /\ rows'[l].complete /\ ~OfUnit(snap', l)
               /\ \A p \in who \cap Known : snap.reads[p].how = "Ok") =>
              /\ rows'[l].io <= io
              /\ (~Left(l) /\ \A p \in who : snap'.reads[p].how # "Gone") => rows'[l].io = io
  <1> DEFINE were == MembersOf(snap, l)
             worked == [p \in who |-> snap'.reads[p].cpu]
             cpuRead == [p \in were |-> snap.reads[p].cpu]
             ioRead == [p \in were |-> snap.reads[p].io]
             ioNow == [p \in who |-> snap'.reads[p].io]
             did == [p \in who |-> procs[p].io]
             perCpu == [p \in who |-> CpuSince(p)]
             perIo == [p \in who |-> IoSince(p)]
  <1>1. /\ rows'[l] = Delta(snap, snap', l) /\ Cpu(snap', l) > Cpu(snap, l)
        /\ snap'.by = groupBy /\ DOMAIN snap'.reads = Live
        /\ \A p \in Live : LET r == snap'.reads[p] IN
             /\ r.kind = procs[p].kind /\ r.cpu = procs[p].cpu /\ r.did = procs[p].io
             /\ r.cpu \in Nat /\ r.did \in Nat
             /\ r.how = "Ok" => r.io = procs[p].io
             /\ r.how # "Ok" => r.io = 0
             /\ needIo => r.how \in {"Gone", "Ok", "Denied"}
    BY RowOf
  <1>2. /\ snap.by = groupBy /\ Known = DOMAIN snap.reads /\ Known \subseteq Pids
        /\ \A p \in Known : Recorded(p, snap.reads[p])
    BY DEF SamplingInv, SnapTrue, Known
  <1>3. who \subseteq Live /\ Live \subseteq Pids /\ were \subseteq Known
    BY <1>1, <1>2 DEF MembersOf, Live
  <1>4. \A p \in who : p \in Known <=> p \in were
    BY <1>2 DEF Joined, MembersOf, GroupOf
  <1>5. ~Left(l) => were \subseteq who
    BY <1>2 DEF Left, MembersOf, GroupOf
  <1>6. /\ Cpu(snap', l) = SumFunction(worked) /\ Cpu(snap, l) = SumFunction(cpuRead)
        /\ Io(snap', l) = SumFunction(ioNow) /\ Io(snap, l) = SumFunction(ioRead)
    BY DEF Cpu, Io
  <1>7. cpu = SumFunction(perCpu) /\ io = SumFunction(perIo)
    OBVIOUS
  <1>8. IsFiniteSet(Pids) /\ who \in SUBSET Pids /\ were \in SUBSET Pids
    BY <1>2, <1>3, LocalSamplingAssumption
  <1>9. worked \in [who -> Int] /\ did \in [who -> Int] /\ ioNow \in [who -> Int]
        /\ cpuRead \in [were -> Nat] /\ ioRead \in [were -> Nat]
    <2>1. \A p \in who : /\ snap'.reads[p].cpu \in Nat /\ procs[p].io \in Nat
                          /\ snap'.reads[p].io \in Nat
      BY <1>1, <1>3
    <2>2. \A p \in were : snap.reads[p].cpu \in Nat /\ snap.reads[p].io \in Nat
      BY <1>2, <1>3 DEF Recorded
    <2> HIDE DEF were
    <2> QED
      BY <2>1, <2>2
  <1>10. Less(perCpu, who, worked, were, cpuRead)
    <2>1. ASSUME NEW p \in who
          PROVE  CpuSince(p) = worked[p] - IF p \in were THEN cpuRead[p] ELSE 0
      BY <1>1, <1>3, <1>4 DEF CpuSince, Earlier
    <2> QED
      BY <2>1 DEF Less
  <1>11. ASSUME \A p \in who \cap Known : snap.reads[p].how = "Ok"
         PROVE  /\ Less(perIo, who, did, were, ioRead)
                /\ \A p \in who : IoSince(p) \in Nat
    <2>1. ASSUME NEW p \in who
          PROVE  /\ IoSince(p) = did[p] - IF p \in were THEN ioRead[p] ELSE 0
                 /\ IoSince(p) \in Nat
      <3>1. procs[p].io \in Nat /\ p \in Live
        BY <1>1, <1>3
      <3>2. CASE p \in were
        <4>1. /\ snap.reads[p].how = "Ok" /\ snap.reads[p].io = snap.reads[p].did
              /\ snap.reads[p].did \in Nat /\ procs[p].io >= snap.reads[p].did
          BY <1>2, <1>3, <1>11, <3>1, <3>2 DEF Recorded
        <4>2. Earlier(p) = snap.reads[p]
          BY <1>3, <3>2 DEF Earlier
        <4> QED
          BY <3>1, <3>2, <4>1, <4>2 DEF IoSince
      <3>3. CASE p \notin were
        <4>1. Earlier(p).did = 0
          BY <1>4, <3>3 DEF Earlier
        <4> QED
          BY <3>1, <3>3, <4>1 DEF IoSince
      <3> QED
        BY <3>2, <3>3
    <2> QED
      BY <2>1 DEF Less
  <1> HIDE DEF were, worked, cpuRead, ioRead, ioNow, did, perCpu, perIo
  <1>12. /\ SumFunction(perCpu) \in Int /\ SumFunction(worked) \in Int /\ SumFunction(cpuRead) \in Nat
         /\ SumFunction(worked) - SumFunction(cpuRead) <= SumFunction(perCpu)
         /\ were \subseteq who => SumFunction(perCpu) = SumFunction(worked) - SumFunction(cpuRead)
    <2>1. IsFiniteSet(Pids)
      BY <1>8
    <2>2. who \in SUBSET Pids
      BY <1>8
    <2>3. were \in SUBSET Pids
      BY <1>8
    <2>4. worked \in [who -> Int]
      BY <1>9
    <2>5. cpuRead \in [were -> Nat]
      BY <1>9
    <2> QED
      BY <2>1, <2>2, <2>3, <2>4, <2>5, <1>10, WorkSince
  <1>13. rows'[l].cpu = SumFunction(worked) - SumFunction(cpuRead)
    <2>1. rows'[l].cpu = Minus(Cpu(snap', l), Cpu(snap, l))
      BY <1>1 DEF Delta
    <2> QED
      BY <1>1, <1>6, <1>12, <2>1 DEF Minus
  <1>14. rows'[l].cpu <= cpu /\ (~Left(l) => rows'[l].cpu = cpu)
    BY <1>5, <1>7, <1>12, <1>13
  <1>15. ASSUME needIo, rows'[l].complete, ~OfUnit(snap', l),
                \A p \in who \cap Known : snap.reads[p].how = "Ok"
         PROVE  /\ rows'[l].io <= io
                /\ (~Left(l) /\ \A p \in who : snap'.reads[p].how # "Gone") => rows'[l].io = io
    <2>1. rows'[l].io = Minus(SumFunction(ioNow), SumFunction(ioRead))
      BY <1>1, <1>6, <1>15 DEF Delta
    <2>2. \A p \in who : snap'.reads[p].how \in {"Gone", "Ok"}
      <3>1. \A p \in who : snap'.reads[p].how # "Denied"
        <4> DEFINE told == \A p \in MembersOf(snap', l) : snap'.reads[p].how # "Denied"
        <4>1. Delta(snap, snap', l).complete = (OfUnit(snap', l) \/ told)
          BY DEF Delta
        <4> HIDE DEF told
        <4>2. told
          BY <1>1, <1>15, <4>1
        <4> QED
          BY <4>2 DEF told
      <3> QED
        BY <1>1, <1>3, <1>15, <3>1
    <2>3. /\ SumFunction(perIo) \in Int /\ SumFunction(did) \in Int /\ SumFunction(ioRead) \in Nat
          /\ SumFunction(did) - SumFunction(ioRead) <= SumFunction(perIo)
          /\ were \subseteq who => SumFunction(perIo) = SumFunction(did) - SumFunction(ioRead)
      BY <1>8, <1>9, <1>11, <1>15, WorkSince
    <2>4. SumFunction(perIo) \in Nat
      <3>1. perIo \in [who -> Nat]
        BY <1>11, <1>15 DEF perIo
      <3>2. IsFiniteSet(who)
        BY <1>8, FS_Subset
      <3> QED
        BY <3>1, <3>2, SumNat
    <2>5. SumFunction(ioNow) <= SumFunction(did) /\ SumFunction(ioNow) \in Int
      <3>1. \A p \in who : ioNow[p] <= did[p]
        BY <1>1, <1>3 DEF ioNow, did
      <3>2. IsFiniteSet(who)
        BY <1>8, FS_Subset
      <3> QED
        BY <1>9, <3>1, <3>2, SumMonotone, SumInt
    <2>6. (\A p \in who : snap'.reads[p].how # "Gone") => ioNow = did
      BY <1>1, <1>3, <2>2 DEF ioNow, did
    <2>7. rows'[l].io <= io
      BY <1>7, <2>1, <2>3, <2>4, <2>5 DEF Minus
    <2>8. ASSUME ~Left(l), \A p \in who : snap'.reads[p].how # "Gone" PROVE rows'[l].io = io
      BY <1>5, <1>7, <2>1, <2>3, <2>4, <2>5, <2>6, <2>8 DEF Minus
    <2> QED
      BY <2>7, <2>8
  <1> QED
    BY <1>14, <1>15

\* The rows of the body account for the work of their processes since the last
\* refresh, however many there are and whatever they do: no work twice, none of
\* another time.
THEOREM RowsShowWork == SamplingSpec => RowsAccountForWork
  <1>1. SamplingInv /\ [SamplingNext]_samplingVars => SamplingInv'
    BY SamplingKeeps
  <1>2. SamplingInv =>
          ((RefreshSample /\ snap # None /\ snap' # None) =>
             \A l \in DOMAIN rows' :
               LET who == MembersOf(snap', l)
                   cpu == SumFunction([p \in who |-> CpuSince(p)])
                   io == SumFunction([p \in who |-> IoSince(p)])
               IN ~Joined(l) =>
                    /\ rows'[l].cpu <= cpu
                    /\ ~Left(l) => rows'[l].cpu = cpu
                    /\ (needIo /\ rows'[l].complete /\ ~OfUnit(snap', l)
                          /\ \A p \in who \cap Known : snap.reads[p].how = "Ok") =>
                         /\ rows'[l].io <= io
                         /\ (~Left(l) /\ \A p \in who : snap'.reads[p].how # "Gone") => rows'[l].io = io)
    BY RowAccounts
  <1> QED
    BY <1>1, <1>2, SamplingStart, PTL DEF SamplingSpec, RowsAccountForWork

---------------------------------------------------------------------------
(* Signals.                                                                *)

\* What was read and the growth since make the counter, unless it wrapped, and
\* unless the 0 that was read may be that of a file that could not be.
ReaderTypes ==
  /\ reader \in DOMAIN Reads
  /\ counter \in [Source -> Nat] /\ since \in [Source -> Nat]
  /\ \A s \in Source \cap Wraps : counter[s] < WrapAt
Comparable(s) == prev[s] # None /\ (prev[s] # 0 \/ s \in Optional[reader])
ReadingsTrue ==
  prev # None => /\ prev \in [Source -> Nat \cup {None}]
                 /\ \A s \in Source \ wrapped : Comparable(s) => counter[s] = prev[s] + since[s]
SignalsInv == ReaderTypes /\ ReadingsTrue

LEMMA SignalsStart == ReaderInit => SignalsInv
  <1> SUFFICES ASSUME ReaderInit PROVE SignalsInv
    OBVIOUS
  <1>1. counter \in [Source -> Nat] /\ \A s \in Source : counter[s] < 2
    BY DEF ReaderInit
  <1>2. ReaderTypes
    BY <1>1, SignalsAssumption DEF ReaderInit, ReaderTypes, Zeros
  <1> QED
    BY <1>2 DEF ReaderInit, SignalsInv, ReadingsTrue

LEMMA GrowKeeps ==
  ASSUME SignalsInv, NEW s \in Source, Grow(s)
  PROVE  SignalsInv'
  <1>1. /\ reader' = reader /\ prev' = prev /\ Source' = Source /\ reader \in DOMAIN Reads
        /\ counter \in [Source -> Nat] /\ since \in [Source -> Nat]
        /\ counter' = [counter EXCEPT ![s] = IF s \in Wraps THEN (counter[s] + 1) % WrapAt ELSE counter[s] + 1]
        /\ since' = [since EXCEPT ![s] = since[s] + 1]
        /\ wrapped' = IF counter'[s] < counter[s] THEN wrapped \cup {s} ELSE wrapped
    BY DEF Grow, SignalsInv, ReaderTypes, Source
  <1>2. counter[s] \in Nat /\ since[s] \in Nat /\ since'[s] = since[s] + 1
        /\ counter'[s] = IF s \in Wraps THEN (counter[s] + 1) % WrapAt ELSE counter[s] + 1
    BY <1>1
  <1>3. s \in Wraps => counter[s] < WrapAt
    BY DEF SignalsInv, ReaderTypes
  <1>4. WrapAt \in Nat /\ 2 <= WrapAt
    BY SignalsAssumption
  <1>5. /\ counter'[s] \in Nat
        /\ s \in Wraps => counter'[s] < WrapAt
        /\ counter'[s] = counter[s] + 1 \/ counter'[s] < counter[s]
    <2>1. CASE s \notin Wraps
      BY <1>2, <2>1
    <2>2. CASE s \in Wraps /\ counter[s] + 1 < WrapAt
      <3>1. (counter[s] + 1) % WrapAt = counter[s] + 1
        BY <1>2, <1>4, <2>2
      <3> QED
        BY <1>2, <2>2, <3>1
    <2>3. CASE s \in Wraps /\ counter[s] + 1 = WrapAt
      <3>1. (counter[s] + 1) % WrapAt = 0
        BY <1>2, <1>4, <2>3
      <3> QED
        BY <1>2, <1>4, <2>3, <3>1
    <2> QED
      BY <1>2, <1>3, <1>4, <2>1, <2>2, <2>3
  <1>6. \A x \in Source \ {s} : counter'[x] = counter[x] /\ since'[x] = since[x]
    BY <1>1
  <1>7. ReaderTypes'
    <2>1. counter' \in [Source -> Nat] /\ since' \in [Source -> Nat]
      BY <1>1, <1>2, <1>5
    <2>2. \A x \in Source \cap Wraps : counter'[x] < WrapAt
      BY <1>5, <1>6 DEF SignalsInv, ReaderTypes
    <2> QED
      BY <1>1, <2>1, <2>2 DEF ReaderTypes
  <1>8. ReadingsTrue'
    <2> SUFFICES ASSUME prev # None, NEW x \in Source, x \notin wrapped', Comparable(x)
                 PROVE  counter'[x] = prev[x] + since'[x]
      BY <1>1 DEF ReadingsTrue, Comparable, SignalsInv
    <2>1. x \notin wrapped /\ prev[x] \in Nat
      BY <1>1 DEF SignalsInv, ReadingsTrue, Comparable
    <2>2. counter[x] = prev[x] + since[x]
      BY <2>1 DEF SignalsInv, ReadingsTrue
    <2>3. CASE x = s
      <3>1. counter'[s] = counter[s] + 1
        BY <1>1, <1>5, <2>3
      <3> QED
        BY <1>2, <2>1, <2>2, <2>3, <3>1
    <2> QED
      BY <1>6, <2>2, <2>3
  <1> QED
    BY <1>7, <1>8 DEF SignalsInv

\* A reading: the counter, or what stands for one that cannot be read.
LEMMA ReadingOf ==
  ASSUME SignalsInv, NEW readable, NEW s \in Source
  PROVE  LET c == ReadCounters(readable)[s]
         IN /\ s \in readable => c = counter[s] /\ c \in Nat /\ c # None
            /\ s \notin readable /\ s \in Optional[reader] => c = None
            /\ s \notin readable /\ s \notin Optional[reader] => c = 0
            /\ ReadCounters(readable) \in [Source -> Nat \cup {None}]
  BY SignalsAssumption DEF SignalsInv, ReaderTypes, ReadCounters

LEMMA LookKeeps ==
  ASSUME SignalsInv, NEW readable, NEW gap, Look(readable, gap)
  PROVE  SignalsInv'
  <1>1. /\ UNCHANGED <<reader, counter>> /\ Source' = Source
        /\ prev' = ReadCounters(readable) /\ since' = Zeros /\ wrapped' = {}
    BY DEF Look, Source
  <1>2. since' = [s \in Source |-> 0]
    BY <1>1 DEF Zeros
  <1>3. ReaderTypes'
    BY <1>1, <1>2 DEF SignalsInv, ReaderTypes
  <1>4. ReadCounters(readable) \in [Source -> Nat \cup {None}]
    BY SignalsAssumption DEF SignalsInv, ReaderTypes, ReadCounters
  <1>5. ASSUME NEW s \in Source, Comparable(s)' PROVE counter[s] = prev'[s] + since'[s]
    <2>1. s \in readable
      BY <1>1, <1>5, ReadingOf DEF Comparable
    <2> QED
      BY <1>1, <1>2, <2>1, ReadingOf
  <1> QED
    BY <1>1, <1>3, <1>4, <1>5 DEF SignalsInv, ReadingsTrue, Comparable

LEMMA WordWraps == ASSUME NEW x \in Nat, NEW w \in Nat, x < w PROVE (x + w) % w = x
  OBVIOUS

\* The difference of two readings between which the counter did not start again.
LEMMA GrownIsGrowth ==
  ASSUME SignalsInv, NEW s \in Source, NEW p \in Nat, counter[s] = p + since[s]
  PROVE  Grown(s, counter[s], p) = since[s]
  <1>1. counter[s] \in Nat /\ since[s] \in Nat /\ (s \in Wraps => counter[s] < WrapAt)
    BY DEF SignalsInv, ReaderTypes
  <1>2. WrapAt \in Nat /\ Word \in Nat /\ 2 <= WrapAt /\ WrapAt <= Word
    BY SignalsAssumption
  <1>3. CASE s \in Wraps
    <2>1. since[s] < Word /\ counter[s] - p = since[s]
      BY <1>1, <1>2, <1>3
    <2>2. (since[s] + Word) % Word = since[s]
      BY <1>1, <1>2, <2>1, WordWraps
    <2> QED
      BY <1>3, <2>1, <2>2 DEF Grown
  <1>4. CASE s \notin Wraps
    BY <1>1, <1>4 DEF Grown, Minus
  <1> QED
    BY <1>3, <1>4

\* The signal of an interval, as SignalsMeasured states it.
LEMMA LookMeasures ==
  ASSUME SignalsInv, prev # None, NEW readable, Look(readable, FALSE), NEW s \in Source \ wrapped
  PROVE  /\ s \notin readable => signals'[s] = 0
         /\ s \in readable /\ prev[s] \notin {None, 0} => signals'[s] = since[s]
         /\ s \in Optional[reader] => signals'[s] <= since[s]
  <1> DEFINE c == ReadCounters(readable)[s]
  <1>1. signals'[s] = IF None \in {prev[s], c} THEN 0 ELSE Grown(s, c, prev[s])
    BY DEF Look, DeriveSignals
  <1>2. /\ s \in readable => c = counter[s] /\ c \in Nat /\ c # None
        /\ s \notin readable /\ s \in Optional[reader] => c = None
        /\ s \notin readable /\ s \notin Optional[reader] => c = 0
    BY ReadingOf
  <1>3. prev[s] \in Nat \cup {None} /\ since[s] \in Nat
    BY DEF SignalsInv, ReaderTypes, ReadingsTrue
  <1>4. Comparable(s) => counter[s] = prev[s] + since[s]
    BY DEF SignalsInv, ReadingsTrue
  <1>5. s \in Wraps => s \in Optional[reader]
    BY SignalsAssumption DEF SignalsInv, ReaderTypes, Source
  <1> HIDE DEF c
  <1>6. CASE s \notin readable
    <2>1. CASE s \in Optional[reader]
      BY <1>1, <1>2, <1>3, <1>6, <2>1
    <2>2. CASE s \notin Optional[reader] /\ prev[s] # None
      <3>1. Grown(s, 0, prev[s]) = 0
        BY <1>3, <1>5, <2>2 DEF Grown, Minus
      <3> QED
        BY <1>1, <1>2, <1>6, <2>2, <3>1
    <2>3. CASE s \notin Optional[reader] /\ prev[s] = None
      BY <1>1, <1>6, <2>3
    <2> QED
      BY <2>1, <2>2, <2>3
  <1>7. CASE s \in readable
    <2>1. CASE prev[s] = None
      BY <1>1, <1>3, <1>7, <2>1
    <2>2. CASE prev[s] # None /\ (prev[s] # 0 \/ s \in Optional[reader])
      <3>1. prev[s] \in Nat /\ counter[s] = prev[s] + since[s]
        BY <1>3, <1>4, <2>2 DEF Comparable
      <3>2. Grown(s, counter[s], prev[s]) = since[s]
        BY <3>1, GrownIsGrowth
      <3> QED
        BY <1>1, <1>2, <1>3, <1>7, <2>2, <3>2
    <2>3. CASE prev[s] = 0 /\ s \notin Optional[reader]
      BY <1>7, <2>3
    <2> QED
      BY <2>1, <2>2, <2>3
  <1> QED
    BY <1>6, <1>7

\* A signal is what its counter grew by between two readings, and of no other
\* time, for every counter that neither wrapped nor reads as 0 when it cannot be
\* read.
THEOREM SignalsAreGrowth == ReaderSpec => SignalsMeasured
  <1>1. SignalsInv /\ [ReaderNext]_readerVars => SignalsInv'
    <2> SUFFICES ASSUME SignalsInv, [ReaderNext]_readerVars PROVE SignalsInv'
      OBVIOUS
    <2>1. ASSUME NEW readable, PressureLoop(readable) PROVE SignalsInv'
      BY <2>1, LookKeeps DEF PressureLoop
    <2>2. ASSUME NEW readable, NEW gap, AttributorSample(readable, gap) PROVE SignalsInv'
      BY <2>2, LookKeeps DEF AttributorSample
    <2>3. ASSUME NEW s \in Source, Grow(s) PROVE SignalsInv'
      BY <2>3, GrowKeeps
    <2>4. CASE UNCHANGED readerVars
      BY <2>4 DEF readerVars, SignalsInv, ReaderTypes, ReadingsTrue, Comparable, Source
    <2> QED
      BY <2>1, <2>2, <2>3, <2>4 DEF ReaderNext
  <1>2. SignalsInv =>
          \A readable \in SUBSET Source :
            prev # None /\ Look(readable, FALSE) =>
              \A s \in Source \ wrapped :
                /\ s \notin readable => signals'[s] = 0
                /\ s \in readable /\ prev[s] \notin {None, 0} => signals'[s] = since[s]
                /\ s \in Optional[reader] => signals'[s] <= since[s]
    BY LookMeasures
  <1> QED
    BY <1>1, <1>2, SignalsStart, PTL DEF ReaderSpec, SignalsMeasured
=============================================================================
