----------------------------- MODULE ScreenProofs ----------------------------
(* Proofs about what is on the screen: whose rows it shows (FleetDrill), for *)
(* any hosts, groups and choices of the carousel; the knots held on its rim  *)
(* (Rim), for any number of phases and knots, any fingerprints and reports;  *)
(* and where the parts of its border lie (BorderLayout), for any size, any   *)
(* lit cells and any texts.                                                  *)
EXTENDS FleetDrill, Rim, BorderLayout, SharedLemmas

---------------------------------------------------------------------------
(* Whose rows are shown.                                                   *)

\* A host is entered only where its rows are shown or kept beneath threads,
\* and since then nobody else wrote the rows; no drill, no samples.
EnteredInv ==
  fleetHost # None => view \in {"Remote", "Threads"} /\ entries.of \in {fleetHost, "list", None}
ShownInv == TypeOK /\ EnteredInv /\ OwnData

\* No rows and no samples are there at the start.
LEMMA ShownInit == Init => ShownInv
  <1> SUFFICES ASSUME Init PROVE ShownInv
    OBVIOUS
  <1>1. entries \in [of : Host \cup {"list", None}, labels : SUBSET Label]
    BY DEF Init, HostList, Label
  <1>2. up \in [Host -> BOOLEAN]
    BY DEF Init
  <1>3. tiles \in SUBSET Label /\ focus \in Label \cup {None}
    BY DEF Init, Label
  <1>4. TypeOK
    BY <1>1, <1>2, <1>3 DEF Init, TypeOK, View, NoThread
  <1> QED
    BY <1>4 DEF Init, ShownInv, EnteredInv, OwnData

\* The body follows the rows.
LEMMA BodyTypes ==
  ASSUME TypeOK, SyncBody, entries'.labels \in SUBSET Label
  PROVE  tiles' \in SUBSET Label /\ focus' \in Label \cup {None}
  BY DEF TypeOK, SyncBody

\* Each action leaves the rows with the host they are shown for.
LEMMA ShownNext == ShownInv /\ [Next]_vars => ShownInv'
  <1> SUFFICES ASSUME ShownInv, [Next]_vars PROVE ShownInv'
    OBVIOUS
  <1> USE DEF ShownInv, EnteredInv, OwnData, TypeOK, View, Label,
              NoThread, drill, links, body
  <1>1. CASE Refresh
    BY <1>1, BodyTypes DEF Refresh, ForDrill, HostList
  <1>2. CASE HostLost
    BY <1>2 DEF HostLost
  <1>3. CASE ClientLost
    BY <1>3 DEF ClientLost
  <1>4. ASSUME NEW labels \in SUBSET App, HostPoll(labels) PROVE ShownInv'
    BY <1>4, BodyTypes DEF HostPoll
  <1>5. ASSUME NEW labels \in SUBSET App, ClientPoll(labels) PROVE ShownInv'
    BY <1>5, BodyTypes DEF ClientPoll
  <1>6. ASSUME NEW h \in Host, EnterHost(h) PROVE ShownInv'
    BY <1>6, BodyTypes DEF EnterHost, NoEntries
  <1>7. CASE EnterThreads
    <2>1. ASSUME NEW h \in Host, NEW l \in Label, ShowThreads(h, l),
                 view \in {"Fleet", "Remote"}
          PROVE  ShownInv'
      BY <2>1 DEF ShowThreads
    <2> QED
      BY <1>7, <2>1 DEF EnterThreads, FocusedEntry
  <1>8. CASE Connect
    BY <1>8, BodyTypes DEF Connect, NoEntries, FocusedEntry
  <1>9. CASE Esc
    <2>1. view' \in View /\ title' \in Host \cup {None}
      BY <1>9 DEF Esc
    <2>2. entries' \in {entries, NoEntries}
      BY <1>9 DEF Esc
    <2>3. NoEntries \in [of : Host \cup {"list", None}, labels : SUBSET Label]
      BY DEF NoEntries
    <2>4. fleetHost' \in {fleetHost, None} /\ fleetThread' \in {fleetThread, NoThread}
      BY <1>9 DEF Esc
    <2>5. /\ remoteClient' \in {remoteClient, None} /\ clientUp' \in {clientUp, FALSE}
          /\ samples' \in {samples, NoThread} /\ UNCHANGED <<up, tiles, focus, paused>>
      BY <1>9 DEF Esc
    <2>6. TypeOK'
      BY <2>1, <2>2, <2>3, <2>4, <2>5
    <2>7. fleetHost' # None => fleetHost' = fleetHost /\ view' = "Remote" /\ entries' = entries
      BY <1>9 DEF Esc
    <2>8. view' # "Threads"
      BY <1>9 DEF Esc
    <2> QED
      BY <2>6, <2>7, <2>8
  <1>10. ASSUME NEW to \in View \ {"Threads"}, SwitchView(to) PROVE ShownInv'
    BY <1>10 DEF SwitchView
  <1>11. CASE ManualKey \/ FaceKey \/ ScopeKey
    BY <1>10, <1>11 DEF ManualKey, FaceKey, ScopeKey
  <1>12. CASE PauseKey
    BY <1>12 DEF PauseKey
  <1>13. CASE Scrub
    BY <1>13 DEF Scrub, HostList
  <1>14. CASE Arrow
    BY <1>14 DEF Arrow
  <1>15. CASE ChildExits
    BY <1>15 DEF ChildExits
  <1>16. CASE UNCHANGED vars
    BY <1>16 DEF vars
  <1> QED
    BY <1>1, <1>2, <1>3, <1>4, <1>5, <1>6, <1>7, <1>8, <1>9, <1>11, <1>12, <1>13, <1>14, <1>15, <1>16
       DEF Next, Poll

\* The variables of FleetDrill keep their types.
THEOREM DrillTypes == Spec => []TypeOK
  <1>1. ShownInv => TypeOK
    BY DEF ShownInv
  <1> QED
    BY <1>1, ShownInit, ShownNext, PTL DEF Spec

\* What is on the screen is of the host and of the group that was entered.
THEOREM DrillShowsOwn == Spec => []OwnData
  <1>1. ShownInv => OwnData
    BY DEF ShownInv
  <1> QED
    BY <1>1, ShownInit, ShownNext, PTL DEF Spec

---------------------------------------------------------------------------
(* The knots held on the rim.                                              *)

Knot == [phase : Phase, age : Nat]

---------------------------------------------------------------------------
(* What one detection does to the knots.                                   *)

\* q has one knot more than h, or the one at m moved to c.
Added(h, c, q) ==
  /\ Len(q) = Len(h) + 1 /\ q[Len(h) + 1] = [phase |-> c, age |-> 0]
  /\ \A i \in 1..Len(h) : q[i] = h[i]
Moved(h, c, q, m) ==
  /\ Len(q) = Len(h) /\ q[m] = [phase |-> c, age |-> 0] /\ Apart(h[m].phase, c) < Match
  /\ \A i \in 1..Len(h) : i # m => q[i] = h[i]

\* A detection adds a knot or moves one that is near.
LEMMA MergeOne ==
  ASSUME NEW h \in Seq(Knot), NEW c \in Phase, NEW q, q = Merge(h, c)
  PROVE  q \in Seq(Knot) /\ (Added(h, c, q) \/ \E m \in 1..Len(h) : Moved(h, c, q, m))
  <1> DEFINE new == [phase |-> c, age |-> 0]
  <1>0. new \in Knot /\ new.phase = c /\ new.age = 0
    BY DEF Knot
  <1>1. Len(h) \in Nat /\ DOMAIN h = 1..Len(h) /\ \A i \in 1..Len(h) : h[i] \in Knot
    BY LenProperties, ElementOfSeq
  <1> HIDE DEF new
  <1>2. CASE Near(h, c) = {}
    <2>1. q = Append(h, new)
      BY <1>2 DEF Merge, new
    <2>2. q \in Seq(Knot) /\ Len(q) = Len(h) + 1 /\ q[Len(h) + 1] = new
          /\ \A i \in 1..Len(h) : q[i] = h[i]
      BY <1>0, <1>1, <2>1, AppendProperties
    <2> QED
      BY <2>2 DEF new, Added
  <1>3. CASE Near(h, c) # {}
    <2> DEFINE m == Min(Near(h, c))
    <2>1. Near(h, c) \subseteq Nat
      BY <1>1 DEF Near
    <2>2. m \in 1..Len(h) /\ Apart(h[m].phase, c) < Match
      BY <1>1, <1>3, <2>1, MinNat DEF Near
    <2>3. q = Replaced(h, m, new)
      BY <1>3 DEF Merge, new
    <2> HIDE DEF m
    <2>4. q = [i \in 1..Len(h) |-> IF i = m THEN new ELSE h[i]]
      BY <1>1, <2>3 DEF Replaced
    <2>5. \A i \in 1..Len(h) : (IF i = m THEN new ELSE h[i]) \in Knot
      BY <1>0, <1>1
    <2>6. q \in [1..Len(h) -> Knot]
      BY <2>4, <2>5
    <2>7. q \in Seq(Knot) /\ Len(q) = Len(h)
      BY <1>1, <2>6
    <2>8. \A i \in 1..Len(h) : q[i] = IF i = m THEN new ELSE h[i]
      BY <2>4
    <2> QED
      BY <2>2, <2>7, <2>8 DEF new, Moved
  <1> QED
    BY <1>2, <1>3

\* No knot is younger than the detection of its phase.
Aged(d, h) == \A i \in 1..Len(h) : d[h[i].phase] <= h[i].age

\* It takes no knot from a phase: what was followed to the knot that moves is
\* followed to where it moves.
LEMMA MergeHolds ==
  ASSUME NEW d \in [Phase -> 0..Fade], NEW h \in Seq(Knot), NEW c \in Phase, d[c] = 0,
         Aged(d, h), NEW q, q = Merge(h, c)
  PROVE  /\ q \in Seq(Knot) /\ Aged(d, q)
         /\ \A p \in Phase : HeldFor(d, p, h) \/ p = c => HeldFor(d, p, q)
  <1> DEFINE new == [phase |-> c, age |-> 0]
  <1>0. new.phase = c /\ new.age = 0
    OBVIOUS
  <1>1. Len(h) \in Nat /\ DOMAIN h = 1..Len(h) /\ \A i \in 1..Len(h) : h[i] \in Knot
    BY LenProperties, ElementOfSeq
  <1>11. \A i \in 1..Len(h) : h[i].phase \in Phase /\ h[i].age \in Nat
    BY <1>1 DEF Knot
  <1>2. q \in Seq(Knot) /\ (Added(h, c, q) \/ \E m \in 1..Len(h) : Moved(h, c, q, m))
    BY MergeOne
  <1>3. Len(q) \in Nat /\ DOMAIN q = 1..Len(q)
    BY <1>2, LenProperties
  <1>4. \A p \in Phase : d[p] \in Nat /\ d[p] <= Fade /\ c \in Since(d, p)
    BY RimAssumption DEF Since
  <1>5. \A p \in Phase, x \in Phase : Followed(d, p, x) /\ Apart(x, c) < Match => Followed(d, p, c)
    BY <1>4 DEF Followed
  <1>6. Followed(d, c, c)
    BY DEF Followed
  <1> HIDE DEF new
  <1>7. \A i \in 1..Len(q) : q[i] = new \/ (i \in 1..Len(h) /\ q[i] = h[i])
    <2>1. CASE Added(h, c, q)
      BY <1>1, <1>3, <2>1 DEF Added, new
    <2>2. ASSUME NEW m \in 1..Len(h), Moved(h, c, q, m)
          PROVE  \A i \in 1..Len(q) : q[i] = new \/ (i \in 1..Len(h) /\ q[i] = h[i])
      BY <2>2 DEF Moved, new
    <2> QED
      BY <1>2, <2>1, <2>2
  <1>8. \E i \in 1..Len(q) : q[i] = new
    <2>1. CASE Added(h, c, q)
      <3>1. Len(h) + 1 \in 1..Len(q)
        BY <1>1, <2>1 DEF Added
      <3> QED
        BY <2>1, <3>1 DEF Added, new
    <2>2. ASSUME NEW m \in 1..Len(h), Moved(h, c, q, m) PROVE \E i \in 1..Len(q) : q[i] = new
      BY <2>2 DEF Moved, new
    <2> QED
      BY <1>2, <2>1, <2>2
  <1>9. /\ Len(q) >= Len(h)
        /\ \A i \in 1..Len(h) :
             i \in 1..Len(q) /\ (q[i] = h[i] \/ (q[i] = new /\ Apart(h[i].phase, c) < Match))
    <2>1. CASE Added(h, c, q)
      BY <1>1, <2>1 DEF Added
    <2>2. ASSUME NEW m \in 1..Len(h), Moved(h, c, q, m)
          PROVE  /\ Len(q) >= Len(h)
                 /\ \A i \in 1..Len(h) :
                      i \in 1..Len(q) /\ (q[i] = h[i] \/ (q[i] = new /\ Apart(h[i].phase, c) < Match))
      BY <1>1, <2>2 DEF Moved, new
    <2> QED
      BY <1>2, <2>1, <2>2
  <1> HIDE DEF new
  <1>10. Aged(d, q)
    BY <1>0, <1>7 DEF Aged
  <1>12. HeldFor(d, c, q)
    BY <1>0, <1>3, <1>6, <1>8 DEF HeldFor
  <1>13. ASSUME NEW p \in Phase, HeldFor(d, p, h) PROVE HeldFor(d, p, q)
    <2>1. CASE Len(h) >= MaxHeld /\ \A i \in DOMAIN h : h[i].age <= d[p]
      <3>1. Len(q) >= MaxHeld
        BY <1>1, <1>3, <1>9, <2>1, RimAssumption
      <3>2. \A i \in 1..Len(q) : q[i].age <= d[p]
        BY <1>0, <1>1, <1>4, <1>7, <2>1
      <3> QED
        BY <1>3, <3>1, <3>2 DEF HeldFor
    <2>2. CASE \E i \in DOMAIN h : h[i].age <= d[p] /\ Followed(d, p, h[i].phase)
      <3>1. PICK i \in 1..Len(h) : h[i].age <= d[p] /\ Followed(d, p, h[i].phase)
        BY <1>1, <2>2
      <3>2. CASE q[i] = h[i]
        BY <1>3, <1>9, <3>1, <3>2 DEF HeldFor
      <3>3. CASE q[i] = new /\ Apart(h[i].phase, c) < Match
        <4>1. Followed(d, p, c)
          BY <1>5, <1>11, <3>1, <3>3
        <4>2. i \in DOMAIN q /\ q[i].age <= d[p] /\ Followed(d, p, q[i].phase)
          BY <1>0, <1>3, <1>4, <1>9, <3>3, <4>1
        <4> QED
          BY <4>2 DEF HeldFor
      <3> QED
        BY <1>9, <3>2, <3>3
    <2> QED
      BY <1>13, <2>1, <2>2 DEF HeldFor
  <1> QED
    BY <1>2, <1>10, <1>12, <1>13

\* f holds the knots after every beginning of what is detected.
Merges(f, h, cur, m) ==
  f = [n \in 0..m |-> IF n = 0 THEN h ELSE Merge(f[n - 1], cur[n])]

\* There is such a function, for every beginning.
LEMMA MergesExist == ASSUME NEW h, NEW cur, NEW m \in Nat PROVE \E f : Merges(f, h, cur, m)
  <1> DEFINE T == {n \in Nat : \E f : Merges(f, h, cur, n)}
  <1>1. 0 \in T
    <2> DEFINE f == [n \in 0..0 |-> h]
    <2>1. Merges(f, h, cur, 0)
      BY DEF Merges
    <2> QED
      BY <2>1
  <1>2. ASSUME NEW n \in Nat, n \in T PROVE n + 1 \in T
    <2>1. PICK f : Merges(f, h, cur, n)
      BY <1>2
    <2> DEFINE e == Merge(f[n], cur[n + 1])
               g == [i \in 0..(n + 1) |-> IF i = n + 1 THEN e ELSE f[i]]
    <2>2. \A i \in 0..n : f[i] = IF i = 0 THEN h ELSE Merge(f[i - 1], cur[i])
      BY <2>1 DEF Merges
    <2>3. \A i \in 0..(n + 1) : g[i] = IF i = 0 THEN h ELSE Merge(g[i - 1], cur[i])
      <3> TAKE i \in 0..(n + 1)
      <3>1. CASE i = n + 1
        <4>1. g[i] = e /\ g[i - 1] = f[n] /\ i # 0
          BY <3>1
        <4> QED
          BY <3>1, <4>1
      <3>2. CASE i \in 0..n
        <4>1. g[i] = f[i] /\ (i # 0 => g[i - 1] = f[i - 1])
          BY <3>2
        <4> QED
          BY <2>2, <3>2, <4>1
      <3> QED
        BY <3>1, <3>2
    <2>4. Merges(g, h, cur, n + 1)
      <3>1. g = [i \in 0..(n + 1) |-> g[i]]
        OBVIOUS
      <3> HIDE DEF g
      <3> QED
        BY <2>3, <3>1 DEF Merges
    <2> QED
      BY <2>4
  <1> HIDE DEF T
  <1>3. Nat \subseteq T
    BY <1>1, <1>2, SetInduction
  <1> QED
    BY <1>3 DEF T

\* All that was held for still is, and all that is detected.
LEMMA MergedHolds ==
  ASSUME NEW d \in [Phase -> 0..Fade], NEW h \in Seq(Knot), NEW cur \in Seq(Phase),
         \A k \in 1..Len(cur) : d[cur[k]] = 0,
         Aged(d, h), NEW q, q = Merged(h, cur)
  PROVE  /\ q \in Seq(Knot) /\ Aged(d, q)
         /\ \A p \in Phase : HeldFor(d, p, h) \/ p \in ToSet(cur) => HeldFor(d, p, q)
  <1>0. Len(cur) \in Nat /\ DOMAIN cur = 1..Len(cur) /\ \A k \in 1..Len(cur) : cur[k] \in Phase
    BY LenProperties, ElementOfSeq
  <1> DEFINE f == CHOOSE f : Merges(f, h, cur, Len(cur))
  <1>1. Merges(f, h, cur, Len(cur))
    BY <1>0, MergesExist
  <1>2. q = f[Len(cur)]
    BY DEF Merged, Merges
  <1>3. \A n \in 0..Len(cur) : f[n] = IF n = 0 THEN h ELSE Merge(f[n - 1], cur[n])
    BY <1>1 DEF Merges
  <1> HIDE DEF f
  <1> DEFINE Good(n) == /\ f[n] \in Seq(Knot) /\ Aged(d, f[n])
                        /\ \A p \in Phase : HeldFor(d, p, h) => HeldFor(d, p, f[n])
                        /\ \A k \in 1..n : HeldFor(d, cur[k], f[n])
             T == {n \in Nat : n <= Len(cur) => Good(n)}
  <1>4. Good(0)
    BY <1>0, <1>3
  <1>5. ASSUME NEW n \in Nat, n + 1 <= Len(cur), Good(n) PROVE Good(n + 1)
    <2>1. n + 1 \in 1..Len(cur) /\ n + 1 \in 0..Len(cur) /\ n + 1 # 0 /\ (n + 1) - 1 = n
      <3>1. Len(cur) \in Nat /\ n + 1 <= Len(cur)
        BY <1>0, <1>5
      <3> HIDE DEF Good
      <3> QED
        BY <3>1
    <2>2. f[n + 1] = Merge(f[n], cur[n + 1]) /\ cur[n + 1] \in Phase /\ d[cur[n + 1]] = 0
      BY <1>0, <1>3, <2>1
    <2>21. f[n] \in Seq(Knot) /\ Aged(d, f[n])
      BY <1>5
    <2>3. /\ f[n + 1] \in Seq(Knot) /\ Aged(d, f[n + 1])
          /\ \A p \in Phase : HeldFor(d, p, f[n]) \/ p = cur[n + 1] => HeldFor(d, p, f[n + 1])
      BY <2>2, <2>21, MergeHolds
    <2>4. \A k \in 1..(n + 1) : cur[k] \in Phase /\ (k = n + 1 \/ k \in 1..n)
      BY <1>0, <2>1
    <2>5. \A k \in 1..(n + 1) : HeldFor(d, cur[k], f[n + 1])
      BY <1>5, <2>3, <2>4
    <2> QED
      BY <1>5, <2>3, <2>5
  <1> HIDE DEF Good
  <1>6. 0 \in T /\ \A n \in Nat : n \in T => n + 1 \in T
    BY <1>0, <1>4, <1>5
  <1> HIDE DEF T
  <1>7. Nat \subseteq T
    BY <1>6, SetInduction
  <1>8. Good(Len(cur))
    BY <1>0, <1>7 DEF T
  <1> QED
    BY <1>0, <1>2, <1>8 DEF Good, ToSet

---------------------------------------------------------------------------
(* The knots that are kept.                                                *)

\* The places of knots by age are theirs alone, and all places are taken.
LEMMA PlacesByAge ==
  ASSUME NEW h \in Seq(Knot)
  PROVE  /\ \A i \in 1..Len(h) : Rank(h, i) \in 1..Len(h)
         /\ \A i, j \in 1..Len(h) : Rank(h, i) < Rank(h, j) => h[i].age <= h[j].age
         /\ \A i, j \in 1..Len(h) : Rank(h, i) = Rank(h, j) => i = j
         /\ \A n \in 1..Len(h) : \E i \in 1..Len(h) : Rank(h, i) = n
  <1> DEFINE D == 1..Len(h)
             Upto(i) == {j \in D : h[j].age < h[i].age \/ (h[j].age = h[i].age /\ j <= i)}
  <1>1. Len(h) \in Nat /\ DOMAIN h = D
    BY LenProperties
  <1>20. \A i \in D : h[i] \in Knot
    BY ElementOfSeq
  <1>2. \A i \in D : h[i].age \in Nat
    BY <1>20 DEF Knot
  <1>3. IsFiniteSet(D) /\ Cardinality(D) = Len(h)
    <2>1. ASSUME NEW n \in Nat PROVE IsFiniteSet(1..n) /\ Cardinality(1..n) = n
      BY FS_Interval
    <2> QED
      BY <1>1, <2>1
  <1>4. \A i \in D : Rank(h, i) = Cardinality(Upto(i))
    BY <1>1 DEF Rank
  <1>5. \A i \in D : i \in Upto(i) /\ Upto(i) \in SUBSET D
    OBVIOUS
  <1>6. \A i, j \in D : h[i].age < h[j].age \/ (h[i].age = h[j].age /\ i < j) =>
          Upto(i) \subseteq Upto(j) /\ j \notin Upto(i)
    BY <1>1, <1>2
  <1> HIDE DEF Upto
  <1>7. \A i \in D : Rank(h, i) \in D
    <2> TAKE i \in D
    <2>1. IsFiniteSet(Upto(i)) /\ Cardinality(Upto(i)) <= Len(h) /\ Cardinality(Upto(i)) \in Nat
      BY <1>3, <1>5, FS_Subset, FS_CardinalityType
    <2>2. Cardinality(Upto(i)) # 0
      BY <1>5, <2>1, FS_EmptySet
    <2> QED
      BY <1>1, <1>4, <2>1, <2>2
  <1>8. \A i, j \in D : h[i].age < h[j].age \/ (h[i].age = h[j].age /\ i < j) =>
          Rank(h, i) < Rank(h, j)
    <2> SUFFICES ASSUME NEW i \in D, NEW j \in D,
                        h[i].age < h[j].age \/ (h[i].age = h[j].age /\ i < j)
                 PROVE  Rank(h, i) < Rank(h, j)
      OBVIOUS
    <2>1. Upto(i) \in SUBSET Upto(j) /\ Upto(i) # Upto(j)
      BY <1>5, <1>6
    <2>2. IsFiniteSet(Upto(j))
      BY <1>3, <1>5, FS_Subset
    <2>3. Cardinality(Upto(i)) <= Cardinality(Upto(j)) /\ Cardinality(Upto(i)) # Cardinality(Upto(j))
      BY <2>1, <2>2, FS_Subset
    <2> QED
      BY <1>1, <1>4, <1>7, <2>3
  <1>9. \A i, j \in D : Rank(h, i) = Rank(h, j) => i = j
    BY <1>1, <1>2, <1>7, <1>8
  <1>10. \A i, j \in D : Rank(h, i) < Rank(h, j) => h[i].age <= h[j].age
    <2> TAKE i, j \in D
    <2>1. h[i].age \in Nat /\ h[j].age \in Nat
      BY <1>2
    <2>2. h[j].age < h[i].age => Rank(h, j) < Rank(h, i)
      BY <1>8
    <2>3. Rank(h, i) \in Nat /\ Rank(h, j) \in Nat
      BY <1>1, <1>7
    <2> QED
      BY <2>1, <2>2, <2>3
  <1> DEFINE r == [i \in D |-> Rank(h, i)]
  <1>11. r \in Injection(D, D)
    BY <1>7, <1>9 DEF Injection, IsInjective
  <1>12. r \in Surjection(D, D)
    BY <1>3, <1>11, FS_Injection
  <1>13. \A n \in D : \E i \in D : Rank(h, i) = n
    BY <1>12 DEF Surjection
  <1> QED
    BY <1>7, <1>9, <1>10, <1>13

\* The knots that are left, q, are among the ones there were; those that are not
\* left had faded or had no place.
Left(h, q) ==
  /\ q \in Seq(Knot) /\ Len(q) <= MaxHeld
  /\ \A i \in 1..Len(q) : q[i].age < Fade /\ \E j \in 1..Len(h) : q[i] = h[j]
  /\ \A j \in 1..Len(h) : h[j].age < Fade =>
       \/ \E i \in 1..Len(q) : q[i] = h[j]
       \/ Len(q) = MaxHeld /\ \A i \in 1..Len(q) : q[i].age <= h[j].age
  /\ (\A j \in 1..Len(h) : h[j].age < Fade) /\ Len(h) >= MaxHeld => Len(q) = MaxHeld

\* What is held is cut to those.
LEMMA CutHolds ==
  ASSUME NEW h \in Seq(Knot), NEW q, q = Truncated(Retained(h))
  PROVE  Left(h, q)
  <1> DEFINE r == Retained(h)
             young == {k \in ToSet(h) : k.age < Fade}
  <1>0. Len(h) \in Nat /\ DOMAIN h = 1..Len(h)
    BY LenProperties
  <1>1. /\ r \in Seq(Knot)
        /\ \A i \in 1..Len(r) : r[i] \in young /\ \E j \in 1..Len(h) : h[j] = r[i]
        /\ \A j \in 1..Len(h) : h[j] \in young => \E i \in 1..Len(r) : r[i] = h[j]
        /\ (\A j \in 1..Len(h) : h[j] \in young) => Len(h) <= Len(r)
    <2>1. r = Only(h, young)
      BY DEF Retained
    <2> HIDE DEF r, young
    <2> QED
      BY <2>1, OnlyElements, OnlyAll
  <1>2. \A j \in 1..Len(h) : h[j].age < Fade => h[j] \in young
    BY <1>0 DEF ToSet
  <1>3. \A k \in young : k.age < Fade
    OBVIOUS
  <1> HIDE DEF r, young
  <1>4. Len(r) \in Nat /\ DOMAIN r = 1..Len(r) /\ \A i \in 1..Len(r) : r[i] \in Knot
    BY <1>1, LenProperties, ElementOfSeq
  <1>5. q = IF Len(r) <= MaxHeld THEN r
            ELSE [n \in 1..MaxHeld |-> r[CHOOSE i \in 1..Len(r) : Rank(r, i) = n]]
    BY <1>4 DEF Truncated, r
  <1>6. MaxHeld \in Nat
    BY RimAssumption
  <1>9. (\A j \in 1..Len(h) : h[j].age < Fade) /\ Len(h) >= MaxHeld => Len(r) >= MaxHeld
    BY <1>0, <1>1, <1>2, <1>4, <1>6
  <1>7. CASE Len(r) <= MaxHeld
    <2>1. q = r
      BY <1>5, <1>7
    <2>2. (\A j \in 1..Len(h) : h[j].age < Fade) /\ Len(h) >= MaxHeld => Len(q) = MaxHeld
      <3>1. ASSUME NEW n \in Nat, n <= MaxHeld, n >= MaxHeld PROVE n = MaxHeld
        BY <1>6, <3>1
      <3>2. Len(r) >= MaxHeld => Len(r) = MaxHeld
        BY <1>4, <1>7, <3>1, Zenon
      <3> QED
        BY <1>9, <2>1, <3>2, Zenon
    <2>3. \A i \in 1..Len(q) : q[i].age < Fade /\ \E j \in 1..Len(h) : q[i] = h[j]
      <3> TAKE i \in 1..Len(q)
      <3>1. r[i] \in young /\ \E j \in 1..Len(h) : h[j] = r[i]
        BY <1>1, <2>1
      <3> QED
        BY <1>3, <2>1, <3>1
    <2>4. \A j \in 1..Len(h) : h[j].age < Fade => \E i \in 1..Len(q) : q[i] = h[j]
      BY <1>1, <1>2, <2>1
    <2> QED
      BY <1>1, <1>7, <2>1, <2>2, <2>3, <2>4 DEF Left
  <1>8. CASE ~(Len(r) <= MaxHeld)
    <2> DEFINE at == [n \in 1..MaxHeld |-> CHOOSE i \in 1..Len(r) : Rank(r, i) = n]
    <2>1. \A n \in 1..MaxHeld : at[n] \in 1..Len(r) /\ Rank(r, at[n]) = n
      <3> TAKE n \in 1..MaxHeld
      <3>1. n \in 1..Len(r)
        BY <1>4, <1>6, <1>8
      <3>2. \E i \in 1..Len(r) : Rank(r, i) = n
        BY <1>1, <3>1, PlacesByAge
      <3> QED
        BY <3>2
    <2>2. q = [n \in 1..MaxHeld |-> r[at[n]]]
      BY <1>5, <1>8
    <2> HIDE DEF at
    <2>3. q \in [1..MaxHeld -> Knot]
      BY <1>4, <2>1, <2>2
    <2>4. q \in Seq(Knot) /\ Len(q) = MaxHeld /\ \A n \in 1..MaxHeld : q[n] = r[at[n]]
      BY <1>6, <2>2, <2>3
    <2>5. \A j \in 1..Len(r) : \/ \E n \in 1..MaxHeld : q[n] = r[j]
                               \/ \A n \in 1..MaxHeld : q[n].age <= r[j].age
      <3> TAKE j \in 1..Len(r)
      <3>1. Rank(r, j) \in 1..Len(r)
        BY <1>1, PlacesByAge
      <3>2. CASE Rank(r, j) <= MaxHeld
        <4> DEFINE n == Rank(r, j)
        <4>1. n \in 1..MaxHeld
          BY <1>4, <1>6, <3>1, <3>2
        <4>2. Rank(r, at[n]) = Rank(r, j)
          BY <2>1, <4>1
        <4>3. at[n] = j
          <5>1. \A i, k \in 1..Len(r) : Rank(r, i) = Rank(r, k) => i = k
            BY <1>1, PlacesByAge
          <5> QED
            BY <2>1, <4>1, <4>2, <5>1
        <4> QED
          BY <2>4, <4>1, <4>3
      <3>3. CASE MaxHeld < Rank(r, j)
        <4>1. \A n \in 1..MaxHeld : Rank(r, at[n]) < Rank(r, j)
          BY <1>4, <1>6, <2>1, <3>1, <3>3
        <4>2. \A n \in 1..MaxHeld : r[at[n]].age <= r[j].age
          BY <1>1, <2>1, <4>1, PlacesByAge
        <4> QED
          BY <2>4, <4>2
      <3> QED
        BY <1>4, <1>6, <3>1, <3>2, <3>3
    <2>6. \A i \in 1..Len(q) : q[i].age < Fade /\ \E j \in 1..Len(h) : q[i] = h[j]
      <3> TAKE i \in 1..Len(q)
      <3>1. q[i] = r[at[i]] /\ at[i] \in 1..Len(r)
        BY <2>1, <2>4
      <3> QED
        BY <1>1, <1>3, <3>1
    <2>7. \A j \in 1..Len(h) : h[j].age < Fade =>
            \/ \E i \in 1..Len(q) : q[i] = h[j]
            \/ Len(q) = MaxHeld /\ \A i \in 1..Len(q) : q[i].age <= h[j].age
      <3> TAKE j \in 1..Len(h)
      <3> HAVE h[j].age < Fade
      <3>1. PICK k \in 1..Len(r) : r[k] = h[j]
        BY <1>1, <1>2
      <3> QED
        BY <2>4, <2>5, <3>1
    <2>8. q \in Seq(Knot) /\ Len(q) <= MaxHeld /\ Len(q) = MaxHeld
      BY <1>6, <2>4
    <2> HIDE DEF young, r, at
    <2> QED
      BY <2>6, <2>7, <2>8 DEF Left
  <1> QED
    BY <1>7, <1>8

---------------------------------------------------------------------------
(* A frame.                                                                *)

\* What a frame detects are phases.
LEMMA CurrentPhases ==
  ASSUME NEW probe \in Shapes \cup {None}, NEW own \in Shapes \cup {None}, NEW reported \in Reports
  PROVE  Current(probe, own, reported) \in Seq(Phase)
  <1> DEFINE fp == IF probe # None THEN probe ELSE own
             all == [i \in 1..Phases |-> i - 1]
  <1>1. Phases \in Nat /\ reported \in Seq(Phase)
    BY RimAssumption
  <1>2. all \in Seq(Phase)
    <2>1. all \in [1..Phases -> Phase]
      BY <1>1 DEF Phase
    <2> QED
      BY <1>1, <2>1
  <1> HIDE DEF all
  <1>3. Only(all, fp) \in Seq(Phase)
    BY <1>2, OnlyElements
  <1> QED
    BY <1>1, <1>3 DEF Current, all

\* e is d after a frame that took dt, in which cur was detected.
Detected(d, cur, dt, e) ==
  /\ e \in [Phase -> 0..Fade]
  /\ \A k \in 1..Len(cur) : e[cur[k]] = 0
  /\ \A p \in Phase : e[p] <= d[p] + dt
  /\ \A p \in Phase : p \notin ToSet(cur) /\ e[p] < Fade => e[p] = d[p] + dt

\* The history of the model is that.
LEMMA DetectedAfter ==
  ASSUME NEW d \in [Phase -> 0..Fade], NEW cur \in Seq(Phase), NEW dt \in 0..1,
         NEW e, e = [p \in Phase |-> IF p \in ToSet(cur) THEN 0 ELSE Min({d[p] + dt, Fade})]
  PROVE  Detected(d, cur, dt, e)
  <1>1. Fade \in Nat /\ \A p \in Phase : d[p] \in Nat /\ d[p] + dt \in Nat
    BY RimAssumption
  <1>2. \A p \in Phase : Min({d[p] + dt, Fade}) \in {d[p] + dt, Fade}
                         /\ Min({d[p] + dt, Fade}) <= d[p] + dt /\ Min({d[p] + dt, Fade}) <= Fade
    <2> TAKE p \in Phase
    <2> DEFINE S == {d[p] + dt, Fade}
    <2>1. S \subseteq Nat /\ S # {} /\ d[p] + dt \in S /\ Fade \in S
      BY <1>1
    <2> HIDE DEF S
    <2>2. Min(S) \in S /\ \A y \in S : Min(S) <= y
      BY <2>1, MinNat
    <2> QED
      BY <2>1, <2>2 DEF S
  <1>3. \A p \in Phase : e[p] = IF p \in ToSet(cur) THEN 0 ELSE Min({d[p] + dt, Fade})
    OBVIOUS
  <1>4. \A p \in Phase : e[p] \in 0..Fade /\ e[p] <= d[p] + dt
    BY <1>1, <1>2, <1>3
  <1>5. \A k \in 1..Len(cur) : cur[k] \in Phase /\ cur[k] \in ToSet(cur)
    BY ElementOfSeq, LenProperties DEF ToSet
  <1>6. \A k \in 1..Len(cur) : e[cur[k]] = 0
    BY <1>3, <1>5
  <1>7. \A p \in Phase : p \notin ToSet(cur) /\ e[p] < Fade => e[p] = d[p] + dt
    BY <1>1, <1>2, <1>3
  <1>8. e \in [Phase -> 0..Fade]
    BY <1>4
  <1> QED
    BY <1>4, <1>6, <1>7, <1>8 DEF Detected

\* Time takes no knot from a phase: it and those it was followed through age
\* alike.
LEMMA OlderHolds ==
  ASSUME NEW d \in [Phase -> 0..Fade], NEW e \in [Phase -> 0..Fade], NEW dt \in 0..1,
         \A p \in Phase : e[p] <= d[p] + dt,
         NEW h \in Seq(Knot), Aged(d, h), NEW q, q = Older(h, dt)
  PROVE  /\ q \in Seq(Knot) /\ Aged(e, q)
         /\ \A p \in Phase : e[p] = d[p] + dt /\ HeldFor(d, p, h) => HeldFor(e, p, q)
  <1>1. Len(h) \in Nat /\ DOMAIN h = 1..Len(h) /\ \A i \in 1..Len(h) : h[i] \in Knot
    BY LenProperties, ElementOfSeq
  <1>2. \A i \in 1..Len(h) : h[i].phase \in Phase /\ h[i].age \in Nat
    BY <1>1 DEF Knot
  <1>3. q = [i \in 1..Len(h) |-> [h[i] EXCEPT !.age = @ + dt]]
    BY <1>1 DEF Older
  <1>4. \A i \in 1..Len(h) : q[i] \in Knot /\ q[i].phase = h[i].phase /\ q[i].age = h[i].age + dt
    <2> TAKE i \in 1..Len(h)
    <2>1. q[i] = [h[i] EXCEPT !.age = @ + dt]
      BY <1>3
    <2>2. h[i] \in Knot /\ h[i].age + dt \in Nat
      BY <1>1, <1>2
    <2> QED
      BY <2>1, <2>2 DEF Knot
  <1>5. q \in Seq(Knot) /\ Len(q) = Len(h) /\ DOMAIN q = 1..Len(h)
    <2>1. DOMAIN q = 1..Len(h) /\ q \in [1..Len(h) -> Knot]
      <3>1. q = [i \in 1..Len(h) |-> q[i]]
        BY <1>3
      <3> QED
        BY <1>4, <3>1
    <2> QED
      BY <1>1, <2>1, FunctionSeq
  <1>6. \A p \in Phase : d[p] \in Nat /\ e[p] \in Nat
    BY RimAssumption
  <1>7. Aged(e, q)
    <2> SUFFICES ASSUME NEW i \in 1..Len(h) PROVE e[q[i].phase] <= q[i].age
      BY <1>5 DEF Aged
    <2>1. d[h[i].phase] <= h[i].age /\ e[h[i].phase] <= d[h[i].phase] + dt
      BY <1>2 DEF Aged
    <2> QED
      BY <1>2, <1>4, <1>6, <2>1
  <1>8. ASSUME NEW p \in Phase, e[p] = d[p] + dt, HeldFor(d, p, h) PROVE HeldFor(e, p, q)
    <2>1. \A y \in Since(d, p) : y \in Since(e, p)
      BY <1>6, <1>8 DEF Since
    <2>2. \A x \in Phase : Followed(d, p, x) => Followed(e, p, x)
      <3> SUFFICES ASSUME NEW x \in Phase, Followed(d, p, x), NEW S \in SUBSET Since(e, p), p \in S,
                          \A z \in S, y \in Since(e, p) : Apart(z, y) < Match => y \in S
                   PROVE  x \in S
        BY DEF Followed
      <3> DEFINE U == S \cap Since(d, p)
      <3>1. U \in SUBSET Since(d, p) /\ p \in U
        BY <1>6 DEF Since
      <3>2. \A z \in U, y \in Since(d, p) : Apart(z, y) < Match => y \in U
        BY <2>1
      <3> HIDE DEF U
      <3>3. x \in U
        BY <3>1, <3>2 DEF Followed
      <3> QED
        BY <3>3 DEF U
    <2>3. CASE Len(h) >= MaxHeld /\ \A i \in DOMAIN h : h[i].age <= d[p]
      <3>1. \A i \in 1..Len(h) : q[i].age <= e[p]
        BY <1>1, <1>2, <1>4, <1>6, <1>8, <2>3
      <3> QED
        BY <1>5, <2>3, <3>1 DEF HeldFor
    <2>4. CASE \E i \in DOMAIN h : h[i].age <= d[p] /\ Followed(d, p, h[i].phase)
      <3>1. PICK i \in 1..Len(h) : h[i].age <= d[p] /\ Followed(d, p, h[i].phase)
        BY <1>1, <2>4
      <3>2. q[i].age <= e[p] /\ Followed(e, p, q[i].phase)
        BY <1>2, <1>4, <1>6, <1>8, <2>2, <3>1
      <3> QED
        BY <1>5, <3>2 DEF HeldFor
    <2> QED
      BY <1>8, <2>3, <2>4 DEF HeldFor
  <1> QED
    BY <1>5, <1>4, <1>7, <1>8

\* A phase that was held for still is, among the knots that are left.
LEMMA CutHoldsFor ==
  ASSUME NEW d \in [Phase -> 0..Fade], NEW h \in Seq(Knot), Aged(d, h),
         NEW q, q = Truncated(Retained(h))
  PROVE  /\ q \in Seq(Knot) /\ Len(q) <= MaxHeld /\ Aged(d, q)
         /\ \A p \in Phase : d[p] < Fade /\ HeldFor(d, p, h) => HeldFor(d, p, q)
  <1>1. Len(h) \in Nat /\ DOMAIN h = 1..Len(h) /\ \A i \in 1..Len(h) : h[i] \in Knot
    BY LenProperties, ElementOfSeq
  <1>2. \A i \in 1..Len(h) : h[i].phase \in Phase /\ h[i].age \in Nat
    BY <1>1 DEF Knot
  <1>3. /\ q \in Seq(Knot) /\ Len(q) <= MaxHeld
        /\ \A i \in 1..Len(q) : q[i].age < Fade /\ \E j \in 1..Len(h) : q[i] = h[j]
        /\ \A j \in 1..Len(h) : h[j].age < Fade =>
             \/ \E i \in 1..Len(q) : q[i] = h[j]
             \/ Len(q) = MaxHeld /\ \A i \in 1..Len(q) : q[i].age <= h[j].age
        /\ (\A j \in 1..Len(h) : h[j].age < Fade) /\ Len(h) >= MaxHeld => Len(q) = MaxHeld
    <2>1. Left(h, q)
      BY CutHolds
    <2> QED
      BY <2>1 DEF Left
  <1>4. Len(q) \in Nat /\ DOMAIN q = 1..Len(q)
    BY <1>3, LenProperties
  <1>5. Aged(d, q)
    BY <1>3 DEF Aged
  <1>6. MaxHeld \in Nat \ {0} /\ Fade \in Nat /\ \A p \in Phase : d[p] \in Nat
    BY RimAssumption
  <1>7. ASSUME NEW p \in Phase, d[p] < Fade, HeldFor(d, p, h) PROVE HeldFor(d, p, q)
    <2>1. ASSUME NEW j \in 1..Len(h), h[j].age <= d[p],
                 Len(q) = MaxHeld, \A i \in 1..Len(q) : q[i].age <= h[j].age
          PROVE  HeldFor(d, p, q)
      <3>1. \A i \in 1..Len(q) : q[i].age <= d[p]
        <4> TAKE i \in 1..Len(q)
        <4>1. q[i].age \in Nat /\ q[i].age <= h[j].age /\ h[j].age \in Nat
          BY <1>2, <1>3, <2>1
        <4> QED
          BY <1>6, <2>1, <4>1
      <3> QED
        BY <1>4, <1>6, <2>1, <3>1 DEF HeldFor
    <2>2. CASE \E j \in DOMAIN h : h[j].age <= d[p] /\ Followed(d, p, h[j].phase)
      <3>1. PICK j \in 1..Len(h) : h[j].age <= d[p] /\ Followed(d, p, h[j].phase)
        BY <1>1, <2>2
      <3>2. h[j].age < Fade
        BY <1>2, <1>6, <1>7, <3>1
      <3>3. CASE \E i \in 1..Len(q) : q[i] = h[j]
        BY <1>4, <3>1, <3>3 DEF HeldFor
      <3> QED
        BY <1>3, <2>1, <3>1, <3>2, <3>3
    <2>3. CASE Len(h) >= MaxHeld /\ \A j \in DOMAIN h : h[j].age <= d[p]
      <3>1. \A j \in 1..Len(h) : h[j].age <= d[p] /\ h[j].age < Fade
        <4> TAKE j \in 1..Len(h)
        <4>1. h[j].age \in Nat /\ h[j].age <= d[p]
          BY <1>1, <1>2, <2>3
        <4> QED
          BY <1>6, <1>7, <4>1
      <3>2. Len(q) = MaxHeld /\ \A i \in 1..Len(q) : q[i].age <= d[p]
        BY <1>3, <2>3, <3>1
      <3> QED
        BY <1>4, <1>6, <3>2 DEF HeldFor
    <2> QED
      BY <1>7, <2>2, <2>3 DEF HeldFor
  <1> QED
    BY <1>3, <1>5, <1>7

---------------------------------------------------------------------------
\* The types, and KnotsHeld, which is inductive with them.
RimTypes ==
  /\ frames \in 0..Frames
  /\ shape \in Shapes \cup {None}
  /\ held \in Seq(Knot)
  /\ detected \in [Phase -> 0..Fade]
RimInv == RimTypes /\ KnotsHeld

\* Nothing is held, and nothing was detected.
LEMMA RimInitOK == RimInit => RimInv
  <1> SUFFICES ASSUME RimInit PROVE RimInv
    OBVIOUS
  <1>1. held \in Seq(Knot) /\ Len(held) = 0 /\ DOMAIN held = {}
    BY DEF RimInit
  <1>2. \A p \in Phase : detected[p] = Fade
    BY DEF RimInit
  <1>3. KnotsHeld
    BY <1>1, <1>2, RimAssumption DEF KnotsHeld
  <1> QED
    BY <1>1, <1>3, RimAssumption DEF RimInit, RimInv, RimTypes

\* A frame ages the knots, adds or moves those of what it detects and drops some.
LEMMA RimFrame ==
  ASSUME RimInv, NEW probe \in Shapes \cup {None}, NEW reported \in Reports, NEW dt \in 0..1,
         Frame(probe, reported, dt)
  PROVE  RimInv'
  <1> USE DEF RimInv, RimTypes
  <1>1. PICK own \in FrameShapes(probe, dt) :
          /\ shape' = own
          /\ held' = Truncated(Retained(Merged(Older(held, dt), Current(probe, own, reported))))
          /\ detected' = [p \in Phase |-> IF p \in ToSet(Current(probe, own, reported)) THEN 0
                                          ELSE Min({detected[p] + dt, Fade})]
    BY DEF Frame
  <1> DEFINE cur == Current(probe, own, reported)
             older == Older(held, dt)
             merged == Merged(older, cur)
  <1>2. own \in Shapes \cup {None}
    BY DEF FrameShapes
  <1>3. cur \in Seq(Phase)
    BY <1>2, CurrentPhases
  <1> HIDE DEF cur
  <1>4. /\ detected' \in [Phase -> 0..Fade]
        /\ \A k \in 1..Len(cur) : detected'[cur[k]] = 0
        /\ \A p \in Phase : detected'[p] <= detected[p] + dt
        /\ \A p \in Phase : p \notin ToSet(cur) /\ detected'[p] < Fade => detected'[p] = detected[p] + dt
    <2>1. detected' = [p \in Phase |-> IF p \in ToSet(cur) THEN 0 ELSE Min({detected[p] + dt, Fade})]
      BY <1>1 DEF cur
    <2>2. detected \in [Phase -> 0..Fade]
      OBVIOUS
    <2> QED
      <3>1. Detected(detected, cur, dt, detected')
        BY <1>3, <2>1, <2>2, DetectedAfter
      <3> QED
        BY <3>1 DEF Detected
  <1>5. Aged(detected, held)
    BY LenProperties DEF KnotsHeld, Aged
  <1>6. /\ older \in Seq(Knot) /\ Aged(detected', older)
        /\ \A p \in Phase : detected'[p] = detected[p] + dt /\ HeldFor(detected, p, held)
                              => HeldFor(detected', p, older)
    BY <1>4, <1>5, OlderHolds
  <1> HIDE DEF older
  <1>7. /\ merged \in Seq(Knot) /\ Aged(detected', merged)
        /\ \A p \in Phase : HeldFor(detected', p, older) \/ p \in ToSet(cur) => HeldFor(detected', p, merged)
    BY <1>3, <1>4, <1>6, MergedHolds
  <1> HIDE DEF merged
  <1>8. /\ held' \in Seq(Knot) /\ Len(held') <= MaxHeld /\ Aged(detected', held')
        /\ \A p \in Phase : detected'[p] < Fade /\ HeldFor(detected', p, merged) => HeldFor(detected', p, held')
    BY <1>1, <1>4, <1>7, CutHoldsFor DEF merged, older, cur
  <1>9. ASSUME NEW p \in Phase, detected'[p] < Fade PROVE HeldFor(detected', p, held')
    <2>1. CASE p \in ToSet(cur)
      BY <1>7, <1>8, <1>9, <2>1
    <2>2. CASE p \notin ToSet(cur)
      <3>1. detected'[p] = detected[p] + dt
        BY <1>4, <1>9, <2>2
      <3>2. detected[p] < Fade
        BY <1>9, <3>1, RimAssumption
      <3>3. HeldFor(detected, p, held)
        BY <3>2 DEF KnotsHeld
      <3> QED
        BY <1>6, <1>7, <1>8, <1>9, <3>1, <3>3
    <2> QED
      BY <2>1, <2>2
  <1>10. DOMAIN held' = 1..Len(held')
    BY <1>8, LenProperties
  <1>11. KnotsHeld'
    BY <1>8, <1>9, <1>10 DEF KnotsHeld, Aged
  <1>12. frames' \in 0..Frames
    <2>1. frames + 1 \in Nat /\ Frames \in Nat
      BY RimAssumption
    <2> DEFINE S == {frames + 1, Frames}
    <2>2. S \subseteq Nat /\ S # {} /\ Frames \in S
      BY <2>1
    <2> HIDE DEF S
    <2>3. Min(S) \in Nat /\ Min(S) <= Frames
      BY <2>2, MinNat
    <2>4. frames' \in 1..Min(S)
      BY DEF Frame, S
    <2> QED
      BY <2>1, <2>3, <2>4
  <1> QED
    BY <1>1, <1>2, <1>4, <1>8, <1>11, <1>12

\* A stall keeps its knot until it has faded, and no knot is held for what was
\* not detected: KnotsHeld, the hold of compute_rim, for every run of the rim.
THEOREM KnotsStay == RimSpec => []KnotsHeld
  <1>1. RimInv /\ [RimNext]_rimVars => RimInv'
    <2> SUFFICES ASSUME RimInv, [RimNext]_rimVars PROVE RimInv'
      OBVIOUS
    <2>1. CASE RimNext
      BY <2>1, RimFrame DEF RimNext
    <2>2. CASE UNCHANGED rimVars
      <3>1. frames' = frames /\ shape' = shape /\ held' = held /\ detected' = detected
        BY <2>2 DEF rimVars
      <3> QED
        BY <3>1 DEF RimInv, RimTypes, KnotsHeld
    <2> QED
      BY <2>1, <2>2
  <1>2. RimInv => KnotsHeld
    BY DEF RimInv
  <1> QED
    BY <1>1, <1>2, RimInitOK, PTL DEF RimSpec

---------------------------------------------------------------------------
(* The rim and its bottom edge.                                            *)

\* What the sizes of the screen are.
LEMMA Sizes ==
  /\ Width \in Nat /\ Width >= 2 /\ Height \in Nat /\ Height >= 2
  /\ Cells \in Nat /\ Cells = 2 * (Width + Height) - 4 /\ Cells >= 4
  /\ Right \in Nat /\ Right = Width - 1 /\ Cell = 0..(Cells - 1)
  BY BorderAssumption DEF Cells, Right, Cell

\* A cell has a column, and the bottom edge is passed from the right.
LEMMA CellAt ==
  ASSUME NEW i \in Cell
  PROVE  /\ XY(i)[1] \in 0..Right
         /\ XY(i)[2] = Height - 1 =>
              i >= Width + Height - 2 /\ XY(i)[1] = 2 * Width + Height - 3 - i
  <1>1. i \in Nat /\ i < 2 * (Width + Height) - 4
    BY Sizes
  <1>2. CASE i < Width
    <2>0. i \notin Width..(Width + Height - 2) /\ i \notin (Width + Height - 1)..(2 * Width + Height - 3)
      BY <1>1, <1>2, Sizes
    <2>1. XY(i) = <<i, 0>>
      BY <1>2, <2>0, Zenon DEF XY
    <2> QED
      BY <1>1, <1>2, <2>1, Sizes
  <1>3. CASE i \in Width..(Width + Height - 2)
    <2>0. ~(i < Width) /\ i \notin (Width + Height - 1)..(2 * Width + Height - 3)
      BY <1>1, <1>3, Sizes
    <2>1. XY(i) = <<Right, i - Right>>
      BY <1>3, <2>0, Zenon DEF XY
    <2> QED
      BY <1>1, <1>3, <2>1, Sizes
  <1>4. CASE i \in (Width + Height - 1)..(2 * Width + Height - 3)
    <2>0. ~(i < Width) /\ i \notin Width..(Width + Height - 2)
      BY <1>1, <1>4, Sizes
    <2>1. XY(i) = <<2 * Width + Height - 3 - i, Height - 1>>
      BY <1>4, <2>0, Zenon DEF XY
    <2> QED
      BY <1>1, <1>4, <2>1, Sizes
  <1>5. CASE i > 2 * Width + Height - 3
    <2>0. /\ ~(i < Width) /\ i \notin Width..(Width + Height - 2)
          /\ i \notin (Width + Height - 1)..(2 * Width + Height - 3)
      BY <1>1, <1>5, Sizes
    <2>1. XY(i) = <<0, Cells - i>>
      BY <2>0, Zenon DEF XY
    <2> QED
      BY <1>1, <1>5, <2>1, Sizes
  <1> QED
    BY <1>1, <1>2, <1>3, <1>4, <1>5, Sizes

---------------------------------------------------------------------------
(* The runs of lit cells.                                                  *)

\* The first cell that is not lit, the places after it where a run starts, and
\* the place after that run.
Dark == Min(Cell \ lit)
Starts == {n \in 1..(Cells - 1) : On(Dark, n) \in lit /\ On(Dark, n - 1) \notin lit}
After(n) == Min({m \in n..Cells : On(Dark, m) \notin lit})
Run(n) == [cells |-> {On(Dark, m) : m \in n..(After(n) - 1)},
           ends |-> {On(Dark, n - 1), On(Dark, After(n))}]
Runs == Only([n \in 1..(Cells - 1) |-> n], Starts)
Segment == [cells : SUBSET Cell, ends : SUBSET Cell]

\* The places after the first dark cell go once round the rim.
LEMMA DarkCell ==
  ASSUME lit \in SUBSET Cell, lit # Cell
  PROVE  /\ Dark \in Cell /\ Dark \notin lit /\ \A i \in Cell : i \notin lit => Dark <= i
         /\ \A n \in 0..Cells : On(Dark, n) \in Cell
         /\ On(Dark, 0) = Dark /\ On(Dark, Cells) = Dark
         /\ \A i \in lit : \E m \in 1..(Cells - 1) : On(Dark, m) = i
         /\ \A n \in 0..Cells : On(Dark, n) > Dark => On(Dark, n) = Dark + n
  <1> DEFINE S == Cell \ lit
  <1>1. S \subseteq Nat /\ S # {}
    <2>1. Cell \subseteq Nat
      BY Sizes
    <2> QED
      BY <2>1
  <1>2. \A i \in Cell : i \in S <=> i \notin lit
    OBVIOUS
  <1>3. Dark = Min(S) /\ S \subseteq Cell
    BY DEF Dark
  <1> HIDE DEF S
  <1>4. Dark \in S /\ \A y \in S : Dark <= y
    BY <1>1, <1>3, MinNat
  <1>5. Dark \in Nat /\ Dark < Cells /\ Cells \in Nat
    BY <1>3, <1>4, Sizes
  <1>6. \A n \in 0..Cells : On(Dark, n) = IF Dark + n < Cells THEN Dark + n ELSE Dark + n - Cells
    BY DEF On
  <1>7. \A n \in 0..Cells : On(Dark, n) \in Cell
    BY <1>5, <1>6, Sizes
  <1>8. On(Dark, 0) = Dark /\ On(Dark, Cells) = Dark
    BY <1>5, <1>6
  <1>9. \A n \in 0..Cells : On(Dark, n) > Dark => On(Dark, n) = Dark + n
    BY <1>5, <1>6
  <1>10. ASSUME NEW i \in lit PROVE \E m \in 1..(Cells - 1) : On(Dark, m) = i
    <2>1. i \in Nat /\ i < Cells /\ i # Dark
      BY <1>2, <1>3, <1>4, Sizes
    <2> DEFINE m == IF i > Dark THEN i - Dark ELSE i + Cells - Dark
    <2>2. m \in 1..(Cells - 1) /\ (IF Dark + m < Cells THEN Dark + m ELSE Dark + m - Cells) = i
      BY <1>5, <2>1
    <2> HIDE DEF m
    <2>3. m \in 0..Cells
      BY <1>5, <2>2
    <2> QED
      BY <1>6, <2>2, <2>3
  <1> QED
    BY <1>2, <1>3, <1>4, <1>7, <1>8, <1>9, <1>10

\* A run is lit to its end, and ends where none of it is lit, no later than
\* the next one starts.
LEMMA RunEnds ==
  ASSUME lit \in SUBSET Cell, lit # Cell, NEW n \in Starts
  PROVE  /\ n \in 1..(Cells - 1) /\ After(n) \in (n + 1)..Cells
         /\ \A m \in n..Cells : On(Dark, m) \notin lit => After(n) <= m
         /\ \A l \in Starts : n < l => After(n) <= l - 1
  <1> DEFINE S == {m \in n..Cells : On(Dark, m) \notin lit}
  <1>1. n \in 1..(Cells - 1) /\ On(Dark, n) \in lit
    BY DEF Starts
  <1>2. Cells \in S /\ S \subseteq Nat /\ S \subseteq n..Cells /\ n \notin S
    BY <1>1, DarkCell, Sizes
  <1>3. \A m \in n..Cells : m \in S <=> On(Dark, m) \notin lit
    OBVIOUS
  <1>4. After(n) = Min(S)
    BY DEF After
  <1> HIDE DEF S
  <1>5. After(n) \in S /\ \A y \in S : After(n) <= y
    <2>1. S \subseteq Nat /\ S # {}
      BY <1>2
    <2>2. Min(S) \in S /\ \A y \in S : Min(S) <= y
      BY <2>1, MinNat
    <2> QED
      BY <1>4, <2>2, Zenon
  <1>6. After(n) \in (n + 1)..Cells
    <2>1. After(n) \in n..Cells /\ After(n) # n /\ Cells \in Nat
      BY <1>2, <1>5, Sizes
    <2> HIDE DEF After
    <2> QED
      BY <1>1, <2>1
  <1>7. \A l \in Starts : l \in 1..(Cells - 1) /\ On(Dark, l - 1) \notin lit
    BY DEF Starts
  <1>8. \A l \in Starts : n < l => l - 1 \in S
    BY <1>1, <1>3, <1>7, Sizes
  <1> QED
    BY <1>1, <1>3, <1>5, <1>6, <1>8

\* The runs are visited in order, each once.
LEMMA RunsInOrder ==
  /\ Len(Runs) \in Nat /\ DOMAIN Runs = 1..Len(Runs)
  /\ \A k \in 1..Len(Runs) : Runs[k] \in Starts
  /\ \A k, l \in 1..Len(Runs) : k < l => Runs[k] < Runs[l]
  /\ \A n \in Starts : \E k \in 1..Len(Runs) : Runs[k] = n
  <1> DEFINE all == [n \in 1..(Cells - 1) |-> n]
  <1>1. all \in Seq(Nat) /\ Len(all) = Cells - 1 /\ \A n \in 1..(Cells - 1) : all[n] = n
    <2>1. Cells - 1 \in Nat /\ all \in [1..(Cells - 1) -> Nat]
      BY Sizes
    <2> QED
      BY <2>1
  <1>2. Runs = Only(all, Starts)
    BY DEF Runs
  <1> HIDE DEF all
  <1>3. Runs \in Seq(Nat) /\ \E pos : PlacesOf(Runs, pos, all, Starts, Len(all))
    BY <1>1, <1>2, OnlyPlaces
  <1>4. PICK pos : PlacesOf(Runs, pos, all, Starts, Len(all))
    BY <1>3
  <1>5. \A k \in 1..Len(Runs) : pos[k] \in 1..(Cells - 1) /\ Runs[k] = pos[k] /\ Runs[k] \in Starts
    BY <1>1, <1>4 DEF PlacesOf
  <1>6. \A k, l \in 1..Len(Runs) : k < l => Runs[k] < Runs[l]
    BY <1>4, <1>5 DEF PlacesOf
  <1>7. \A n \in Starts : \E k \in 1..Len(Runs) : Runs[k] = n
    <2> TAKE n \in Starts
    <2>1. n \in 1..(Cells - 1) /\ all[n] \in Starts
      BY <1>1 DEF Starts
    <2>2. PICK k \in 1..Len(Runs) : pos[k] = n
      BY <1>1, <1>4, <2>1 DEF PlacesOf
    <2> QED
      BY <1>5, <2>2
  <1> QED
    BY <1>3, <1>5, <1>6, <1>7, LenProperties

\* Segments are the runs, with their ends.
LEMMA SegmentsAre ==
  ASSUME lit \in SUBSET Cell
  PROVE  /\ Segments \in Seq(Segment)
         /\ lit # Cell => /\ Len(Segments) = Len(Runs)
                          /\ \A k \in 1..Len(Runs) : Segments[k] = Run(Runs[k])
  <1>1. CASE lit = Cell
    <2>1. Segments = <<>>
      BY <1>1 DEF Segments
    <2> QED
      BY <1>1, <2>1
  <1>2. CASE lit # Cell
    <2>1. Segments = [k \in 1..Len(Runs) |-> Run(Runs[k])]
      <3>1. Segments = [k \in DOMAIN Runs |-> Run(Runs[k])]
        BY <1>2 DEF Segments, Runs, Run, After, Starts, Dark
      <3> QED
        BY <3>1, RunsInOrder
    <2>2. ASSUME NEW n \in Starts PROVE Run(n) \in Segment
      <3>1. n \in 1..(Cells - 1) /\ After(n) \in (n + 1)..Cells
        BY <1>2, RunEnds
      <3>2. \A m \in (n - 1)..After(n) : On(Dark, m) \in Cell
        <4>1. Cells \in Nat
          BY Sizes
        <4>2. (n - 1)..After(n) \subseteq 0..Cells
          BY <3>1, <4>1
        <4>3. \A m \in 0..Cells : On(Dark, m) \in Cell
          BY <1>2, DarkCell
        <4> QED
          BY <4>2, <4>3
      <3>3. n - 1 \in (n - 1)..After(n) /\ After(n) \in (n - 1)..After(n)
            /\ n..(After(n) - 1) \subseteq (n - 1)..After(n)
        BY <3>1, Sizes
      <3> QED
        BY <3>2, <3>3 DEF Run, Segment
    <2>3. \A k \in 1..Len(Runs) : Run(Runs[k]) \in Segment
      BY <2>2, RunsInOrder
    <2>4. Segments \in [1..Len(Runs) -> Segment]
      BY <2>1, <2>3
    <2> QED
      BY <2>1, <2>4, RunsInOrder
  <1> QED
    BY <1>1, <1>2

\* No lit cell is in none of them, unless all are lit.
LEMMA LitInSegments ==
  ASSUME lit \in SUBSET Cell, lit # Cell, NEW i \in lit
  PROVE  \E k \in 1..Len(Segments) : i \in Segments[k].cells
  <1>1. PICK m \in 1..(Cells - 1) : On(Dark, m) = i
    BY DarkCell
  <1> DEFINE Q == {p \in 0..m : On(Dark, p) \notin lit}
  <1>2. 0 \in Q /\ Q \subseteq 0..m /\ m \notin Q
    BY <1>1, DarkCell
  <1>3. PICK g \in Q : \A y \in Q : y <= g
    <2>1. m \in Nat /\ Q # {}
      BY <1>2, Sizes
    <2> HIDE DEF Q
    <2> QED
      BY <1>2, <2>1, GreatestNat
  <1>4. \A p \in 0..m : p > g => On(Dark, p) \in lit
    BY <1>2, <1>3
  <1>5. On(Dark, g) \notin lit /\ g \in 0..m /\ g # m
    BY <1>2, <1>3
  <1> HIDE DEF Q
  <1> DEFINE n == g + 1
  <1>6. n \in 1..(Cells - 1) /\ n <= m /\ n - 1 = g
    BY <1>1, <1>5, Sizes
  <1>7. n \in Starts
    BY <1>4, <1>5, <1>6 DEF Starts
  <1>8. After(n) \in (n + 1)..Cells /\ On(Dark, After(n)) \notin lit
    <2>1. After(n) \in (n + 1)..Cells
      BY <1>7, RunEnds
    <2> DEFINE S == {p \in n..Cells : On(Dark, p) \notin lit}
    <2>2. Cells \in S /\ S \subseteq Nat
      <3>1. Cells \in Nat /\ n \in 1..(Cells - 1)
        BY <1>6, Sizes
      <3>2. Cells \in n..Cells /\ On(Dark, Cells) \notin lit
        BY <3>1, DarkCell
      <3> QED
        BY <3>1, <3>2
    <2>3. After(n) = Min(S)
      BY DEF After
    <2>4. After(n) \in S
      <3> HIDE DEF S, n
      <3> QED
        BY <2>2, <2>3, MinNat
    <2> QED
      BY <2>1, <2>4
  <1>9. m < After(n)
    <2>1. After(n) <= m => After(n) \in 0..m /\ After(n) > g
      BY <1>1, <1>5, <1>6, <1>8, Sizes
    <2> QED
      BY <1>1, <1>4, <1>6, <1>8, <2>1, Sizes
  <1>10. m \in n..(After(n) - 1)
    BY <1>1, <1>6, <1>8, <1>9
  <1>11. i \in Run(n).cells
    BY <1>1, <1>10 DEF Run
  <1> HIDE DEF n
  <1>12. PICK k \in 1..Len(Runs) : Runs[k] = n
    BY <1>7, RunsInOrder
  <1> QED
    BY <1>11, <1>12, SegmentsAre

---------------------------------------------------------------------------
(* The bottom edge, and what is free of it.                                *)

\* The columns a segment takes of an edge.
ColumnsOn(seg, y) == {XY(i)[1] : i \in {i \in seg.cells \cup seg.ends : XY(i)[2] = y}}
There(y) == Only(Segments, {seg \in ToSet(Segments) : ColumnsOn(seg, y) # {}})
Interval == [from : 0..Right, to : 0..Right]

\* They are inside the border, and have a first and a last.
LEMMA ColumnsInside ==
  ASSUME NEW seg \in Segment, NEW y
  PROVE  /\ ColumnsOn(seg, y) \subseteq 0..Right
         /\ ColumnsOn(seg, y) # {} =>
              /\ Min(ColumnsOn(seg, y)) \in ColumnsOn(seg, y)
              /\ \A x \in ColumnsOn(seg, y) : Min(ColumnsOn(seg, y)) <= x
              /\ Max(ColumnsOn(seg, y)) \in ColumnsOn(seg, y)
  <1>1. seg.cells \cup seg.ends \subseteq Cell
    BY DEF Segment
  <1>2. ColumnsOn(seg, y) \subseteq 0..Right
    BY <1>1, CellAt DEF ColumnsOn
  <1>3. Right \in Nat
    BY Sizes
  <1>4. 0..Right \subseteq Nat
    BY <1>3
  <1>5. ColumnsOn(seg, y) \subseteq Nat
    BY <1>2, <1>4
  <1> QED
    BY <1>2, <1>3, <1>5, MinNat, MaxNat

\* There are intervals of columns, one for each of those segments in order.
LEMMA Reserved ==
  ASSUME lit \in SUBSET Cell, NEW y, NEW r, r = EdgeReserved(y)
  PROVE  /\ There(y) \in Seq(Segment)
         /\ r \in Seq(Interval) /\ Len(r) = Len(There(y)) /\ DOMAIN r = 1..Len(r)
         /\ \A k \in 1..Len(r) : r[k].from = Min(ColumnsOn(There(y)[k], y))
  <1> DEFINE T == There(y)
             S == {seg \in ToSet(Segments) : ColumnsOn(seg, y) # {}}
             I(k) == [from |-> Min(ColumnsOn(T[k], y)), to |-> Max(ColumnsOn(T[k], y))]
  <1>1. r = [k \in DOMAIN T |-> I(k)]
    BY DEF EdgeReserved, There, ColumnsOn
  <1>2. T = Only(Segments, S)
    BY DEF There
  <1>3. \A seg \in S : ColumnsOn(seg, y) # {}
    OBVIOUS
  <1> HIDE DEF S, T
  <1>4. T \in Seq(Segment) /\ \A k \in 1..Len(T) : T[k] \in S
    BY <1>2, SegmentsAre, OnlyElements
  <1>5. Len(T) \in Nat /\ DOMAIN T = 1..Len(T) /\ \A k \in 1..Len(T) : T[k] \in Segment
    BY <1>4, LenProperties, ElementOfSeq
  <1>6. \A k \in 1..Len(T) : I(k) \in Interval
    BY <1>3, <1>4, <1>5, ColumnsInside DEF Interval
  <1>7. r \in [1..Len(T) -> Interval]
    <2> HIDE DEF I
    <2> QED
      BY <1>1, <1>5, <1>6
  <1>8. r \in Seq(Interval) /\ Len(r) = Len(T) /\ DOMAIN r = 1..Len(r)
    BY <1>5, <1>7
  <1>9. \A k \in 1..Len(T) : r[k].from = Min(ColumnsOn(T[k], y))
    BY <1>1, <1>5
  <1> QED
    BY <1>4, <1>8, <1>9 DEF T

\* A column that is skipped to is in no interval, and no further left.
Taken(r) == UNION {r[k].from..r[k].to : k \in DOMAIN r}

LEMMA Skipped ==
  ASSUME NEW r \in Seq(Interval), NEW x \in Nat
  PROVE  SkipReserved(x, r) \in Nat /\ SkipReserved(x, r) >= x /\ SkipReserved(x, r) \notin Taken(r)
  <1> DEFINE S == (x..(x + Width)) \ Taken(r)
  <1>1. \A k \in DOMAIN r : r[k].from \in 0..Right /\ r[k].to \in 0..Right
    <2>1. \A k \in 1..Len(r) : r[k] \in Interval
      BY ElementOfSeq
    <2> QED
      BY <2>1, LenProperties DEF Interval
  <1>2. ASSUME NEW k \in DOMAIN r PROVE x + Width \notin r[k].from..r[k].to
    <2>1. x + Width \in Nat /\ x + Width > Right /\ Right \in Nat
      BY Sizes
    <2>2. r[k].to \in Nat /\ r[k].to <= Right
      BY <1>1, <2>1
    <2> QED
      BY <2>1, <2>2
  <1>3. x + Width \notin Taken(r)
    BY <1>2 DEF Taken
  <1>4. x + Width \in S /\ S \subseteq x..(x + Width)
    BY <1>3, Sizes
  <1>5. SkipReserved(x, r) = Min(S)
    BY DEF SkipReserved, Taken
  <1>6. \A z \in S : z \notin Taken(r)
    OBVIOUS
  <1> HIDE DEF S
  <1>7. S \subseteq Nat /\ S # {}
    BY <1>4, Sizes
  <1>8. Min(S) \in S
    BY <1>7, MinNat
  <1>9. SkipReserved(x, r) \in x..(x + Width) /\ Width \in Nat
    BY <1>4, <1>5, <1>8, Sizes
  <1>10. SkipReserved(x, r) \notin Taken(r)
    BY <1>5, <1>6, <1>8
  <1> HIDE DEF SkipReserved
  <1> QED
    BY <1>9, <1>10

\* With a dark cell before the lower right corner the intervals lie from the
\* right to the left.
FromTheRight(r) == \A j, k \in 1..Len(r) : j < k => r[k].from <= r[j].from

LEMMA BottomFromTheRight ==
  ASSUME lit \in SUBSET Cell, lit # Cell, Dark <= Width + Height - 3
  PROVE  FromTheRight(EdgeReserved(Height - 1))
  <1> DEFINE y == Height - 1
             r == EdgeReserved(y)
             T == There(y)
             S == {seg \in ToSet(Segments) : ColumnsOn(seg, y) # {}}
             end == 2 * Width + Height - 3 - Dark
  <1>0. Dark \in Nat /\ end \in Int /\ Cells \in Nat
    BY DarkCell, Sizes
  <1>1. ASSUME NEW n \in Starts, NEW x \in ColumnsOn(Run(n), y)
        PROVE  x \in Int /\ end - After(n) <= x /\ x <= end - (n - 1)
    <2>1. n \in 1..(Cells - 1) /\ After(n) \in (n + 1)..Cells
      BY RunEnds
    <2>2. PICK i \in Run(n).cells \cup Run(n).ends : XY(i)[2] = y /\ x = XY(i)[1]
      BY <1>1 DEF ColumnsOn
    <2>3. PICK m \in (n - 1)..After(n) : i = On(Dark, m)
      <3>1. CASE i \in Run(n).cells
        <4>1. PICK m \in n..(After(n) - 1) : i = On(Dark, m)
          BY <3>1 DEF Run
        <4>2. m \in (n - 1)..After(n)
          BY <2>1, <4>1
        <4> QED
          BY <4>1, <4>2
      <3>2. CASE i \in Run(n).ends
        <4>1. i = On(Dark, n - 1) \/ i = On(Dark, After(n))
          BY <3>2 DEF Run
        <4>2. n - 1 \in (n - 1)..After(n) /\ After(n) \in (n - 1)..After(n)
          BY <2>1
        <4> QED
          BY <4>1, <4>2
      <3> QED
        BY <2>2, <3>1, <3>2
    <2>4. m \in 0..Cells
      BY <1>0, <2>1, <2>3
    <2>5. i \in Cell
      BY <2>3, <2>4, DarkCell
    <2>6. i >= Width + Height - 2 /\ x = 2 * Width + Height - 3 - i /\ i \in Nat
      BY <2>2, <2>5, CellAt, Sizes
    <2>7. i > Dark
      BY <1>0, <2>6, Sizes
    <2>8. i = Dark + m
      BY <2>3, <2>4, <2>7, DarkCell
    <2>9. x = end - m
      BY <1>0, <2>4, <2>6, <2>8, Sizes
    <2> HIDE DEF end, After
    <2> QED
      BY <1>0, <2>1, <2>3, <2>9
  <1> HIDE DEF end
  <1>2. /\ Segments \in Seq(Segment) /\ Len(Segments) = Len(Runs)
        /\ \A k \in 1..Len(Runs) : Segments[k] = Run(Runs[k])
    BY SegmentsAre
  <1>3. PICK pos : PlacesOf(T, pos, Segments, S, Len(Segments))
    BY <1>2, OnlyPlaces DEF There
  <1>4. /\ T \in Seq(Segment) /\ Len(r) = Len(T) /\ Len(T) \in Nat
        /\ \A k \in 1..Len(T) : r[k].from = Min(ColumnsOn(T[k], y))
    BY Reserved, LenProperties
  <1>5. \A seg \in S : ColumnsOn(seg, y) # {}
    OBVIOUS
  <1> HIDE DEF S, T, r
  <1>6. ASSUME NEW k \in 1..Len(T)
        PROVE  /\ pos[k] \in 1..Len(Runs) /\ Runs[pos[k]] \in Starts
               /\ r[k].from \in ColumnsOn(Run(Runs[pos[k]]), y)
    <2>1. pos[k] \in 1..Len(Runs) /\ T[k] = Segments[pos[k]] /\ T[k] \in S
      BY <1>2, <1>3 DEF PlacesOf
    <2>2. Runs[pos[k]] \in Starts /\ T[k] = Run(Runs[pos[k]])
      BY <1>2, <2>1, RunsInOrder
    <2>3. ColumnsOn(T[k], y) # {} /\ T[k] \in Segment
      BY <1>4, <1>5, <2>1, ElementOfSeq
    <2>4. r[k].from \in ColumnsOn(T[k], y)
      BY <1>4, <2>3, ColumnsInside
    <2> QED
      BY <2>1, <2>2, <2>4
  <1>7. ASSUME NEW j \in 1..Len(T), NEW k \in 1..Len(T), j < k PROVE r[k].from <= r[j].from
    <2> DEFINE a == Runs[pos[j]]
               b == Runs[pos[k]]
    <2>1. pos[j] \in 1..Len(Runs) /\ pos[k] \in 1..Len(Runs) /\ pos[j] < pos[k]
      BY <1>3, <1>6, <1>7 DEF PlacesOf
    <2>2. a \in Starts /\ b \in Starts /\ a < b
      BY <1>6, <2>1, RunsInOrder
    <2>3. r[j].from \in ColumnsOn(Run(a), y) /\ r[k].from \in ColumnsOn(Run(b), y)
      BY <1>6
    <2> HIDE DEF a, b
    <2>4. After(a) \in Int /\ b \in Int /\ After(a) <= b - 1
      <3>1. After(a) \in (a + 1)..Cells /\ a \in 1..(Cells - 1) /\ b \in 1..(Cells - 1)
            /\ After(a) <= b - 1
        BY <2>2, RunEnds
      <3> HIDE DEF After
      <3> QED
        BY <3>1
    <2>5. /\ r[j].from \in Int /\ end - After(a) <= r[j].from
          /\ r[k].from \in Int /\ r[k].from <= end - (b - 1)
      BY <1>1, <2>2, <2>3
    <2> HIDE DEF After
    <2> QED
      BY <1>0, <2>4, <2>5
  <1> QED
    BY <1>4, <1>7 DEF FromTheRight, r

---------------------------------------------------------------------------
(* Where the keys go.                                                      *)

\* f holds where they are after each of the first m intervals.
Clears(f, n, r, m) ==
  f = [k \in 0..m |-> IF k = 0 THEN Max({0, Right - n - 2}) ELSE Clear(f[k - 1], n, r[k])]

\* There is such a function, for every beginning.
LEMMA ClearsExist == ASSUME NEW n, NEW r, NEW m \in Nat PROVE \E f : Clears(f, n, r, m)
  <1> DEFINE x0 == Max({0, Right - n - 2})
             T == {k \in Nat : \E f : Clears(f, n, r, k)}
  <1>1. 0 \in T
    <2> DEFINE f == [k \in 0..0 |-> x0]
    <2>1. Clears(f, n, r, 0)
      BY DEF Clears
    <2> QED
      BY <2>1
  <1>2. ASSUME NEW k \in Nat, k \in T PROVE k + 1 \in T
    <2>1. PICK f : Clears(f, n, r, k)
      BY <1>2
    <2> DEFINE e == Clear(f[k], n, r[k + 1])
               g == [i \in 0..(k + 1) |-> IF i = k + 1 THEN e ELSE f[i]]
    <2>2. \A i \in 0..k : f[i] = IF i = 0 THEN x0 ELSE Clear(f[i - 1], n, r[i])
      BY <2>1 DEF Clears
    <2> HIDE DEF x0
    <2>3. \A i \in 0..(k + 1) : g[i] = IF i = 0 THEN x0 ELSE Clear(g[i - 1], n, r[i])
      <3> TAKE i \in 0..(k + 1)
      <3>1. CASE i = k + 1
        <4>1. g[i] = e /\ g[i - 1] = f[k] /\ i # 0
          BY <3>1
        <4> QED
          BY <3>1, <4>1
      <3>2. CASE i \in 0..k
        <4>1. g[i] = f[i] /\ (i # 0 => g[i - 1] = f[i - 1])
          BY <3>2
        <4> QED
          BY <2>2, <3>2, <4>1
      <3> QED
        BY <3>1, <3>2
    <2>4. Clears(g, n, r, k + 1)
      <3>1. g = [i \in 0..(k + 1) |-> g[i]]
        OBVIOUS
      <3> HIDE DEF g
      <3> QED
        BY <2>3, <3>1 DEF Clears, x0
    <2> QED
      BY <2>4
  <1> HIDE DEF T
  <1>3. Nat \subseteq T
    BY <1>1, <1>2, SetInduction
  <1> QED
    BY <1>3 DEF T

\* They stay inside; and clear of intervals that lie from the right to the
\* left, unless they have come to the left end.
Aside(x, n, r, m) == x = 0 \/ \A j \in 1..m : x > r[j].to \/ x + n < r[j].from

LEMMA RightAlignedClear ==
  ASSUME NEW n \in Nat, NEW r \in Seq(Interval), NEW x, x = RightAligned(n, r)
  PROVE  x \in Nat /\ (x = 0 \/ x <= Right - n - 2)
         /\ (FromTheRight(r) => Aside(x, n, r, Len(r)))
  <1> DEFINE f == CHOOSE f : Clears(f, n, r, Len(r))
  <1>1. Len(r) \in Nat
    BY LenProperties
  <1>2. \A k \in 1..Len(r) : r[k].from \in Nat /\ r[k].to \in Nat
    <2>1. \A k \in 1..Len(r) : r[k] \in Interval
      BY ElementOfSeq
    <2> QED
      BY <2>1, Sizes DEF Interval
  <1>3. Clears(f, n, r, Len(r))
    BY <1>1, ClearsExist
  <1>4. x = f[Len(r)]
    BY DEF RightAligned, Clears
  <1>5. \A k \in 0..Len(r) :
          f[k] = IF k = 0 THEN Max({0, Right - n - 2}) ELSE Clear(f[k - 1], n, r[k])
    BY <1>3 DEF Clears
  <1> HIDE DEF f
  <1>6. ASSUME NEW a \in Int
        PROVE  Max({0, a}) = IF a > 0 THEN a ELSE 0
    <2>1. \E z \in {0, a} : \A v \in {0, a} : z >= v
      BY <1>6
    <2>2. Max({0, a}) \in {0, a} /\ \A v \in {0, a} : Max({0, a}) >= v
      BY <2>1 DEF Max
    <2>3. Max({0, a}) \in Int /\ (Max({0, a}) = 0 \/ Max({0, a}) = a) /\ Max({0, a}) >= 0 /\ Max({0, a}) >= a
      BY <1>6, <2>2
    <2> QED
      BY <1>6, <2>3
  <1> DEFINE Good(k) == /\ f[k] \in Nat /\ (f[k] = 0 \/ f[k] <= Right - n - 2)
                        /\ FromTheRight(r) => Aside(f[k], n, r, k)
             T == {k \in Nat : k <= Len(r) => Good(k)}
  <1>7. Good(0)
    <2>1. Right - n - 2 \in Int
      BY Sizes
    <2>2. f[0] = IF Right - n - 2 > 0 THEN Right - n - 2 ELSE 0
      BY <1>1, <1>5, <1>6, <2>1
    <2> QED
      BY <2>1, <2>2 DEF Aside
  <1>8. ASSUME NEW k \in Nat, k + 1 <= Len(r), Good(k) PROVE Good(k + 1)
    <2> DEFINE from == r[k + 1].from
               to == r[k + 1].to
    <2>1. k + 1 \in 1..Len(r) /\ k + 1 \in 0..Len(r) /\ k + 1 # 0 /\ (k + 1) - 1 = k
      BY <1>1, <1>8
    <2>2. from \in Nat /\ to \in Nat /\ f[k] \in Nat
      BY <1>2, <1>8, <2>1
    <2>3. f[k + 1] = Clear(f[k], n, r[k + 1])
      BY <1>5, <2>1
    <2>4. f[k + 1] = IF f[k] <= to /\ f[k] + n >= from
                     THEN IF from - n - 1 > 0 THEN from - n - 1 ELSE 0 ELSE f[k]
      <3>1. from - n - 1 \in Int
        BY <2>2
      <3>2. Max({0, from - n - 1}) = IF from - n - 1 > 0 THEN from - n - 1 ELSE 0
        BY <1>6, <3>1
      <3> QED
        BY <2>3, <3>2 DEF Clear
    <2>5. \A j \in 1..(k + 1) : /\ r[j].from \in Nat /\ r[j].to \in Nat
                                /\ j = k + 1 \/ j \in 1..k
      BY <1>1, <1>2, <1>8
    <2>6. f[k + 1] \in Nat /\ f[k + 1] <= f[k]
      <3> HIDE DEF from, to
      <3> QED
        BY <2>2, <2>4
    <2>7. ASSUME FromTheRight(r) PROVE Aside(f[k + 1], n, r, k + 1)
      <3> SUFFICES ASSUME f[k + 1] # 0, NEW j \in 1..(k + 1)
                   PROVE  f[k + 1] > r[j].to \/ f[k + 1] + n < r[j].from
        BY DEF Aside
      <3>1. CASE j = k + 1
        BY <2>2, <2>4, <2>6, <3>1
      <3>2. CASE j \in 1..k
        <4>1. f[k] # 0
          BY <2>2, <2>6
        <4>2. f[k] > r[j].to \/ f[k] + n < r[j].from
          BY <1>8, <2>7, <3>2, <4>1 DEF Aside
        <4>3. from <= r[j].from
          BY <1>1, <2>1, <2>7, <3>2 DEF FromTheRight
        <4>4. r[j].from \in Nat /\ r[j].to \in Nat
          BY <2>5
        <4> HIDE DEF from, to
        <4> QED
          BY <2>2, <2>4, <2>6, <4>2, <4>3, <4>4
      <3> QED
        BY <2>5, <3>1, <3>2
    <2> QED
      BY <1>8, <2>2, <2>6, <2>7, Sizes
  <1> HIDE DEF Good
  <1>9. 0 \in T /\ \A k \in Nat : k \in T => k + 1 \in T
    BY <1>1, <1>7, <1>8
  <1> HIDE DEF T
  <1>10. Nat \subseteq T
    BY <1>9, SetInduction
  <1>11. Good(Len(r))
    BY <1>1, <1>10 DEF T
  <1> QED
    BY <1>4, <1>11 DEF Good

---------------------------------------------------------------------------
(* The parts of the bottom edge.                                           *)

Text == [status : Nat, keys : Nat, readout : Nat, legend : Seq(Nat)]
Others(b) == b.keys \o b.readout
Parts(b) == <<b.status>> \o Others(b)

\* What BorderLegible says of them, m being the columns of markers.
PartsLegible(b, m) ==
  /\ \A i, j \in DOMAIN Parts(b) : i # j => Columns(Parts(b)[i]) \cap Columns(Parts(b)[j]) = {}
  /\ \A i \in DOMAIN Others(b) : Columns(Others(b)[i]) \subseteq 1..(Right - 1)
  /\ \A p \in {b.status} \cup ToSet(b.readout) : p.from \notin m
  /\ (\E i \in 0..(Width + Height - 3) : i \notin lit) =>
       \A i \in DOMAIN b.keys : Columns(b.keys[i]) \cap m = {}

\* A list of at most one part.
AtMostOne(K) == K = <<>> \/ \E k : K = <<k>>

\* It is a sequence, of what it holds.
LEMMA OneListed ==
  ASSUME NEW K, AtMostOne(K), NEW A, ToSet(K) \subseteq A
  PROVE  /\ K \in Seq(A) /\ Len(K) \in Nat /\ Len(K) <= 1 /\ DOMAIN K = 1..Len(K)
         /\ \A i \in 1..Len(K) : K[i] \in ToSet(K)
         /\ \A p \in ToSet(K) : \E i \in 1..Len(K) : K[i] = p
  <1>1. CASE K = <<>>
    BY <1>1 DEF ToSet
  <1>2. CASE \E k : K = <<k>>
    <2>1. PICK k : K = <<k>>
      BY <1>2
    <2>2. Len(K) = 1 /\ DOMAIN K = {1} /\ K[1] = k /\ 1..1 = {1}
      BY <2>1
    <2>3. ToSet(K) = {k}
      BY <2>2 DEF ToSet
    <2>4. K \in Seq(A)
      BY <2>1, <2>3
    <2> QED
      BY <2>2, <2>3, <2>4
  <1> QED
    BY <1>1, <1>2 DEF AtMostOne

\* One part, then a list O of two lists, then P of all: what is in them.
Listed(s, K, R, O, P) ==
  /\ \A i \in DOMAIN O : O[i] \in ToSet(K) \cup ToSet(R)
  /\ \A p \in {s} \cup ToSet(K) \cup ToSet(R) : \E i \in DOMAIN P : P[i] = p
  /\ \A i, j \in DOMAIN P : i < j =>
       \/ P[i] = s /\ P[j] \in ToSet(K) \cup ToSet(R)
       \/ P[i] \in ToSet(K) /\ P[j] \in ToSet(R)
  /\ \A i \in DOMAIN P : P[i] \in {s} \cup ToSet(K) \cup ToSet(R)
  /\ DOMAIN P \subseteq Nat

\* Two of them are different ones.
LEMMA PartsListed ==
  ASSUME NEW s, NEW K, NEW R, AtMostOne(K), AtMostOne(R),
         NEW O, O = K \o R, NEW P, P = <<s>> \o O
  PROVE  Listed(s, K, R, O, P)
  <1> DEFINE A == {s} \cup ToSet(K) \cup ToSet(R)
             S == <<s>>
  <1>1. ToSet(K) \subseteq A /\ ToSet(R) \subseteq A /\ s \in A
    OBVIOUS
  <1>2. S \in Seq(A) /\ Len(S) = 1 /\ S[1] = s
    OBVIOUS
  <1>3. P = S \o O
    OBVIOUS
  <1> HIDE DEF A, S
  <1>4. /\ K \in Seq(A) /\ Len(K) \in Nat /\ Len(K) <= 1 /\ DOMAIN K = 1..Len(K)
        /\ \A i \in 1..Len(K) : K[i] \in ToSet(K)
        /\ \A p \in ToSet(K) : \E i \in 1..Len(K) : K[i] = p
    BY <1>1, OneListed
  <1>5. /\ R \in Seq(A) /\ Len(R) \in Nat /\ Len(R) <= 1 /\ DOMAIN R = 1..Len(R)
        /\ \A i \in 1..Len(R) : R[i] \in ToSet(R)
        /\ \A p \in ToSet(R) : \E i \in 1..Len(R) : R[i] = p
    BY <1>1, OneListed
  <1>6. /\ O \in Seq(A) /\ Len(O) = Len(K) + Len(R) /\ DOMAIN O = 1..Len(O)
        /\ \A i \in 1..Len(O) : i \in 1..Len(K) \/ i - Len(K) \in 1..Len(R)
        /\ \A i \in 1..Len(K) : i \in 1..Len(O) /\ O[i] = K[i]
        /\ \A i \in 1..Len(R) : i + Len(K) \in 1..Len(O) /\ O[i + Len(K)] = R[i]
    BY <1>4, <1>5, TwoListed
  <1>7. /\ P \in Seq(A) /\ Len(P) = 1 + Len(O) /\ DOMAIN P = 1..Len(P)
        /\ \A i \in 1..Len(P) : i \in 1..1 \/ i - 1 \in 1..Len(O)
        /\ \A i \in 1..1 : i \in 1..Len(P) /\ P[i] = S[i]
        /\ \A i \in 1..Len(O) : i + 1 \in 1..Len(P) /\ P[i + 1] = O[i]
    BY <1>2, <1>3, <1>6, TwoListed
  <1>8. ASSUME NEW i \in 1..Len(O)
        PROVE  \/ i \in 1..Len(K) /\ O[i] \in ToSet(K)
               \/ i - Len(K) \in 1..Len(R) /\ O[i] \in ToSet(R)
    <2>1. CASE i \in 1..Len(K)
      BY <1>4, <1>6, <2>1
    <2>2. CASE i - Len(K) \in 1..Len(R)
      <3>1. (i - Len(K)) + Len(K) = i
        BY <1>4
      <3> QED
        BY <1>5, <1>6, <2>2, <3>1
    <2> QED
      BY <1>6, <2>1, <2>2
  <1>9. \A i \in DOMAIN O : O[i] \in ToSet(K) \cup ToSet(R)
    BY <1>6, <1>8
  <1>10. ASSUME NEW i \in 1..Len(P)
         PROVE  \/ i = 1 /\ P[i] = s
                \/ i - 1 \in 1..Len(K) /\ P[i] \in ToSet(K)
                \/ i - 1 - Len(K) \in 1..Len(R) /\ P[i] \in ToSet(R)
    <2>1. CASE i \in 1..1
      BY <1>2, <1>7, <2>1
    <2>2. CASE i - 1 \in 1..Len(O)
      <3>1. (i - 1) + 1 = i
        OBVIOUS
      <3>2. P[i] = O[i - 1]
        BY <1>7, <2>2, <3>1
      <3> QED
        BY <1>8, <2>2, <3>2
    <2> QED
      BY <1>7, <2>1, <2>2
  <1>11. ASSUME NEW p \in {s} \cup ToSet(K) \cup ToSet(R) PROVE \E i \in 1..Len(P) : P[i] = p
    <2>1. CASE p = s
      BY <1>2, <1>7, <2>1
    <2>2. ASSUME NEW i \in 1..Len(O), O[i] = p PROVE \E l \in 1..Len(P) : P[l] = p
      BY <1>7, <2>2
    <2>3. CASE p \in ToSet(K)
      BY <1>4, <1>6, <2>2, <2>3
    <2>4. CASE p \in ToSet(R)
      BY <1>5, <1>6, <2>2, <2>4
    <2> QED
      BY <2>1, <2>3, <2>4
  <1>12. ASSUME NEW i \in 1..Len(P), NEW j \in 1..Len(P), i < j
         PROVE  \/ P[i] = s /\ P[j] \in ToSet(K) \cup ToSet(R)
                \/ P[i] \in ToSet(K) /\ P[j] \in ToSet(R)
    <2>1. i \in Nat /\ j \in Nat /\ j # 1
      BY <1>12
    <2>2. CASE i = 1 /\ P[i] = s
      BY <1>10, <2>1, <2>2
    <2>3. CASE i - 1 \in 1..Len(K) /\ P[i] \in ToSet(K)
      <3>1. ~(j - 1 \in 1..Len(K))
        BY <1>4, <1>12, <2>1, <2>3
      <3> QED
        BY <1>10, <2>1, <2>3, <3>1
    <2>4. CASE i - 1 - Len(K) \in 1..Len(R)
      <3>1. ~(j - 1 \in 1..Len(K)) /\ ~(j - 1 - Len(K) \in 1..Len(R))
        BY <1>4, <1>5, <1>12, <2>1, <2>4
      <3> QED
        BY <1>10, <2>1, <3>1
    <2> QED
      BY <1>10, <2>2, <2>3, <2>4
  <1>13. DOMAIN P = 1..Len(P) /\ DOMAIN P \subseteq Nat
    BY <1>7
  <1>14. \A i \in DOMAIN P : P[i] \in {s} \cup ToSet(K) \cup ToSet(R)
    BY <1>7, <1>10
  <1> QED
    BY <1>9, <1>11, <1>12, <1>13, <1>14 DEF Listed

\* The parts of the bottom edge and where they start.
LEMMA BottomIs ==
  ASSUME NEW b, b = BottomBorder, NEW r, r = EdgeReserved(Height - 1),
         NEW sw, sw = FullWidth(text.status), NEW kw, kw = FullWidth(text.keys),
         NEW rw, rw = FullWidth(text.readout),
         NEW s0, s0 = SkipReserved(2, r), NEW end, end = (s0 + sw - 1) + 1,
         NEW kx, kx = RightAligned(kw, r), NEW sx, sx = SkipReserved(end + 2, r)
  PROVE  /\ b.status = Part(s0, sw)
         /\ b.keys = IF kx > end + 1 THEN <<Part(kx, kw)>> ELSE <<>>
         /\ \/ b.readout = <<>>
            \/ /\ b.readout = <<Part(sx, rw)>>
               /\ sx + rw + 1 < IF b.keys # <<>> THEN kx ELSE Right - 2
  BY DEF BottomBorder, Part

\* Each of them starts far enough from the others and from the markers.
LEMMA BottomLegible ==
  ASSUME lit \in SUBSET Cell, text \in Text, NEW b, b = BottomBorder
  PROVE  /\ PartsLegible(b, Taken(EdgeReserved(Height - 1)))
         /\ \A p \in {b.status} \cup ToSet(b.keys) \cup ToSet(b.readout) :
              \E i \in DOMAIN Parts(b) : Parts(b)[i] = p
         /\ \A i \in DOMAIN Parts(b) :
              Parts(b)[i] \in {b.status} \cup ToSet(b.keys) \cup ToSet(b.readout)
  <1> DEFINE r == EdgeReserved(Height - 1)
             sw == FullWidth(text.status)
             kw == FullWidth(text.keys)
             rw == FullWidth(text.readout)
             s0 == SkipReserved(2, r)
             end == (s0 + sw - 1) + 1
             kx == RightAligned(kw, r)
             sx == SkipReserved(end + 2, r)
             st == Part(s0, sw)
             K == b.keys
             R == b.readout
  <1>1. /\ b.status = st
        /\ K = IF kx > end + 1 THEN <<Part(kx, kw)>> ELSE <<>>
        /\ \/ R = <<>>
           \/ R = <<Part(sx, rw)>> /\ sx + rw + 1 < IF K # <<>> THEN kx ELSE Right - 2
    BY BottomIs
  <1>2. sw \in Nat /\ sw >= 4 /\ kw \in Nat /\ kw >= 4 /\ rw \in Nat /\ rw >= 4
    BY DEF FullWidth, Text
  <1>3. r \in Seq(Interval)
    BY Reserved
  <1> HIDE DEF r, sw, kw, rw
  <1>4. s0 \in Nat /\ s0 >= 2 /\ s0 \notin Taken(r)
    BY <1>3, Skipped
  <1>5. end \in Nat /\ end = s0 + sw
    BY <1>2, <1>4
  <1> HIDE DEF s0, end
  <1>6. sx \in Nat /\ sx >= end + 2 /\ sx \notin Taken(r)
    <2>1. end + 2 \in Nat
      BY <1>5
    <2> QED
      BY <1>3, <2>1, Skipped
  <1>7. /\ kx \in Nat /\ (kx = 0 \/ kx <= Right - kw - 2)
        /\ FromTheRight(r) => Aside(kx, kw, r, Len(r))
    BY <1>2, <1>3, RightAlignedClear
  <1> HIDE DEF kx, sx
  <1>8. Right \in Nat
    BY Sizes
  <1>9. /\ st.from = s0 /\ Columns(st) = s0..(end - 1)
        /\ Columns(Part(kx, kw)) = kx..(kx + kw - 1)
        /\ Part(sx, rw).from = sx /\ Columns(Part(sx, rw)) = sx..(sx + rw - 1)
    <2>1. s0 + sw - 1 = end - 1
      BY <1>2, <1>4, <1>5
    <2> QED
      BY <2>1 DEF Part, Columns
  <1> HIDE DEF st
  <1>10. ASSUME NEW p \in ToSet(K)
         PROVE  /\ K # <<>> /\ p = Part(kx, kw) /\ Columns(p) = kx..(kx + kw - 1)
                /\ kx > end + 1 /\ kx <= Right - kw - 2
    <2>1. K = <<Part(kx, kw)>> /\ kx > end + 1
      BY <1>1 DEF ToSet
    <2>2. p = Part(kx, kw) /\ K # <<>>
      BY <2>1 DEF ToSet
    <2> QED
      BY <1>5, <1>7, <1>9, <2>1, <2>2
  <1>11. ASSUME NEW p \in ToSet(R)
         PROVE  /\ p = Part(sx, rw) /\ Columns(p) = sx..(sx + rw - 1)
                /\ sx + rw + 1 < Right - 2 /\ (K # <<>> => sx + rw + 1 < kx)
    <2>1. R = <<Part(sx, rw)>> /\ sx + rw + 1 < IF K # <<>> THEN kx ELSE Right - 2
      BY <1>1 DEF ToSet
    <2>2. p = Part(sx, rw)
      BY <2>1 DEF ToSet
    <2>3. K # <<>> => kx <= Right - kw - 2
      BY <1>1, <1>5, <1>7
    <2>4. sx + rw + 1 < Right - 2
      BY <1>2, <1>6, <1>7, <1>8, <2>1, <2>3
    <2> QED
      BY <1>9, <2>1, <2>2, <2>4
  <1>12. \A p \in ToSet(K) \cup ToSet(R) : Columns(st) \cap Columns(p) = {}
    <2>1. \A p \in ToSet(K) : Columns(st) \cap Columns(p) = {}
      BY <1>2, <1>4, <1>5, <1>7, <1>9, <1>10
    <2>2. \A p \in ToSet(R) : Columns(st) \cap Columns(p) = {}
      <3> TAKE p \in ToSet(R)
      <3>1. Columns(st) = s0..(end - 1) /\ Columns(p) = sx..(sx + rw - 1)
        BY <1>9, <1>11
      <3> QED
        BY <1>2, <1>4, <1>5, <1>6, <3>1
    <2> QED
      BY <2>1, <2>2
  <1>13. \A p \in ToSet(K), q \in ToSet(R) : Columns(p) \cap Columns(q) = {}
    <2> TAKE p \in ToSet(K), q \in ToSet(R)
    <2>1. Columns(p) = kx..(kx + kw - 1) /\ Columns(q) = sx..(sx + rw - 1) /\ sx + rw + 1 < kx
      BY <1>10, <1>11
    <2> QED
      BY <1>2, <1>6, <1>7, <2>1
  <1>14. \A p \in ToSet(K) \cup ToSet(R) : Columns(p) \subseteq 1..(Right - 1)
    <2>1. \A p \in ToSet(K) : Columns(p) \subseteq 1..(Right - 1)
      BY <1>2, <1>5, <1>7, <1>8, <1>10
    <2>2. \A p \in ToSet(R) : Columns(p) \subseteq 1..(Right - 1)
      BY <1>2, <1>5, <1>6, <1>8, <1>11
    <2> QED
      BY <2>1, <2>2
  <1>15. \A p \in {st} \cup ToSet(R) : p.from \notin Taken(r)
    BY <1>4, <1>6, <1>9, <1>11
  <1>16. ASSUME NEW i \in 0..(Width + Height - 3), i \notin lit, NEW p \in ToSet(K)
         PROVE  Columns(p) \cap Taken(r) = {}
    <2>1. i \in Cell /\ lit # Cell
      BY <1>16, Sizes
    <2>2. Dark <= i /\ Dark \in Nat
      BY <1>16, <2>1, DarkCell, Sizes
    <2>3. Dark <= Width + Height - 3
      BY <1>16, <2>2, Sizes
    <2>4. FromTheRight(r)
      BY <2>1, <2>3, BottomFromTheRight DEF r
    <2>5. kx # 0 /\ Columns(p) = kx..(kx + kw - 1)
      BY <1>5, <1>10
    <2>6. \A j \in 1..Len(r) : kx > r[j].to \/ kx + kw < r[j].from
      BY <1>7, <2>4, <2>5 DEF Aside
    <2>7. DOMAIN r = 1..Len(r) /\ \A j \in 1..Len(r) : r[j].from \in Nat /\ r[j].to \in Nat
      <3>1. \A j \in 1..Len(r) : r[j] \in Interval
        BY <1>3, ElementOfSeq
      <3> QED
        BY <1>3, <3>1, LenProperties, Sizes DEF Interval
    <2>8. \A j \in DOMAIN r : Columns(p) \cap (r[j].from..r[j].to) = {}
      BY <1>2, <1>7, <2>5, <2>6, <2>7
    <2> QED
      BY <2>8 DEF Taken
  <1>17. AtMostOne(K) /\ AtMostOne(R)
    BY <1>1 DEF AtMostOne
  <1> DEFINE O == Others(b)
             P == Parts(b)
  <1>18. O = K \o R /\ P = <<b.status>> \o O
    BY DEF Others, Parts
  <1> HIDE DEF O, P, K, R
  <1>25. Listed(b.status, K, R, O, P)
    BY <1>17, <1>18, PartsListed
  <1>19. /\ \A i \in DOMAIN O : O[i] \in ToSet(K) \cup ToSet(R)
         /\ \A p \in {b.status} \cup ToSet(K) \cup ToSet(R) : \E i \in DOMAIN P : P[i] = p
         /\ \A i, j \in DOMAIN P : i < j =>
              \/ P[i] = b.status /\ P[j] \in ToSet(K) \cup ToSet(R)
              \/ P[i] \in ToSet(K) /\ P[j] \in ToSet(R)
         /\ \A i \in DOMAIN P : P[i] \in {b.status} \cup ToSet(K) \cup ToSet(R)
         /\ DOMAIN P \subseteq Nat
    BY <1>25, Zenon DEF Listed
  <1>20. \A i, j \in DOMAIN P : i < j => Columns(P[i]) \cap Columns(P[j]) = {}
    BY <1>1, <1>12, <1>13, <1>19
  <1>21. \A i, j \in DOMAIN P : i # j => Columns(P[i]) \cap Columns(P[j]) = {}
    <2> TAKE i, j \in DOMAIN P
    <2>1. i # j => i < j \/ j < i
      BY <1>19
    <2> QED
      BY <1>20, <2>1
  <1>22. \A i \in DOMAIN O : Columns(O[i]) \subseteq 1..(Right - 1)
    BY <1>14, <1>19
  <1>23. \A i \in DOMAIN K : K[i] \in ToSet(K)
    BY DEF ToSet
  <1>24. (\E i \in 0..(Width + Height - 3) : i \notin lit) =>
            \A i \in DOMAIN K : Columns(K[i]) \cap Taken(r) = {}
    BY <1>16, <1>23
  <1> QED
    BY <1>1, <1>15, <1>19, <1>21, <1>22, <1>24 DEF PartsLegible, K, R, O, P, r

---------------------------------------------------------------------------
(* A frame.                                                                *)

\* Cell i holds a text of header h or of the parts of the footer.
WrittenAs(i, h, parts) ==
  \/ XY(i)[2] = 0 /\ \E n \in DOMAIN h : XY(i)[1] \in h[n].text
  \/ XY(i)[2] = Height - 1 /\ \E n \in DOMAIN parts : XY(i)[1] \in parts[n].text

\* BorderLegible of the values of the variables and the intervals of the edge.
LegibleAs(l, h, f, k, reserved) ==
  LET m == UNION {Columns(r) : r \in ToSet(reserved)}
      others == f.keys \o f.readout
      parts == <<f.status>> \o others
  IN /\ \A i, j \in DOMAIN parts : i # j => Columns(parts[i]) \cap Columns(parts[j]) = {}
     /\ \A i \in DOMAIN others : Columns(others[i]) \subseteq 1..(Right - 1)
     /\ \A p \in {f.status} \cup ToSet(f.readout) : p.from \notin m
     /\ (\E i \in 0..(Width + Height - 3) : i \notin l) =>
          \A i \in DOMAIN f.keys : Columns(f.keys[i]) \cap m = {}
     /\ \A i \in k : ~WrittenAs(i, h, parts)
     /\ l # Cell => \A i \in l \ k : WrittenAs(i, h, parts)

\* What is lit and the texts stay; with them BorderLegible is inductive.
BorderInv == lit \in SUBSET Cell /\ text \in Text /\ BorderLegible

\* What is drawn is legible.
LEMMA BorderDraw == ASSUME BorderInv, Draw PROVE BorderInv'
  <1> USE DEF BorderInv
  <1>1. lit' = lit /\ text' = text /\ footer' = BottomBorder /\ marked' = StutterSegments
    BY DEF Draw
  <1> DEFINE y == Height - 1
  <1>2. Segments' = Segments
    BY <1>1 DEF Segments
  <1>3. EdgeReserved(y)' = EdgeReserved(y)
    BY <1>2 DEF EdgeReserved
  <1>4. /\ PartsLegible(footer', Taken(EdgeReserved(y)))
        /\ \A p \in {footer'.status} \cup ToSet(footer'.keys) \cup ToSet(footer'.readout) :
             \E i \in DOMAIN Parts(footer') : Parts(footer')[i] = p
        /\ \A i \in DOMAIN Parts(footer') : Parts(footer')[i]
             \in {footer'.status} \cup ToSet(footer'.keys) \cup ToSet(footer'.readout)
    BY <1>1, BottomLegible
  <1> DEFINE r == EdgeReserved(y)
             markers == UNION {Columns(seg) : seg \in ToSet(r)}
  <1>5. markers = Taken(r)
    BY DEF Taken, ToSet, Columns
  <1>6. ASSUME NEW i \in lit \ marked', lit # Cell
        PROVE  WrittenAs(i, header', Parts(footer'))
    <2>1. PICK k \in 1..Len(Segments) : i \in Segments[k].cells
      BY <1>6, LitInSegments
    <2>2. Segments[k] \in ToSet(Segments)
      BY <2>1, SegmentsAre, LenProperties DEF ToSet
    <2>5. i \in UNION {seg.cells \cup seg.ends : seg \in ToSet(Segments)}
      BY <2>1, <2>2
    <2>3. i \in Texts
      BY <1>1, <1>6, <2>5, Zenon DEF StutterSegments
    <2>4. \/ XY(i)[2] = 0 /\ \E n \in DOMAIN header' : XY(i)[1] \in header'[n].text
          \/ /\ XY(i)[2] = y
             /\ \E p \in {footer'.status} \cup ToSet(footer'.keys) \cup ToSet(footer'.readout) :
                  XY(i)[1] \in p.text
      BY <2>3 DEF Texts
    <2> QED
      BY <1>4, <2>4 DEF WrittenAs
  <1>10. ASSUME NEW i \in marked' PROVE ~WrittenAs(i, header', Parts(footer'))
    <2>1. i \in Cell /\ i \notin Texts
      <3>1. PICK seg \in ToSet(Segments) : i \in seg.cells \cup seg.ends
        BY <1>1, <1>10 DEF StutterSegments
      <3>2. Segments \in Seq(Segment)
        BY SegmentsAre
      <3>3. PICK k \in 1..Len(Segments) : seg = Segments[k]
        BY <3>1, <3>2, LenProperties DEF ToSet
      <3>4. seg \in Segment
        BY <3>2, <3>3, ElementOfSeq
      <3> QED
        BY <1>1, <1>10, <3>1, <3>4 DEF StutterSegments, Segment
    <2>2. ASSUME NEW n \in DOMAIN Parts(footer')
          PROVE  Parts(footer')[n]
                   \in {footer'.status} \cup ToSet(footer'.keys) \cup ToSet(footer'.readout)
      BY <1>4
    <2> QED
      BY <2>1, <2>2 DEF Texts, WrittenAs
  <1>7. LegibleAs(lit, header', footer', marked', r)
    <2> DEFINE others == footer'.keys \o footer'.readout
               parts == <<footer'.status>> \o others
    <2>1. Others(footer') = others /\ Parts(footer') = parts
      BY DEF Others, Parts
    <2>2. /\ \A i, j \in DOMAIN parts : i # j => Columns(parts[i]) \cap Columns(parts[j]) = {}
          /\ \A i \in DOMAIN others : Columns(others[i]) \subseteq 1..(Right - 1)
          /\ \A p \in {footer'.status} \cup ToSet(footer'.readout) : p.from \notin markers
          /\ (\E i \in 0..(Width + Height - 3) : i \notin lit) =>
               \A i \in DOMAIN footer'.keys : Columns(footer'.keys[i]) \cap markers = {}
      <3> HIDE DEF others, parts, markers
      <3> QED
        BY <1>4, <1>5, <2>1 DEF PartsLegible
    <2>3. /\ \A i \in marked' : ~WrittenAs(i, header', parts)
          /\ lit # Cell => \A i \in lit \ marked' : WrittenAs(i, header', parts)
      <3> HIDE DEF others, parts
      <3> QED
        BY <1>6, <1>10, <2>1
    <2> QED
      BY <2>2, <2>3 DEF LegibleAs
  <1>8. LegibleAs(lit', header', footer', marked', EdgeReserved(Height - 1)')
    BY <1>1, <1>3, <1>7
  <1>9. BorderLegible'
    BY <1>8 DEF BorderLegible, LegibleAs, WrittenAs
  <1> QED
    BY <1>1, <1>9

\* However the stalls lie and however long the texts are, for a screen of any
\* size: the parts of the bottom edge do not overlap, status and readout begin
\* outside every marker and the keys lie outside all of them (but for one pattern
\* of the rim), no marker covers a text and no stall goes unmarked for another
\* reason than a text: BorderLegible, the layout of draw_outer_border.
THEOREM BorderStaysLegible == BorderSpec => []BorderLegible
  <1>1. BorderInit => BorderInv
    BY BorderAssumption DEF BorderInit, BorderInv, BorderLegible, Text
  <1>2. BorderInv /\ [BorderNext]_borderVars => BorderInv'
    <2> SUFFICES ASSUME BorderInv, [BorderNext]_borderVars PROVE BorderInv'
      OBVIOUS
    <2>1. CASE Draw
      BY <2>1, BorderDraw
    <2>2. CASE UNCHANGED borderVars
      <3>1. lit' = lit /\ text' = text /\ header' = header /\ footer' = footer /\ marked' = marked
        BY <2>2 DEF borderVars
      <3>2. Segments' = Segments
        BY <3>1 DEF Segments
      <3>3. EdgeReserved(Height - 1)' = EdgeReserved(Height - 1)
        BY <3>2 DEF EdgeReserved
      <3>4. footer # None => LegibleAs(lit, header, footer, marked, EdgeReserved(Height - 1))
        BY DEF BorderInv, BorderLegible, LegibleAs, WrittenAs
      <3>5. footer' # None => LegibleAs(lit', header', footer', marked', EdgeReserved(Height - 1)')
        BY <3>1, <3>3, <3>4
      <3>6. BorderLegible'
        BY <3>5 DEF BorderLegible, LegibleAs, WrittenAs
      <3> QED
        BY <3>1, <3>6 DEF BorderInv
    <2> QED
      BY <2>1, <2>2 DEF BorderNext
  <1>3. BorderInv => BorderLegible
    BY DEF BorderInv
  <1> QED
    BY <1>1, <1>2, <1>3, PTL DEF BorderSpec
=============================================================================
