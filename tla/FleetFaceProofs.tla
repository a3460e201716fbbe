-------------------------- MODULE FleetFaceProofs --------------------------
(* Proofs about FleetFace, for every number of hosts and set of groups.    *)
EXTENDS FleetFace, SharedLemmas, TLAPS

\* The two invariants of the drill need each other: only the spine's host is
\* ever entered, and the spine moves only where no drill marker is set.
DrillInv == FaceUnmarked /\ DrillOnSpine

LEMMA DrillInit == Init => DrillInv
  BY FleetFaceAssumption DEF Init, DrillInv, FaceUnmarked, DrillOnSpine, NoThread

LEMMA DrillNext == DrillInv /\ [Next]_vars => DrillInv'
  <1> SUFFICES ASSUME DrillInv, [Next]_vars
               PROVE  DrillInv'
    OBVIOUS
  <1> USE DEF DrillInv, FaceUnmarked, DrillOnSpine, drill, selection, data, NoThread
  <1>1. CASE \E fresh \in Fresh : Refresh(fresh)
    BY <1>1 DEF Refresh
  <1>2. CASE \E fresh \in Rows \cup {None} : HostPoll(fresh)
    BY <1>2 DEF HostPoll
  <1>3. CASE HostLost
    BY <1>3 DEF HostLost
  <1>4. CASE MoveRegion
    BY <1>4 DEF MoveRegion
  <1>5. CASE SpineKey
    BY <1>5 DEF SpineKey, MoveSpine
  <1>6. CASE PrimaryKey
    BY <1>6 DEF PrimaryKey, MovePrimary
  <1>7. CASE EnterHost
    BY <1>7 DEF EnterHost
  <1>8. CASE ConnectHost
    BY <1>8 DEF ConnectHost
  <1>9. CASE EnterThreads
    BY <1>9 DEF EnterThreads
  <1>10. CASE Esc
    BY <1>10 DEF Esc
  <1>11. CASE ToggleFace
    BY <1>11 DEF ToggleFace
  <1>12. CASE LeaveDrill
    BY <1>12 DEF LeaveDrill
  <1>13. CASE ScopeKeyInRemote
    BY <1>13 DEF ScopeKeyInRemote
  <1>14. CASE PauseKey
    BY <1>14 DEF PauseKey
  <1>15. CASE UNCHANGED vars
    BY <1>15 DEF vars
  <1> QED
    BY <1>1, <1>2, <1>3, <1>4, <1>5, <1>6, <1>7, <1>8, <1>9, <1>10, <1>11,
       <1>12, <1>13, <1>14, <1>15 DEF Next

\* The drill markers never outlive the views they belong to.
THEOREM DrillMarkersCleared == Spec => []FaceUnmarked
  <1>1. DrillInv => FaceUnmarked
    BY DEF DrillInv
  <1> QED
    BY <1>1, DrillInit, DrillNext, PTL DEF Spec

\* Every drill is a drill into the host the spine selects.
THEOREM DrillStaysOnSpine == Spec => []DrillOnSpine
  <1>1. DrillInv => DrillOnSpine
    BY DEF DrillInv
  <1> QED
    BY <1>1, DrillInit, DrillNext, PTL DEF Spec

---------------------------------------------------------------------------
(* Rows.                                                                   *)

Injective(seq) == \A i, j \in 1..Len(seq) : seq[i] = seq[j] => i = j

\* The rows of a host are labels of groups, none twice.
LEMMA RowsAre == \A seq : seq \in Rows <=> seq \in Seq(App) /\ Injective(seq)
  <1>1. ASSUME NEW seq \in Rows PROVE seq \in Seq(App) /\ Injective(seq)
    <2>1. PICK s : s \subseteq App /\ seq \in SetToSeqs(s)
      BY DEF Rows, SetToAllKPermutations
    <2>2. IsFiniteSet(s)
      BY <2>1, FS_Subset, FleetFaceAssumption
    <2>3. seq \in Seq(s) /\ Injective(seq)
      BY <2>1, <2>2, ListingHasAll DEF Injective
    <2> QED
      BY <2>1, <2>3, SeqMonotonic
  <1>2. ASSUME NEW seq \in Seq(App), Injective(seq) PROVE seq \in Rows
    <2>1. seq \in SetToSeqs(ToSet(seq))
      BY <1>2, InjectiveIsListing DEF Injective
    <2>2. ToSet(seq) \subseteq App
      BY LenProperties, ElementOfSeq DEF ToSet
    <2> QED
      BY <2>1, <2>2 DEF Rows, SetToAllKPermutations
  <1> QED
    BY <1>1, <1>2

LEMMA RowsLen ==
  ASSUME NEW seq \in Rows
  PROVE  /\ Len(seq) \in Nat /\ Len(seq) <= Cardinality(App) /\ Cardinality(App) \in Nat
         /\ DOMAIN seq = 1..Len(seq) /\ Labels(seq) \subseteq App
         /\ \A i \in 1..Len(seq) : seq[i] \in App
  <1>1. seq \in Seq(App) /\ Injective(seq)
    BY RowsAre
  <1>2. Cardinality(ToSet(seq)) = Len(seq)
    BY <1>1, InjectiveIsListing DEF Injective
  <1>3. DOMAIN seq = 1..Len(seq) /\ Len(seq) \in Nat /\ \A i \in 1..Len(seq) : seq[i] \in App
    BY <1>1, LenProperties, ElementOfSeq
  <1>4. ToSet(seq) \subseteq App
    BY <1>3 DEF ToSet
  <1>5. Cardinality(App) \in Nat /\ Cardinality(ToSet(seq)) <= Cardinality(App)
    BY <1>4, FleetFaceAssumption, FS_Subset, FS_CardinalityType
  <1> QED
    BY <1>2, <1>3, <1>4, <1>5 DEF Labels

LEMMA EmptyRows == <<>> \in Rows
  <1>1. <<>> \in Seq(App) /\ Len(<<>>) = 0
    BY EmptySeq
  <1>2. Injective(<<>>)
    BY <1>1 DEF Injective
  <1> QED
    BY <1>1, <1>2, RowsAre

\* Labels that have different places cannot stand both ways.
LEMMA BeforeOneWay ==
  ASSUME NEW seq \in Rows, NEW a, NEW b, Before(a, b, seq), Before(b, a, seq)
  PROVE  FALSE
  <1>1. Injective(seq) /\ DOMAIN seq = 1..Len(seq) /\ Len(seq) \in Nat
    BY RowsAre, RowsLen
  <1>2. PICK i, j \in 1..Len(seq) : i < j /\ seq[i] = a /\ seq[j] = b
    BY <1>1 DEF Before
  <1>3. PICK k, l \in 1..Len(seq) : k < l /\ seq[k] = b /\ seq[l] = a
    BY <1>1 DEF Before
  <1>4. i = l /\ j = k
    BY <1>1, <1>2, <1>3 DEF Injective
  <1> QED
    BY <1>1, <1>2, <1>3, <1>4

\* The running order of the rows that are listed now: two that were in the
\* old one stand the way they stood there.
LEMMA Stabilized ==
  ASSUME NEW old \in Rows, NEW new \in Rows
  PROVE  /\ Stabilize(old, new) \in Rows
         /\ \A a, b \in Labels(old) : Before(a, b, Stabilize(old, new)) => Before(a, b, old)
  <1> DEFINE p == Only(old, Labels(new))
             q == Only(new, Labels(new) \ Labels(old))
             r == p \o q
  <1>0. old \in Seq(App) /\ new \in Seq(App) /\ Injective(old) /\ Injective(new)
    BY RowsAre
  <1>1. p \in Seq(App) /\ q \in Seq(App) /\ Injective(p) /\ Injective(q)
    BY <1>0, OnlyElements, OnlyInjective DEF Injective
  <1>2. \A k \in 1..Len(p) : p[k] \in Labels(old)
    <2>1. \A k \in 1..Len(p) : \E i \in 1..Len(old) : old[i] = p[k]
      BY <1>0, OnlyElements
    <2>2. DOMAIN old = 1..Len(old)
      BY RowsLen
    <2> HIDE DEF p
    <2> QED
      BY <2>1, <2>2 DEF Labels, ToSet
  <1>3. \A k \in 1..Len(q) : q[k] \notin Labels(old)
    BY <1>0, OnlyElements
  <1>4. /\ r \in Seq(App) /\ Len(r) = Len(p) + Len(q) /\ Len(p) \in Nat /\ Len(q) \in Nat
        /\ DOMAIN r = 1..Len(r) /\ DOMAIN p = 1..Len(p)
        /\ \A i \in 1..Len(r) : r[i] = IF i <= Len(p) THEN p[i] ELSE q[i - Len(p)]
    BY <1>1, ConcatProperties, LenProperties
  <1>5. Stabilize(old, new) = r
    BY DEF Stabilize
  <1>6. \A k \in Labels(old), a \in Labels(old) :
          Before(k, a, p) => k \in Labels(new) /\ a \in Labels(new)
    BY <1>0, <1>4, OnlyElements DEF Before
  <1>7. \A a, b \in Labels(old) : Before(a, b, p) => Before(a, b, old)
    BY <1>0, <1>6, OnlyBefore
  <1> HIDE DEF p, q, r
  <1>8. Injective(r)
    <2> SUFFICES ASSUME NEW i \in 1..Len(r), NEW j \in 1..Len(r), r[i] = r[j]
                 PROVE  i = j
      BY DEF Injective
    <2>1. CASE i <= Len(p) /\ j <= Len(p)
      <3>1. i \in 1..Len(p) /\ j \in 1..Len(p) /\ r[i] = p[i] /\ r[j] = p[j]
        BY <1>4, <2>1
      <3> QED
        BY <1>1, <3>1 DEF Injective
    <2>2. CASE i > Len(p) /\ j > Len(p)
      <3>1. /\ i - Len(p) \in 1..Len(q) /\ j - Len(p) \in 1..Len(q)
            /\ r[i] = q[i - Len(p)] /\ r[j] = q[j - Len(p)]
        BY <1>4, <2>2
      <3>2. i - Len(p) = j - Len(p)
        BY <1>1, <3>1 DEF Injective
      <3> QED
        BY <1>4, <3>2
    <2>3. CASE i <= Len(p) /\ j > Len(p)
      <3>1. i \in 1..Len(p) /\ j - Len(p) \in 1..Len(q) /\ r[i] = p[i] /\ r[j] = q[j - Len(p)]
        BY <1>4, <2>3
      <3> QED
        BY <1>2, <1>3, <3>1
    <2>4. CASE i > Len(p) /\ j <= Len(p)
      <3>1. j \in 1..Len(p) /\ i - Len(p) \in 1..Len(q) /\ r[j] = p[j] /\ r[i] = q[i - Len(p)]
        BY <1>4, <2>4
      <3> QED
        BY <1>2, <1>3, <3>1
    <2> QED
      BY <1>4, <2>1, <2>2, <2>3, <2>4
  <1>9. ASSUME NEW a \in Labels(old), NEW b \in Labels(old), Before(a, b, r)
        PROVE  Before(a, b, old)
    <2>1. PICK i, j \in 1..Len(r) : i < j /\ r[i] = a /\ r[j] = b
      BY <1>4, <1>9 DEF Before
    <2>2. ASSUME NEW k \in 1..Len(r), r[k] \in Labels(old) PROVE k \in 1..Len(p) /\ p[k] = r[k]
      <3>1. k <= Len(p)
        <4>1. k > Len(p) => k - Len(p) \in 1..Len(q) /\ r[k] = q[k - Len(p)]
          BY <1>4
        <4> QED
          BY <1>3, <1>4, <2>2, <4>1
      <3> QED
        BY <1>4, <3>1
    <2>3. i \in 1..Len(p) /\ j \in 1..Len(p) /\ p[i] = a /\ p[j] = b
      BY <2>1, <2>2
    <2>4. Before(a, b, p)
      BY <1>4, <2>1, <2>3 DEF Before
    <2> QED
      BY <1>7, <2>4
  <1> QED
    BY <1>4, <1>5, <1>8, <1>9, RowsAre

\* The cursor is on the pinned label as long as it is listed, and on a row
\* of its own otherwise.
LEMMA Resolved ==
  ASSUME NEW seq \in Rows, NEW label, NEW pos \in Nat
  PROVE  LET fixed == Resolve(seq, label, pos)
         IN  /\ fixed.cursor \in 0..Cardinality(App)
             /\ fixed.label \in App \cup {label}
             /\ seq # <<>> => /\ fixed.label \in App /\ At(seq, fixed.cursor) = fixed.label
             /\ seq = <<>> => At(seq, fixed.cursor) = None
             /\ label \in Labels(seq) => fixed.label = label
  <1>1. /\ Len(seq) \in Nat /\ Len(seq) <= Cardinality(App) /\ Cardinality(App) \in Nat
        /\ Labels(seq) = {seq[i] : i \in 1..Len(seq)}
        /\ \A i \in 1..Len(seq) : seq[i] \in App
    BY RowsLen DEF Labels, ToSet
  <1>2. CASE seq = <<>>
    <2>1. Len(seq) = 0 /\ Labels(seq) = {}
      BY <1>1, <1>2, EmptySeq
    <2> QED
      BY <1>1, <1>2, <2>1 DEF Resolve, At
  <1>3. CASE seq # <<>> /\ label \in Labels(seq)
    <2> DEFINE i == CHOOSE i \in 1 .. Len(seq) : seq[i] = label
    <2>1. i \in 1..Len(seq) /\ seq[i] = label
      BY <1>1, <1>3
    <2>2. Resolve(seq, label, pos) = [cursor |-> i - 1, label |-> label]
      BY <1>3 DEF Resolve
    <2> HIDE DEF i
    <2> QED
      BY <1>1, <1>3, <2>1, <2>2 DEF At
  <1>4. CASE seq # <<>> /\ label \notin Labels(seq)
    <2> DEFINE i == Least(pos, Len(seq) - 1)
    <2>1. Len(seq) > 0
      BY <1>4, EmptySeq, RowsAre
    <2>2. i \in 0..(Len(seq) - 1) /\ i + 1 \in 1..Len(seq)
      BY <1>1, <2>1 DEF Least
    <2>3. Resolve(seq, label, pos) = [cursor |-> i, label |-> seq[i + 1]]
      BY <1>4 DEF Resolve
    <2> HIDE DEF i
    <2> QED
      BY <1>1, <1>4, <2>2, <2>3 DEF At
  <1> QED
    BY <1>2, <1>3, <1>4

---------------------------------------------------------------------------
(* Types.                                                                  *)

LEMMA AtType ==
  ASSUME NEW seq \in Rows, NEW i \in Nat
  PROVE  At(seq, i) \in App \cup {None}
  BY RowsLen DEF At

LEMMA TypesInit == Init => TypeOK
  <1> SUFFICES ASSUME Init PROVE TypeOK
    OBVIOUS
  <1>1. Cardinality(App) \in Nat
    BY FleetFaceAssumption, FS_CardinalityType
  <1>2. spine \in Host
    BY FleetFaceAssumption DEF Init, Host
  <1>3. rows \in [Host -> Rows] /\ order \in [Host -> Rows]
    BY EmptyRows DEF Init
  <1>4. view \in View /\ region \in Region /\ paused \in BOOLEAN /\ quiet \in BOOLEAN
    BY DEF Init, View, Region
  <1>5. cursor \in 0..Cardinality(App) /\ pin \in App \cup {None}
    BY <1>1 DEF Init
  <1>6. /\ fleetHost \in Daemon \cup {None}
        /\ fleetThread \in (Host \X (App \cup Host)) \cup {NoThread}
        /\ routed \in (Host \cup {None}) \X (App \cup Host \cup {None})
    BY DEF Init, NoThread
  <1> QED
    BY <1>2, <1>3, <1>4, <1>5, <1>6 DEF TypeOK

\* What a refresh of the lists does to the rows of each host.
LEMMA RefreshRows ==
  ASSUME TypeOK, NEW fresh \in Fresh, Refresh(fresh)
  PROVE  /\ rows' \in [Host -> Rows] /\ order' \in [Host -> Rows]
         /\ \A h \in Host : \/ rows'[h] = rows[h]
                            \/ \E new \in Rows : rows'[h] = Stabilize(order[h], new)
  <1>1. \A h \in DOMAIN fresh : fresh[h] \in Rows
    BY DEF Fresh
  <1>2. \A h \in Host : h \in DOMAIN fresh => Stabilize(order[h], fresh[h]) \in Rows
    BY <1>1, Stabilized DEF TypeOK
  <1> QED
    BY <1>1, <1>2 DEF Refresh, TypeOK

LEMMA TypesNext == TypeOK /\ [Next]_vars => TypeOK'
  <1> SUFFICES ASSUME TypeOK, [Next]_vars PROVE TypeOK'
    OBVIOUS
  <1> USE DEF drill, selection, data
  <1>0. /\ spine \in Host /\ rows[spine] \in Rows /\ cursor \in Nat
        /\ Cardinality(App) \in Nat /\ Len(rows[spine]) \in Nat
        /\ Len(rows[spine]) <= Cardinality(App)
    BY RowsLen, FleetFaceAssumption, FS_CardinalityType DEF TypeOK
  <1>1. ASSUME NEW fresh \in Fresh, Refresh(fresh) PROVE TypeOK'
    <2>1. rows' \in [Host -> Rows] /\ order' \in [Host -> Rows]
      BY <1>1, RefreshRows
    <2>2. cursor' \in 0..Cardinality(App) /\ pin' \in App \cup {None}
      <3>1. rows'[spine] \in Rows
        BY <1>0, <2>1
      <3> QED
        BY <1>0, <1>1, <3>1, Resolved DEF Refresh, TypeOK
    <2>3. routed' \in (Host \cup {None}) \X (App \cup Host \cup {None})
      <3>1. At(rows'[spine], cursor') \in App \cup {None}
        BY <1>0, <2>1, <2>2, AtType
      <3>2. routed' = IF fleetThread # NoThread THEN fleetThread
                      ELSE <<spine, At(rows'[spine], cursor')>>
        BY <1>1 DEF Refresh
      <3> QED
        BY <1>0, <3>1, <3>2 DEF TypeOK
    <2>4. quiet' \in BOOLEAN /\ UNCHANGED <<drill, region, spine, paused>>
      BY <1>1 DEF Refresh
    <2> QED
      BY <2>1, <2>2, <2>3, <2>4 DEF TypeOK
  <1>2. ASSUME NEW fresh \in Rows \cup {None}, HostPoll(fresh) PROVE TypeOK'
    <2>1. fleetHost \in Host
      BY <1>2, FleetFaceAssumption DEF HostPoll, TypeOK
    <2>2. rows' \in [Host -> Rows]
      BY <1>2, <2>1 DEF HostPoll, TypeOK
    <2>3. Labels(rows'[fleetHost]) \subseteq App
      BY <2>1, <2>2, RowsLen
    <2>4. routed' \in (Host \cup {None}) \X (App \cup Host \cup {None})
      BY <1>2, <2>1, <2>3 DEF HostPoll, BodyLabels
    <2>5. quiet' \in BOOLEAN /\ UNCHANGED <<drill, selection, order, paused>>
      BY <1>2 DEF HostPoll
    <2> QED
      BY <2>2, <2>4, <2>5 DEF TypeOK
  <1>3. CASE HostLost
    BY <1>3 DEF HostLost, TypeOK, View
  <1>4. CASE MoveRegion
    BY <1>4 DEF MoveRegion, TypeOK, NextRegion, Region
  <1>5. CASE SpineKey
    <2>1. spine' \in Host
      BY <1>0, <1>5, FleetFaceAssumption DEF SpineKey, MoveSpine, Least, Host
    <2>2. /\ cursor' = 0 /\ pin' = None /\ quiet' = FALSE
          /\ UNCHANGED <<drill, region, data, paused, routed>>
      BY <1>5 DEF SpineKey, MoveSpine
    <2>3. cursor' \in 0..Cardinality(App)
      BY <1>0, <2>2
    <2>4. UNCHANGED <<drill, region, data, paused, routed>>
      BY <2>2
    <2> QED
      BY <2>1, <2>2, <2>3, <2>4 DEF TypeOK
  <1>6. CASE PrimaryKey
    <2>1. PICK pos \in 0..Cardinality(App) : MovePrimary(pos)
      <3>1. (IF cursor > 0 THEN cursor - 1 ELSE cursor) \in 0..Cardinality(App)
        BY <1>0 DEF TypeOK
      <3>2. (IF rows[spine] = <<>> THEN cursor ELSE Least(cursor + 1, Len(rows[spine]) - 1))
              \in 0..Cardinality(App)
        <4>1. rows[spine] # <<>> => Len(rows[spine]) > 0
          BY <1>0, RowsAre, EmptySeq
        <4> QED
          BY <1>0, <4>1 DEF TypeOK, Least
      <3> QED
        BY <1>6, <3>1, <3>2 DEF PrimaryKey
    <2>2. At(rows[spine], pos) \in App \cup {None}
      BY <1>0, AtType
    <2>3. /\ cursor' = pos /\ pin' = At(rows[spine], pos) /\ quiet' = FALSE
          /\ UNCHANGED <<drill, region, spine, data, paused, routed>>
      BY <2>1 DEF MovePrimary
    <2> QED
      BY <2>2, <2>3 DEF TypeOK
  <1>7. CASE EnterHost
    BY <1>7 DEF EnterHost, TypeOK, View
  <1>8. CASE ConnectHost
    BY <1>8 DEF ConnectHost, TypeOK, View
  <1>9. CASE EnterThreads
    <2>1. At(rows[spine], cursor) \in App \cup {None}
      BY <1>0, AtType
    <2>2. fleetHost # None => fleetHost \in Host /\ Labels(rows[fleetHost]) \subseteq App
      BY FleetFaceAssumption, RowsLen DEF TypeOK
    <2>3. fleetThread' \in (Host \X (App \cup Host)) \cup {NoThread}
      BY <1>0, <1>9, <2>1, <2>2 DEF EnterThreads, BodyLabels
    <2>4. view' \in View /\ quiet' \in BOOLEAN
          /\ UNCHANGED <<fleetHost, selection, data, paused, routed>>
      BY <1>9 DEF EnterThreads, View
    <2> QED
      BY <2>3, <2>4 DEF TypeOK
  <1>10. CASE Esc
    BY <1>10 DEF Esc, TypeOK, View
  <1>11. CASE ToggleFace
    <2>1. /\ view' \in View /\ region' \in Region /\ quiet' \in BOOLEAN
          /\ cursor' \in 0..Cardinality(App) /\ pin' \in App \cup {None}
      <3>1. view' \in View /\ region' \in Region /\ quiet' \in BOOLEAN
        BY <1>11 DEF ToggleFace, TypeOK, View, Region
      <3>2. cursor' \in {cursor, 0} /\ pin' \in {pin, None}
        BY <1>11 DEF ToggleFace
      <3>3. cursor' \in 0..Cardinality(App)
        BY <1>0, <3>2 DEF TypeOK
      <3> QED
        BY <3>1, <3>2, <3>3 DEF TypeOK
    <2>2. spine' \in Host /\ fleetHost' = None /\ fleetThread' = NoThread
      BY <1>0, <1>11, FleetFaceAssumption DEF ToggleFace, Host
    <2>3. UNCHANGED <<data, paused, routed>>
      BY <1>11 DEF ToggleFace
    <2> QED
      BY <2>1, <2>2, <2>3 DEF TypeOK
  <1>12. CASE LeaveDrill
    BY <1>12 DEF LeaveDrill, TypeOK, View
  <1>13. CASE ScopeKeyInRemote
    BY <1>13 DEF ScopeKeyInRemote, TypeOK
  <1>14. CASE PauseKey
    BY <1>14 DEF PauseKey, TypeOK
  <1>15. CASE UNCHANGED vars
    BY <1>15 DEF vars, TypeOK
  <1> QED
    BY <1>1, <1>2, <1>3, <1>4, <1>5, <1>6, <1>7, <1>8, <1>9, <1>10, <1>11,
       <1>12, <1>13, <1>14, <1>15 DEF Next

---------------------------------------------------------------------------
(* The selection between two polls of the face.                            *)

\* After a poll of the face the row under the cursor is the one asked for,
\* and the pinned one if there are rows.
QuietInv ==
  quiet => /\ routed = <<spine, At(rows[spine], cursor)>>
           /\ At(rows[spine], cursor) = IF rows[spine] = <<>> THEN None ELSE pin

FaceInv == TypeOK /\ DrillInv /\ QuietInv

\* Only a poll of the face leaves it quiet.
LEMMA QuietSteps ==
  ASSUME [Next]_vars, quiet'
  PROVE  UNCHANGED vars \/ \E fresh \in Fresh : Refresh(fresh) /\ view = "Fleet"
  BY DEF Next, Refresh, HostPoll, HostLost, MoveRegion, SpineKey, MoveSpine, PrimaryKey, MovePrimary,
         EnterHost, ConnectHost, EnterThreads, Esc, ToggleFace, LeaveDrill, ScopeKeyInRemote, PauseKey

LEMMA QuietRefresh ==
  ASSUME TypeOK, DrillInv, NEW fresh \in Fresh, Refresh(fresh), view = "Fleet"
  PROVE  /\ QuietInv' /\ spine' = spine /\ rows'[spine] \in Rows
         /\ routed' = <<spine, At(rows'[spine], cursor')>>
         /\ pin \in Labels(rows'[spine]) => routed' = <<spine, pin>>
  <1>1. rows'[spine] \in Rows /\ cursor \in Nat /\ spine \in Host
    BY RefreshRows DEF TypeOK
  <1>2. fleetThread = NoThread
    BY DEF DrillInv, FaceUnmarked
  <1>3. /\ cursor' = Resolve(rows'[spine], pin, cursor).cursor
        /\ pin' = Resolve(rows'[spine], pin, cursor).label
        /\ routed' = <<spine, At(rows'[spine], cursor')>> /\ spine' = spine
    BY <1>2 DEF Refresh
  <1>4. /\ rows'[spine] # <<>> => At(rows'[spine], cursor') = pin'
        /\ rows'[spine] = <<>> => At(rows'[spine], cursor') = None
        /\ pin \in Labels(rows'[spine]) => pin' = pin
    BY <1>1, <1>3, Resolved
  <1>5. pin \in Labels(rows'[spine]) => rows'[spine] # <<>>
    BY DEF Labels, ToSet
  <1> QED
    BY <1>1, <1>3, <1>4, <1>5 DEF QuietInv

LEMMA FaceInvariant == Spec => []FaceInv
  <1>1. Init => FaceInv
    BY TypesInit, DrillInit DEF FaceInv, QuietInv, Init
  <1>2. FaceInv /\ [Next]_vars => FaceInv'
    <2> SUFFICES ASSUME FaceInv, [Next]_vars PROVE FaceInv'
      OBVIOUS
    <2>1. TypeOK' /\ DrillInv'
      BY TypesNext, DrillNext DEF FaceInv
    <2>2. CASE UNCHANGED vars
      BY <2>1, <2>2 DEF FaceInv, QuietInv, vars, selection, data
    <2>3. CASE \E fresh \in Fresh : Refresh(fresh) /\ view = "Fleet"
      BY <2>1, <2>3, QuietRefresh DEF FaceInv
    <2>4. CASE ~quiet'
      BY <2>1, <2>4 DEF FaceInv, QuietInv
    <2> QED
      BY <2>2, <2>3, <2>4, QuietSteps
  <1> QED
    BY <1>1, <1>2, PTL DEF Spec

\* Every state of the face is well typed; in particular no host lists a group
\* twice, whatever its snapshots were.
THEOREM FaceTypes == Spec => []TypeOK
  <1>1. FaceInv => TypeOK
    BY DEF FaceInv
  <1> QED
    BY <1>1, FaceInvariant, PTL

\* Cursor, pin and routed focus name the same group once a poll has run.
THEOREM FaceSettles == Spec => []SelectionSettled
  <1>1. FaceInv => SelectionSettled
    BY DEF FaceInv, QuietInv, SelectionSettled
  <1> QED
    BY <1>1, FaceInvariant, PTL

\* Left alone, the face asks for the same group while the host lists it.
THEOREM FaceHolds == Spec => SelectionHeld
  <1>1. FaceInv /\ [Next]_vars
          => [quiet /\ quiet' /\ routed[2] \in Labels(rows'[spine]) => routed' = routed]_vars
    <2> SUFFICES ASSUME FaceInv, [Next]_vars, quiet, quiet', routed[2] \in Labels(rows'[spine])
                 PROVE  routed' = routed
      OBVIOUS
    <2>1. CASE UNCHANGED vars
      BY <2>1 DEF vars
    <2>2. CASE \E fresh \in Fresh : Refresh(fresh) /\ view = "Fleet"
      <3>1. PICK fresh \in Fresh : Refresh(fresh) /\ view = "Fleet"
        BY <2>2
      <3>2. rows'[spine] \in Rows /\ (pin \in Labels(rows'[spine]) => routed' = <<spine, pin>>)
        BY <3>1, QuietRefresh DEF FaceInv
      <3>3. routed[2] \in App
        BY <3>2, RowsLen
      <3>4. routed[2] # None
        BY <3>3, FleetFaceAssumption
      <3>5. routed = <<spine, pin>>
        BY <3>4 DEF FaceInv, QuietInv
      <3> QED
        BY <3>2, <3>5
    <2> QED
      BY <2>1, <2>2, QuietSteps
  <1> QED
    BY <1>1, FaceInvariant, PTL DEF Spec, SelectionHeld

\* Rows shown in a host's running order keep it, whatever a daemon lists next.
THEOREM RowsNeverHop == Spec => OrderedRowsNeverHop
  <1>1. TypeOK /\ [Next]_vars
          => [view # "Remote" =>
                \A h \in Host : rows[h] = order[h] => ~Hops(rows[h], rows'[h])]_vars
    <2> SUFFICES ASSUME TypeOK, [Next]_vars, view # "Remote", NEW h \in Host, rows[h] = order[h],
                        NEW a \in App, NEW b \in App,
                        Before(a, b, rows[h]), Before(b, a, rows'[h])
                 PROVE  FALSE
      BY DEF Hops
    <2>1. rows[h] \in Rows
      BY DEF TypeOK
    <2>2. CASE rows'[h] = rows[h]
      BY <2>1, <2>2, BeforeOneWay
    <2>3. CASE \E new \in Rows : rows'[h] = Stabilize(order[h], new)
      <3>1. a \in Labels(rows[h]) /\ b \in Labels(rows[h])
        BY DEF Before, Labels, ToSet
      <3>2. Before(b, a, rows[h])
        BY <2>1, <2>3, <3>1, Stabilized
      <3> QED
        BY <2>1, <3>2, BeforeOneWay
    <2>4. rows' = rows \/ \E fresh \in Fresh : Refresh(fresh)
      BY DEF Next, HostPoll, HostLost, MoveRegion, SpineKey, MoveSpine, PrimaryKey, MovePrimary,
             EnterHost, ConnectHost, EnterThreads, Esc, ToggleFace, LeaveDrill, ScopeKeyInRemote,
             PauseKey, vars, data
    <2> QED
      BY <2>2, <2>3, <2>4, RefreshRows
  <1> QED
    BY <1>1, FaceTypes, PTL DEF Spec, OrderedRowsNeverHop
=============================================================================
