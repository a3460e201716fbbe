------------------------- MODULE FocusStreamProofs -------------------------
(* Proofs about FocusStream, for every fleet, label set and bound.         *)
EXTENDS FocusStream, SequenceTheorems, TLAPS

\* Where the focus cell ends up once the lines in flight have been read.
Requested(c) == IF pipe[c] = <<>> THEN focus[c] ELSE pipe[c][Len(pipe[c])]

-----------------------------------------------------------------------------
(* What the queues of the link do to the values they carry.                *)

\* Enqueue keeps a queue of snapshots a queue, and every element of the result
\* was in the queue or is the new one.
LEMMA EnqueueElements ==
  ASSUME NEW q \in Seq(Stream), NEW s \in Stream
  PROVE  /\ Enqueue(q, s) \in Seq(Stream)
         /\ \A i \in 1 .. Len(Enqueue(q, s)) :
              \/ Enqueue(q, s)[i] = s
              \/ \E j \in 1 .. Len(q) : Enqueue(q, s)[i] = q[j]
<1>0. MaxChan \in Nat \ {0}
  BY FocusStreamAssumption
<1>1. CASE Len(q) < MaxChan
  BY <1>1, AppendProperties DEF Enqueue
<1>2. CASE ~(Len(q) < MaxChan)
  <2> DEFINE r == Tail(q)
             e == Append(r, s)
  <2>1. Len(q) \in Nat /\ Len(q) >= 1 /\ q # <<>>
    BY <1>0, <1>2
  <2>2. r \in Seq(Stream) /\ Len(r) = Len(q) - 1
    BY <2>1, HeadTailProperties
  <2>3. \A i \in 1 .. Len(r) : r[i] = q[i + 1]
    BY <2>1, HeadTailProperties
  <2>4. Enqueue(q, s) = e
    BY <1>2 DEF Enqueue
  <2> HIDE DEF r
  <2>5. /\ e \in Seq(Stream) /\ Len(e) = Len(r) + 1
        /\ \A i \in 1 .. Len(r) : e[i] = r[i]
        /\ e[Len(r) + 1] = s
    BY <2>2, AppendProperties
  <2> HIDE DEF e
  <2>6. ASSUME NEW i \in 1 .. Len(e)
        PROVE  e[i] = s \/ \E j \in 1 .. Len(q) : e[i] = q[j]
    <3>1. CASE i = Len(r) + 1
      BY <3>1, <2>5
    <3>2. CASE i # Len(r) + 1
      <4>1. i \in 1 .. Len(r) /\ i + 1 \in 1 .. Len(q)
        BY <3>2, <2>1, <2>2, <2>5
      <4> QED BY <4>1, <2>3, <2>5
    <3> QED BY <3>1, <3>2
  <2> QED BY <2>4, <2>5, <2>6
<1> QED BY <1>1, <1>2

\* Both parts of a queue are queues of elements of the queue.
LEMMA TakenElements ==
  ASSUME NEW q \in Seq(Stream), NEW k \in Nat, k <= Len(q)
  PROVE  /\ Taken(q, k) \in Seq(Stream)
         /\ \A i \in 1 .. Len(Taken(q, k)) : \E j \in 1 .. Len(q) : Taken(q, k)[i] = q[j]
<1> DEFINE r == SubSeq(q, 1, k)
<1>1. Len(q) \in Nat
  OBVIOUS
<1>2. r \in Seq(Stream) /\ Len(r) = k
  BY <1>1, SubSeqProperties
<1>3. \A i \in 1 .. k : r[i] = q[i]
  BY <1>1, SubSeqProperties
<1> HIDE DEF r
<1>4. ASSUME NEW i \in 1 .. Len(r)
      PROVE  \E j \in 1 .. Len(q) : r[i] = q[j]
  BY <1>1, <1>2, <1>3
<1>5. Taken(q, k) = r
  BY DEF Taken, r
<1> QED BY <1>2, <1>4, <1>5

LEMMA LeftElements ==
  ASSUME NEW q \in Seq(Stream), NEW k \in Nat, k <= Len(q)
  PROVE  /\ Left(q, k) \in Seq(Stream)
         /\ \A i \in 1 .. Len(Left(q, k)) : \E j \in 1 .. Len(q) : Left(q, k)[i] = q[j]
<1> DEFINE r == SubSeq(q, k + 1, Len(q))
<1>1. Len(q) \in Nat /\ k + 1 \in Nat /\ 1 <= k + 1
  OBVIOUS
<1>2. r \in Seq(Stream)
  BY <1>1, SubSeqProperties
<1>3. Len(r) = Len(q) - k
  BY <1>1, SubSeqProperties
<1>4. \A i \in 1 .. Len(q) - k : r[i] = q[k + i]
  BY <1>1, SubSeqProperties
<1> HIDE DEF r
<1>5. ASSUME NEW i \in 1 .. Len(r)
      PROVE  \E j \in 1 .. Len(q) : r[i] = q[j]
  <2>1. i \in 1 .. Len(q) - k /\ k + i \in 1 .. Len(q)
    BY <1>1, <1>3, <1>5
  <2> QED BY <2>1, <1>4
<1>6. Left(q, k) = r
  BY DEF Left, r
<1> QED BY <1>2, <1>5, <1>6

-----------------------------------------------------------------------------
(* Type correctness.                                                       *)

\* A poll takes well-typed snapshots off the queues and leaves queues of them.
LEMMA DrainTyped ==
  ASSUME TypeOK, NEW got \in [Conn -> 0 .. MaxChan], Drain(got)
  PROVE  snap' \in [Conn -> Stream] /\ chan' \in [Conn -> Seq(Stream)]
<1>1. ASSUME NEW c \in Conn
      PROVE  /\ (IF got[c] = 0 THEN snap[c] ELSE chan[c][got[c]]) \in Stream
             /\ Left(chan[c], got[c]) \in Seq(Stream)
  <2>1. PICK q, k : q = chan[c] /\ k = got[c]
    OBVIOUS
  <2>2. snap[c] \in Stream /\ q \in Seq(Stream) /\ k \in Nat /\ k <= Len(q)
    BY <2>1, FocusStreamAssumption DEF TypeOK, Drain
  <2>3. k # 0 => q[k] \in Stream
    BY <2>2
  <2>4. Left(q, k) \in Seq(Stream)
    BY <2>2, LeftElements
  <2> QED BY <2>1, <2>2, <2>3, <2>4
<1> QED BY <1>1 DEF Drain

\* Routing a target writes labels and blanks only.
LEMMA RouteTyped ==
  ASSUME TypeOK, NEW t \in Target, RouteFocus(t)
  PROVE  lastFocus' \in [Conn -> MaybeApp] /\ pipe' \in [Conn -> Seq(MaybeApp)]
<1>1. \A c \in Conn : Want(c, t) \in MaybeApp
  BY DEF Want, Target, MaybeApp
<1>2. ASSUME NEW c \in Conn
      PROVE  (IF Sends(c, t) THEN Append(pipe[c], Want(c, t)) ELSE pipe[c])
               \in Seq(MaybeApp)
  BY <1>1, AppendProperties DEF TypeOK
<1> QED BY <1>1, <1>2 DEF RouteFocus

\* TypeOK holds in every state of the specification.
THEOREM TypeCorrect == Spec => []TypeOK
<1> USE FocusStreamAssumption
<1>1. Init => TypeOK
  BY DEF Init, TypeOK, Target, Stream, NoStream, MaybeApp
<1>2. TypeOK /\ [Next]_vars => TypeOK'
  <2> SUFFICES ASSUME TypeOK, [Next]_vars PROVE TypeOK'
    OBVIOUS
  <2>1. ASSUME NEW t \in Target, NEW got \in [Conn -> 0 .. MaxChan], Poll(t, got)
        PROVE  TypeOK'
    BY <2>1, DrainTyped, RouteTyped DEF TypeOK, Poll, daemonVars
  <2>2. ASSUME NEW c \in Conn, ReadLine(c)
        PROVE  TypeOK'
    <3>1. pipe[c] \in Seq(MaybeApp) /\ pipe[c] # <<>>
      BY <2>2 DEF TypeOK, ReadLine
    <3>2. Head(pipe[c]) \in MaybeApp /\ Tail(pipe[c]) \in Seq(MaybeApp)
      BY <3>1, HeadTailProperties
    <3>3. ParseLine(Head(pipe[c])) \in MaybeApp
      BY <3>2 DEF ParseLine, MaybeApp
    <3> QED BY <2>2, <3>2, <3>3 DEF TypeOK, ReadLine, viewerVars
  <2>3. ASSUME NEW c \in Conn, NEW live \in LiveSets, NEW elapsed \in Elapsed,
               DaemonTick(c, live, elapsed)
        PROVE  TypeOK'
    <3> DEFINE out == IF focus[c] \in live
                        THEN [app |-> focus[c],
                              basis |-> IF elapsed THEN Basis(c) ELSE None]
                        ELSE NoStream
    <3>1. focus[c] \in MaybeApp /\ Basis(c) \in MaybeApp /\ None \in MaybeApp
      BY DEF TypeOK, Basis, MaybeApp
    <3>2. out \in Stream
      BY <3>1 DEF Stream, NoStream
    <3>3. chan' = [chan EXCEPT ![c] = Enqueue(@, out)]
      BY <2>3 DEF DaemonTick
    <3>4. Enqueue(chan[c], out) \in Seq(Stream)
      BY <3>2, EnqueueElements DEF TypeOK
    <3>5. chan' \in [Conn -> Seq(Stream)]
      BY <3>3, <3>4 DEF TypeOK
    <3> HIDE DEF out
    <3> QED BY <2>3, <3>1, <3>5 DEF TypeOK, DaemonTick, viewerVars
  <2>4. ASSUME NEW c \in Conn, NEW kept \in 0 .. MaxChan, Die(c, kept)
        PROVE  TypeOK'
    <3>1. chan[c] \in Seq(Stream) /\ kept \in Nat /\ kept <= Len(chan[c])
      BY <2>4 DEF TypeOK, Die
    <3>3. Taken(chan[c], kept) \in Seq(Stream)
      BY <3>1, TakenElements
    <3> QED BY <2>4, <3>3 DEF TypeOK, Die, viewerVars, daemonVars
  <2>5. CASE ViewKey
    BY <2>5 DEF TypeOK, ViewKey, daemonVars
  <2>6. CASE UNCHANGED vars
    BY <2>6 DEF TypeOK, vars
  <2> QED BY <2>1, <2>2, <2>3, <2>4, <2>5, <2>6 DEF Next
<1> QED BY <1>1, <1>2, PTL DEF Spec

-----------------------------------------------------------------------------
(* Rates are deltas within one group.                                      *)

\* The counters the daemon holds between ticks are those of the group it
\* sampled last, so resetting them on a change of label is enough.
BasisInv ==
  /\ \A c \in Conn : prevSnap[c] \in {None, prevLabel[c]}
  /\ NoCrossGroupRates

\* No snapshot, shown or in flight, has a rate computed across two groups.
THEOREM RatesWithinGroup == Spec => []NoCrossGroupRates
<1> USE FocusStreamAssumption
<1>1. Init => BasisInv
  BY DEF Init, BasisInv, NoCrossGroupRates, SameGroup, NoStream
<1>2. TypeOK /\ BasisInv /\ [Next]_vars => BasisInv'
  <2> SUFFICES ASSUME TypeOK, BasisInv, [Next]_vars PROVE BasisInv'
    OBVIOUS
  <2>1. ASSUME NEW t \in Target, NEW got \in [Conn -> 0 .. MaxChan], Poll(t, got)
        PROVE  BasisInv'
    <3>1. ASSUME NEW c \in Conn PROVE SameGroup(snap[c])'
      <4>1. /\ chan[c] \in Seq(Stream) /\ got[c] \in 0 .. Len(chan[c])
            /\ snap'[c] = IF got[c] = 0 THEN snap[c] ELSE chan[c][got[c]]
        BY <2>1 DEF TypeOK, Poll, Drain
      <4>2. got[c] # 0 => got[c] \in 1 .. Len(chan[c])
        BY <4>1
      <4> QED BY <4>1, <4>2 DEF BasisInv, NoCrossGroupRates, SameGroup
    <3>2. ASSUME NEW c \in Conn, NEW i \in 1 .. Len(chan'[c])
          PROVE  SameGroup(chan[c][i])'
      <4>0. PICK q, k : q = chan[c] /\ k = got[c]
        OBVIOUS
      <4> DEFINE r == Left(q, k)
      <4>1. Drain(got)
        BY <2>1 DEF Poll
      <4>2. chan'[c] = r
        BY <4>0, <4>1 DEF Drain
      <4>3. q \in Seq(Stream) /\ k \in Nat /\ k <= Len(q)
        BY <4>0, <4>1 DEF TypeOK, Drain
      <4>4. \A n \in 1 .. Len(r) : \E j \in 1 .. Len(q) : r[n] = q[j]
        BY <4>3, LeftElements
      <4> HIDE DEF r
      <4>5. \E j \in 1 .. Len(q) : chan'[c][i] = q[j]
        BY <4>2, <4>4, <3>2
      <4> QED BY <4>0, <4>5 DEF BasisInv, NoCrossGroupRates, SameGroup
    <3>3. \A c \in Conn : prevSnap'[c] \in {None, prevLabel'[c]}
      BY <2>1 DEF BasisInv, Poll, daemonVars
    <3> QED BY <3>1, <3>2, <3>3 DEF BasisInv, NoCrossGroupRates
  <2>2. ASSUME NEW c \in Conn, ReadLine(c)
        PROVE  BasisInv'
    BY <2>2 DEF ReadLine, viewerVars, BasisInv, NoCrossGroupRates, SameGroup
  <2>3. ASSUME NEW c \in Conn, NEW live \in LiveSets, NEW elapsed \in Elapsed,
               DaemonTick(c, live, elapsed)
        PROVE  BasisInv'
    <3> DEFINE out == IF focus[c] \in live
                        THEN [app |-> focus[c],
                              basis |-> IF elapsed THEN Basis(c) ELSE None]
                        ELSE NoStream
    <3>1. Basis(c) \in {None, focus[c]}
      BY DEF Basis, BasisInv
    <3>2. SameGroup(out) /\ out \in Stream
      BY <3>1 DEF SameGroup, NoStream, Stream, MaybeApp, TypeOK
    <3>3. /\ chan' = [chan EXCEPT ![c] = Enqueue(@, out)]
          /\ snap' = snap
      BY <2>3 DEF DaemonTick, viewerVars
    <3>4. ASSUME NEW d \in Conn, NEW i \in 1 .. Len(chan'[d])
          PROVE  SameGroup(chan[d][i])'
      <4>1. CASE d # c
        BY <4>1, <3>3, <3>4 DEF TypeOK, BasisInv, NoCrossGroupRates, SameGroup
      <4>2. CASE d = c
        <5>0. PICK q, o : q = chan[c] /\ o = out
          OBVIOUS
        <5> DEFINE e == Enqueue(q, o)
        <5>1. chan'[c] = e
          BY <5>0, <3>3 DEF TypeOK
        <5>2. q \in Seq(Stream) /\ o \in Stream
          BY <5>0, <3>2 DEF TypeOK
        <5>3. \A k \in 1 .. Len(e) : e[k] = o \/ \E j \in 1 .. Len(q) : e[k] = q[j]
          BY <5>2, EnqueueElements
        <5> HIDE DEF e
        <5>4. chan'[c][i] = o \/ \E j \in 1 .. Len(q) : chan'[c][i] = q[j]
          BY <5>1, <5>3, <4>2, <3>4
        <5> QED BY <5>0, <5>4, <4>2, <3>2 DEF BasisInv, NoCrossGroupRates, SameGroup
      <4> QED BY <4>1, <4>2
    <3>5. \A d \in Conn : SameGroup(snap[d])'
      BY <3>3 DEF BasisInv, NoCrossGroupRates, SameGroup
    <3>6. \A d \in Conn : prevSnap'[d] \in {None, prevLabel'[d]}
      BY <2>3, <3>1 DEF DaemonTick, TypeOK, BasisInv
    <3> QED BY <3>4, <3>5, <3>6 DEF BasisInv, NoCrossGroupRates
  <2>4. ASSUME NEW c \in Conn, NEW kept \in 0 .. MaxChan, Die(c, kept)
        PROVE  BasisInv'
    <3>1. ASSUME NEW d \in Conn, NEW i \in 1 .. Len(chan'[d])
          PROVE  SameGroup(chan[d][i])'
      <4>1. CASE d # c
        BY <4>1, <2>4, <3>1 DEF Die, TypeOK, BasisInv, NoCrossGroupRates, SameGroup
      <4>2. CASE d = c
        <5>0. PICK q : q = chan[c]
          OBVIOUS
        <5> DEFINE r == Taken(q, kept)
        <5>1. chan'[c] = r /\ q \in Seq(Stream) /\ kept \in Nat /\ kept <= Len(q)
          BY <5>0, <2>4 DEF Die, TypeOK
        <5>2. \A k \in 1 .. Len(r) : \E j \in 1 .. Len(q) : r[k] = q[j]
          BY <5>1, TakenElements
        <5> HIDE DEF r
        <5>3. \E j \in 1 .. Len(q) : chan'[c][i] = q[j]
          BY <5>1, <5>2, <4>2, <3>1
        <5> QED BY <5>0, <5>3, <4>2 DEF BasisInv, NoCrossGroupRates, SameGroup
      <4> QED BY <4>1, <4>2
    <3> QED BY <2>4, <3>1
         DEF Die, viewerVars, daemonVars, BasisInv, NoCrossGroupRates, SameGroup
  <2>5. CASE ViewKey
    BY <2>5 DEF ViewKey, daemonVars, BasisInv, NoCrossGroupRates, SameGroup
  <2>6. CASE UNCHANGED vars
    BY <2>6 DEF vars, BasisInv, NoCrossGroupRates, SameGroup
  <2> QED BY <2>1, <2>2, <2>3, <2>4, <2>5, <2>6 DEF Next
<1>3. BasisInv => NoCrossGroupRates
  BY DEF BasisInv
<1> QED BY <1>1, <1>2, <1>3, TypeCorrect, PTL DEF Spec

-----------------------------------------------------------------------------
(* The lines in flight end in the viewer's last request.                   *)

RequestInv == \A c \in Conn : up[c] => Requested(c) = lastFocus[c]

\* Appending a line makes it the request; reading the head does not change
\* the request of a longer pipe.
LEMMA PipeEnds ==
  ASSUME NEW S, NEW q \in Seq(S)
  PROVE  /\ \A w \in S : Append(q, w) # <<>> /\ Append(q, w)[Len(Append(q, w))] = w
         /\ q # <<>> /\ Tail(q) # <<>> => Tail(q)[Len(Tail(q))] = q[Len(q)]
         /\ q # <<>> /\ Tail(q) = <<>> => Head(q) = q[Len(q)]
<1>1. ASSUME NEW w \in S
      PROVE  Append(q, w) # <<>> /\ Append(q, w)[Len(Append(q, w))] = w
  BY AppendProperties
<1>2. ASSUME q # <<>>
      PROVE  /\ Tail(q) # <<>> => Tail(q)[Len(Tail(q))] = q[Len(q)]
             /\ Tail(q) = <<>> => Head(q) = q[Len(q)]
  <2> DEFINE r == Tail(q)
  <2>1. /\ r \in Seq(S) /\ Len(r) = Len(q) - 1
        /\ \A i \in 1 .. Len(r) : r[i] = q[i + 1]
        /\ Head(q) = q[1]
    BY <1>2, HeadTailProperties
  <2>2. Len(q) \in Nat /\ Len(q) # 0
    BY <1>2
  <2> HIDE DEF r
  <2>3. r = <<>> => Len(q) = 1
    BY <2>1, <2>2
  <2>4. r # <<>> => Len(r) \in 1 .. Len(r) /\ Len(r) + 1 = Len(q)
    BY <2>1, <2>2
  <2> QED BY <2>1, <2>3, <2>4 DEF r
<1> QED BY <1>1, <1>2

\* If str::trim changes no label, a daemon that has read every line sent to it
\* is focused on the viewer's last request.
THEOREM RequestsDelivered ==
  ASSUME TrimmedLabels
  PROVE  Spec => []FocusDelivered
<1> USE FocusStreamAssumption
<1>1. Init => RequestInv
  BY DEF Init, RequestInv, Requested
<1>2. TypeOK /\ RequestInv /\ [Next]_vars => RequestInv'
  <2> SUFFICES ASSUME TypeOK, RequestInv, [Next]_vars PROVE RequestInv'
    OBVIOUS
  <2>1. ASSUME NEW t \in Target, NEW got \in [Conn -> 0 .. MaxChan], Poll(t, got)
        PROVE  RequestInv'
    <3> SUFFICES ASSUME NEW c \in Conn, up[c]
                 PROVE  Requested(c)' = lastFocus'[c]
      BY <2>1 DEF RequestInv, Poll
    <3>1. PICK q, w : q = pipe[c] /\ w = Want(c, t)
      OBVIOUS
    <3>2. q \in Seq(MaybeApp) /\ w \in MaybeApp
      BY <3>1 DEF TypeOK, Want, Target, MaybeApp
    <3>3. /\ lastFocus'[c] = w
          /\ pipe'[c] = IF w # lastFocus[c] THEN Append(q, w) ELSE q
          /\ focus' = focus
      BY <2>1, <3>1 DEF Poll, RouteFocus, Sends, daemonVars
    <3>4. CASE w # lastFocus[c]
      <4>1. Append(q, w) # <<>> /\ Append(q, w)[Len(Append(q, w))] = w
        BY <3>2, PipeEnds
      <4> QED BY <3>3, <3>4, <4>1 DEF Requested
    <3>5. CASE w = lastFocus[c]
      BY <3>1, <3>3, <3>5 DEF Requested, RequestInv
    <3> QED BY <3>4, <3>5
  <2>2. ASSUME NEW c \in Conn, ReadLine(c)
        PROVE  RequestInv'
    <3>1. PICK q : q = pipe[c]
      OBVIOUS
    <3>2. q \in Seq(MaybeApp) /\ q # <<>>
      BY <2>2, <3>1 DEF TypeOK, ReadLine
    <3>3. Head(q) \in MaybeApp
      BY <3>2, HeadTailProperties
    <3>4. ParseLine(Head(q)) = Head(q)
      BY <3>3 DEF ParseLine, MaybeApp, TrimmedLabels
    <3>5. pipe'[c] = Tail(q) /\ focus'[c] = Head(q) /\ lastFocus' = lastFocus
      BY <2>2, <3>1, <3>4 DEF ReadLine, TypeOK, viewerVars
    <3>6. up[c] /\ Requested(c) = q[Len(q)]
      BY <2>2, <3>1, <3>2 DEF Requested, ReadLine
    <3>7. /\ Tail(q) # <<>> => Tail(q)[Len(Tail(q))] = q[Len(q)]
          /\ Tail(q) = <<>> => Head(q) = q[Len(q)]
      BY <3>2, PipeEnds
    <3>8. Requested(c)' = Requested(c)
      BY <3>5, <3>6, <3>7 DEF Requested
    <3>9. \A d \in Conn \ {c} : Requested(d)' = Requested(d)
      BY <2>2 DEF ReadLine, TypeOK, Requested
    <3> QED BY <2>2, <3>5, <3>8, <3>9 DEF RequestInv, ReadLine
  <2>3. ASSUME NEW c \in Conn, NEW live \in LiveSets, NEW elapsed \in Elapsed,
               DaemonTick(c, live, elapsed)
        PROVE  RequestInv'
    BY <2>3 DEF DaemonTick, viewerVars, RequestInv, Requested
  <2>4. ASSUME NEW c \in Conn, NEW kept \in 0 .. MaxChan, Die(c, kept)
        PROVE  RequestInv'
    BY <2>4 DEF Die, viewerVars, daemonVars, RequestInv, Requested, TypeOK
  <2>5. CASE ViewKey
    BY <2>5 DEF ViewKey, daemonVars, RequestInv, Requested
  <2>6. CASE UNCHANGED vars
    BY <2>6 DEF vars, RequestInv, Requested
  <2> QED BY <2>1, <2>2, <2>3, <2>4, <2>5, <2>6 DEF Next
<1>3. RequestInv => FocusDelivered
  BY DEF RequestInv, Requested, FocusDelivered
<1> QED BY <1>1, <1>2, <1>3, TypeCorrect, PTL DEF Spec

-----------------------------------------------------------------------------
(* At most one host is asked for its threads.                              *)

RoutedInv ==
  \A c \in Conn : lastFocus[c] # None => target.host = HostOf[c]

\* If no host is listed twice and str::trim changes no label, at most one
\* running daemon samples threads once the lines sent have been read.
THEOREM OneSampler ==
  ASSUME TrimmedLabels, UniqueHosts
  PROVE  Spec => []OneSamplerWhenSettled
<1>1. Init => RoutedInv
  BY DEF Init, RoutedInv
<1>2. RoutedInv /\ [Next]_vars => RoutedInv'
  <2> SUFFICES ASSUME RoutedInv, [Next]_vars PROVE RoutedInv'
    OBVIOUS
  <2>1. ASSUME NEW t \in Target, NEW got \in [Conn -> 0 .. MaxChan], Poll(t, got)
        PROVE  RoutedInv'
    BY <2>1 DEF Poll, RouteFocus, Want, RoutedInv
  <2>2. ASSUME NEW c \in Conn, ReadLine(c)
        PROVE  RoutedInv'
    BY <2>2 DEF ReadLine, viewerVars, RoutedInv
  <2>3. ASSUME NEW c \in Conn, NEW live \in LiveSets, NEW elapsed \in Elapsed,
               DaemonTick(c, live, elapsed)
        PROVE  RoutedInv'
    BY <2>3 DEF DaemonTick, viewerVars, RoutedInv
  <2>4. ASSUME NEW c \in Conn, NEW kept \in 0 .. MaxChan, Die(c, kept)
        PROVE  RoutedInv'
    BY <2>4 DEF Die, viewerVars, RoutedInv
  <2>5. CASE ViewKey
    BY <2>5 DEF ViewKey, RoutedInv
  <2>6. CASE UNCHANGED vars
    BY <2>6 DEF vars, RoutedInv
  <2> QED BY <2>1, <2>2, <2>3, <2>4, <2>5, <2>6 DEF Next
<1>3. RoutedInv /\ FocusDelivered => OneSamplerWhenSettled
  BY UniqueHosts DEF RoutedInv, FocusDelivered, OneSamplerWhenSettled, UniqueHosts
<1>4. Spec => []FocusDelivered
  BY TrimmedLabels, RequestsDelivered
<1> QED BY <1>1, <1>2, <1>3, <1>4, PTL DEF Spec
=============================================================================
