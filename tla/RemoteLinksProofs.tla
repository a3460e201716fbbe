------------------------- MODULE RemoteLinksProofs -------------------------
(* Proofs about RemoteLinks, for every number of connections, all names    *)
(* and lists, and every bound.                                             *)
EXTENDS RemoteLinks, SequenceTheorems, TLAPS

---------------------------------------------------------------------------
\* The inductive invariant.

\* TypeOK but for the two lists of addresses, of which no step below needs
\* to know what they hold.
LinkTypes ==
  /\ source \in Source /\ thin \in BOOLEAN
  /\ phase \in [Slot -> Phase]
  /\ child \in [Slot -> {"none", "running", "exited"}]
  /\ out \in [Slot -> Seq(Line)] /\ turn \in [Slot -> Nat]
  /\ reader \in [Slot -> {"none", "reading", "done"}]
  /\ block \in [Slot -> Nat] /\ prev \in [Slot -> Nat]
  /\ rx \in [Slot -> BOOLEAN] /\ chan \in [Slot -> Seq(Snapshot)]
  /\ results \in Seq(Slot) /\ started \in BOOLEAN /\ conns \in Seq(Slot)
  /\ snap \in [Slot -> Nat] /\ lost \in [Slot -> BOOLEAN] /\ paused \in BOOLEAN
  /\ inRemote \in BOOLEAN /\ fleetHost \subseteq Slot

\* The last snapshot that has come in, and the last counters read.
Sent(s) == IF chan[s] = <<>> THEN snap[s] ELSE chan[s][Len(chan[s])].n
LastRead(s) == IF block[s] # 0 THEN block[s] ELSE Sent(s)

Numbered(line) == line.kind \in {"snapshot", "stat"}

\* The numbered lines of a pipe are above lo, none above hi, and ascend.
InOrder(lines, lo, hi) ==
  \A i \in 1..Len(lines) : Numbered(lines[i]) =>
    /\ lo < lines[i].n /\ lines[i].n <= hi
    /\ \A j \in 1..Len(lines) : j > i /\ Numbered(lines[j]) => lines[i].n < lines[j].n

\* One kind of child prints one kind of numbered line.
OneKind(lines, isThin) ==
  \A i \in 1..Len(lines) :
    Numbered(lines[i]) => lines[i].kind = (IF isThin THEN "stat" ELSE "snapshot")

\* What is received is in order, from the child to the display.
PipeInOrder(s) ==
  /\ Sent(s) <= LastRead(s) /\ LastRead(s) <= turn[s]
  /\ block[s] # 0 => thin /\ Sent(s) < block[s]
  /\ thin => prev[s] = Sent(s)
  /\ InOrder(out[s], LastRead(s), turn[s])
  /\ OneKind(out[s], thin)

\* Each snapshot that waits starts where the one before it ended.
Abut(s) ==
  \A i \in 1..Len(chan[s]) :
    thin => /\ chan[s][i].since < chan[s][i].n
            /\ i > 1 => chan[s][i].since = chan[s][i - 1].n
            /\ i = Len(chan[s]) => prev[s] = chan[s][i].n

SlotInv(s) ==
  /\ child[s] = "running" => phase[s] \in {"probation", "ok", "dropped"}
  /\ IF rx[s] THEN PipeInOrder(s) ELSE chan[s] = <<>>
  /\ Abut(s)

Injective(list) == \A i, j \in 1..Len(list) : list[i] = list[j] => i = j

\* A thread answers once: its slot is at rest from then on.
ListInv ==
  /\ source # "vm" =>
       /\ \A s \in Slot : phase[s] \in {"idle", "trying", "probation", "ok", "failed"}
       /\ \A i \in 1..Len(results) : phase[results[i]] \in {"ok", "failed"}
       /\ Injective(results)
  /\ started => /\ Injective(conns)
                /\ \A s \in Targets : \E i \in 1..Len(conns) : conns[i] = s

LinkInv == LinkTypes /\ ListInv /\ \A s \in Slot : SlotInv(s)
---------------------------------------------------------------------------
(* Pipes: what a line more or less does to their order.                    *)

\* A line with the next number goes to the end.
LEMMA InOrderNext ==
  ASSUME NEW q \in Seq(Line), NEW lo \in Nat, NEW hi \in Nat, lo <= hi, InOrder(q, lo, hi),
         NEW line \in Line, line.n = hi + 1
  PROVE  InOrder(Append(q, line), lo, hi + 1)
  <1> DEFINE r == Append(q, line)
  <1>1. /\ Len(r) = Len(q) + 1 /\ r[Len(q) + 1] = line
        /\ \A i \in 1..Len(q) : r[i] = q[i] /\ q[i] \in Line
    BY AppendProperties, ElementOfSeq
  <1>2. \A l \in Line : l.n \in Nat
    BY DEF Line
  <1> HIDE DEF r
  <1>3. Len(q) \in Nat
    BY LenProperties
  <1> SUFFICES ASSUME NEW i \in 1..Len(r), Numbered(r[i])
               PROVE  /\ lo < r[i].n /\ r[i].n <= hi + 1
                      /\ \A j \in 1..Len(r) : j > i /\ Numbered(r[j]) => r[i].n < r[j].n
    BY DEF InOrder, r
  <1>4. CASE i = Len(q) + 1
    BY <1>1, <1>3, <1>4
  <1>5. CASE i \in 1..Len(q)
    <2>1. lo < q[i].n /\ q[i].n <= hi /\ r[i] = q[i] /\ q[i].n \in Nat
      BY <1>1, <1>2, <1>5 DEF InOrder
    <2>2. ASSUME NEW j \in 1..Len(r), j > i, Numbered(r[j])
          PROVE  r[i].n < r[j].n
      <3>1. CASE j = Len(q) + 1
        BY <1>1, <2>1, <3>1
      <3>2. CASE j \in 1..Len(q)
        BY <1>1, <1>5, <2>2, <3>2 DEF InOrder
      <3> QED
        BY <1>1, <1>3, <2>2, <3>1, <3>2
    <2> QED
      BY <2>1, <2>2
  <1> QED
    BY <1>1, <1>3, <1>4, <1>5

\* Noise and separators have no number.
LEMMA InOrderNoise ==
  ASSUME NEW q \in Seq(Line), NEW lo, NEW hi, InOrder(q, lo, hi),
         NEW line \in Line, ~Numbered(line)
  PROVE  InOrder(Append(q, line), lo, hi)
  <1> DEFINE r == Append(q, line)
  <1>1. /\ Len(r) = Len(q) + 1 /\ r[Len(q) + 1] = line /\ Len(q) \in Nat
        /\ \A i \in 1..Len(q) : r[i] = q[i]
    BY AppendProperties, LenProperties
  <1> HIDE DEF r
  <1>2. \A i \in 1..Len(r) : Numbered(r[i]) => i \in 1..Len(q) /\ r[i] = q[i]
    BY <1>1
  <1>3. InOrder(r, lo, hi)
    BY <1>1, <1>2 DEF InOrder
  <1> QED
    BY <1>3 DEF r

\* The line that is read is the lowest.
LEMMA InOrderTail ==
  ASSUME NEW q \in Seq(Line), q # <<>>, NEW lo \in Nat, NEW hi \in Nat, InOrder(q, lo, hi)
  PROVE  /\ InOrder(Tail(q), lo, hi)
         /\ Numbered(Head(q)) => /\ lo < Head(q).n /\ Head(q).n <= hi
                                 /\ InOrder(Tail(q), Head(q).n, hi)
  <1> DEFINE r == Tail(q)
  <1>1. /\ Len(r) = Len(q) - 1 /\ Len(q) \in Nat /\ Len(q) > 0
        /\ \A i \in 1..Len(r) : r[i] = q[i + 1]
        /\ Head(q) = q[1]
    BY HeadTailProperties, LenProperties, EmptySeq
  <1> HIDE DEF r
  <1>2. InOrder(r, lo, hi)
    <2> SUFFICES ASSUME NEW i \in 1..Len(r), Numbered(r[i])
                 PROVE  /\ lo < r[i].n /\ r[i].n <= hi
                        /\ \A j \in 1..Len(r) : j > i /\ Numbered(r[j]) => r[i].n < r[j].n
      BY DEF InOrder
    <2>1. i + 1 \in 1..Len(q) /\ r[i] = q[i + 1]
      BY <1>1
    <2>2. \A j \in 1..Len(r) : j > i => /\ j + 1 \in 1..Len(q) /\ j + 1 > i + 1
                                        /\ r[j] = q[j + 1]
      BY <1>1
    <2> QED
      BY <2>1, <2>2 DEF InOrder
  <1>3. ASSUME Numbered(q[1])
        PROVE  lo < q[1].n /\ q[1].n <= hi /\ InOrder(r, q[1].n, hi)
    <2>1. 1 \in 1..Len(q)
      BY <1>1
    <2>2. \A i \in 1..Len(r) : Numbered(r[i]) => q[1].n < r[i].n
      <3> SUFFICES ASSUME NEW i \in 1..Len(r), Numbered(r[i])
                   PROVE  q[1].n < r[i].n
        OBVIOUS
      <3>1. i + 1 \in 1..Len(q) /\ i + 1 > 1 /\ r[i] = q[i + 1]
        BY <1>1
      <3> QED
        BY <1>3, <2>1, <3>1 DEF InOrder
    <2> QED
      BY <1>2, <1>3, <2>1, <2>2 DEF InOrder
  <1> QED
    BY <1>1, <1>2, <1>3 DEF r

LEMMA OneKindAppend ==
  ASSUME NEW q \in Seq(Line), NEW isThin, OneKind(q, isThin), NEW line \in Line,
         Numbered(line) => line.kind = (IF isThin THEN "stat" ELSE "snapshot")
  PROVE  OneKind(Append(q, line), isThin)
  <1> DEFINE r == Append(q, line)
  <1>1. /\ Len(r) = Len(q) + 1 /\ r[Len(q) + 1] = line /\ Len(q) \in Nat
        /\ \A i \in 1..Len(q) : r[i] = q[i]
    BY AppendProperties, LenProperties
  <1> HIDE DEF r
  <1>2. \A i \in 1..Len(r) : i = Len(q) + 1 \/ i \in 1..Len(q)
    BY <1>1
  <1>3. OneKind(r, isThin)
    BY <1>1, <1>2 DEF OneKind
  <1> QED
    BY <1>3 DEF r

LEMMA OneKindTail ==
  ASSUME NEW q \in Seq(Line), q # <<>>, NEW isThin, OneKind(q, isThin)
  PROVE  /\ OneKind(Tail(q), isThin)
         /\ Numbered(Head(q)) => Head(q).kind = (IF isThin THEN "stat" ELSE "snapshot")
  <1> DEFINE r == Tail(q)
  <1>1. /\ Len(r) = Len(q) - 1 /\ Len(q) \in Nat /\ Len(q) > 0
        /\ \A i \in 1..Len(r) : r[i] = q[i + 1]
        /\ Head(q) = q[1]
    BY HeadTailProperties, LenProperties, EmptySeq
  <1> HIDE DEF r
  <1>2. \A i \in 1..Len(r) : i + 1 \in 1..Len(q) /\ r[i] = q[i + 1]
    BY <1>1
  <1>3. OneKind(r, isThin)
    BY <1>2 DEF OneKind
  <1>4. 1 \in 1..Len(q)
    BY <1>1
  <1> QED
    BY <1>1, <1>3, <1>4 DEF r, OneKind

\* The list of the connections grows by one that was not in it.
LEMMA InjectiveAppend ==
  ASSUME NEW q \in Seq(Slot), Injective(q), NEW s \in Slot, \A i \in 1..Len(q) : q[i] # s
  PROVE  Injective(Append(q, s))
  <1>1. /\ Len(Append(q, s)) = Len(q) + 1 /\ Append(q, s)[Len(q) + 1] = s /\ Len(q) \in Nat
        /\ \A i \in 1..Len(q) : Append(q, s)[i] = q[i]
    BY AppendProperties, LenProperties
  <1> QED
    BY <1>1 DEF Injective

---------------------------------------------------------------------------
(* Types.                                                                  *)

LEMMA SentType ==
  ASSUME LinkTypes, NEW s \in Slot
  PROVE  /\ Sent(s) \in Nat /\ Newest(s) = Sent(s) /\ LastRead(s) \in Nat
         /\ chan[s] # <<>> => chan[s][Len(chan[s])] \in Snapshot
  <1>1. chan[s] # <<>> => chan[s][Len(chan[s])] \in Snapshot
    <2>1. chan[s] \in Seq(Snapshot)
      BY DEF LinkTypes
    <2> QED
      BY <2>1, EmptySeq, ElementOfSeq
  <1>2. Sent(s) \in Nat
    BY <1>1 DEF Sent, Snapshot, LinkTypes
  <1> QED
    BY <1>1, <1>2 DEF Sent, LastRead, Newest, Last, LinkTypes

LEMMA LineType ==
  /\ Separator \in Line /\ ~Numbered(Separator)
  /\ Noise \in Line /\ ~Numbered(Noise)
  /\ \A n \in Nat, k \in {"snapshot", "stat"} : /\ [kind |-> k, n |-> n] \in Line
                                              /\ Numbered([kind |-> k, n |-> n])
  /\ \A l \in Line : l.n \in Nat /\ l.kind \in {"snapshot", "stat", "===", "noise"}
  BY DEF Line, Separator, Noise, Numbered

LEMMA HeadType ==
  ASSUME LinkTypes, NEW s \in Slot, out[s] # <<>>
  PROVE  Head(out[s]) \in Line /\ Tail(out[s]) \in Seq(Line)
  BY HeadTailProperties DEF LinkTypes

LEMMA InitTypes == Init => LinkTypes
  <1> SUFFICES ASSUME Init PROVE LinkTypes
    OBVIOUS
  <1>1. <<>> \in Seq(Line) /\ <<>> \in Seq(Snapshot) /\ <<>> \in Seq(Slot)
    BY EmptySeq
  <1>2. phase \in [Slot -> Phase]
    BY DEF Init, Phase
  <1> QED
    BY <1>1, <1>2 DEF Init, LinkTypes

LEMMA GiveUpTypes ==
  ASSUME LinkTypes, NEW s \in Slot, GiveUp(s)
  PROVE  /\ rx' \in [Slot -> BOOLEAN] /\ chan' \in [Slot -> Seq(Snapshot)]
         /\ phase' \in [Slot -> Phase] /\ results' \in Seq(Slot)
  <1>1. <<>> \in Seq(Snapshot)
    BY EmptySeq
  <1>2. Append(results, s) \in Seq(Slot)
    BY AppendProperties DEF LinkTypes
  <1> QED
    BY <1>1, <1>2 DEF GiveUp, Answer, LinkTypes, Phase

LEMMA TypesNext == LinkTypes /\ [Next]_vars => LinkTypes'
  <1> SUFFICES ASSUME LinkTypes, [Next]_vars PROVE LinkTypes'
    OBVIOUS
  <1> USE DEF startVars, childVars, readerVars, viewVars, remoteVars
  <1>e. <<>> \in Seq(Line) /\ <<>> \in Seq(Snapshot)
    BY EmptySeq
  <1>1. ASSUME NEW s \in Slot, Refused(s) \/ Unreachable(s) PROVE LinkTypes'
    BY <1>1, GiveUpTypes DEF Refused, Unreachable, LinkTypes
  <1>2. ASSUME NEW s \in Slot, Spawn(s) PROVE LinkTypes'
    BY <1>2, <1>e DEF Spawn, LinkTypes, Phase
  <1>3. ASSUME NEW s \in Slot, Settled(s) PROVE LinkTypes'
    <2>1. Append(results, s) \in Seq(Slot)
      BY AppendProperties DEF LinkTypes
    <2>2. CASE child[s] = "running"
      BY <1>3, <2>1, <2>2 DEF Settled, Answer, LinkTypes, Phase
    <2>3. CASE child[s] # "running"
      BY <1>3, <2>3, GiveUpTypes DEF Settled, LinkTypes
    <2> QED
      BY <2>2, <2>3
  <1>4. ASSUME NEW s \in Slot, Banner(s) \/ EmitBare(s) \/ Exit(s) PROVE LinkTypes'
    <2>1. Append(out[s], Noise) \in Seq(Line) /\ Append(out[s], Separator) \in Seq(Line)
      BY AppendProperties, LineType DEF LinkTypes
    <2>2. /\ child' = child \/ child' = [child EXCEPT ![s] = "exited"]
          /\ \/ out' = out
             \/ out' = [out EXCEPT ![s] = Append(out[s], Noise)]
             \/ out' = [out EXCEPT ![s] = Append(out[s], Separator)]
      BY <1>4 DEF Banner, EmitBare, Exit, Put
    <2>3. UNCHANGED <<startVars, phase, turn, readerVars, rx, chan, results, viewVars>>
      BY <1>4 DEF Banner, EmitBare, Exit
    <2>4. out' \in [Slot -> Seq(Line)]
      BY <2>1, <2>2 DEF LinkTypes
    <2>5. child' \in [Slot -> {"none", "running", "exited"}]
      BY <2>2 DEF LinkTypes
    <2> QED
      BY <2>3, <2>4, <2>5 DEF LinkTypes
  <1>5. ASSUME NEW s \in Slot, Emit(s) PROVE LinkTypes'
    <2>1. CASE reader[s] = "done"
      BY <1>5, <2>1 DEF Emit, LinkTypes
    <2>2. CASE reader[s] # "done"
      <3> DEFINE n == IF rx[s] \/ turn[s] = 0 THEN turn[s] + 1 ELSE turn[s]
                 stat == Append(out[s], [kind |-> "stat", n |-> n])
      <3>1. n \in Nat
        BY DEF LinkTypes
      <3>2. /\ stat \in Seq(Line)
            /\ Append(out[s], [kind |-> "snapshot", n |-> n]) \in Seq(Line)
        BY <3>1, AppendProperties, LineType DEF LinkTypes
      <3>3. Append(stat, Separator) \in Seq(Line)
        BY <3>2, AppendProperties, LineType
      <3>4. /\ turn' = [turn EXCEPT ![s] = n]
            /\ \/ out' = [out EXCEPT ![s] = Append(stat, Separator)]
               \/ out' = [out EXCEPT ![s] = Append(out[s], [kind |-> "snapshot", n |-> n])]
            /\ UNCHANGED <<child, startVars, phase, readerVars, rx, chan, results, viewVars>>
        BY <1>5, <2>2 DEF Emit, Put, LinkTypes
      <3> HIDE DEF n, stat
      <3>5. turn' \in [Slot -> Nat]
        BY <3>1, <3>4 DEF LinkTypes
      <3>6. out' \in [Slot -> Seq(Line)]
        BY <3>2, <3>3, <3>4 DEF LinkTypes
      <3> QED
        BY <3>4, <3>5, <3>6 DEF LinkTypes
    <2> QED
      BY <2>1, <2>2
  <1>6. ASSUME NEW s \in Slot, ReadLine(s) PROVE LinkTypes'
    <2>1. /\ Head(out[s]) \in Line /\ Tail(out[s]) \in Seq(Line)
      BY <1>6, HeadType DEF ReadLine
    <2>2. BlockAfter(s, Head(out[s])) \in Nat
      BY <2>1, LineType DEF BlockAfter, LinkTypes
    <2>3. ASSUME NEW sn \in Snapshot, Send(s, sn)
          PROVE  /\ chan' \in [Slot -> Seq(Snapshot)]
                 /\ reader' \in [Slot -> {"none", "reading", "done"}]
      <3>1. Append(chan[s], sn) \in Seq(Snapshot)
        BY AppendProperties DEF LinkTypes
      <3> QED
        BY <2>3, <3>1 DEF Send, LinkTypes
    <2>4. /\ [n |-> Head(out[s]).n, since |-> 0] \in Snapshot /\ ThinSnapshot(s) \in Snapshot
      BY <2>1, LineType DEF Snapshot, ThinSnapshot, LinkTypes
    <2>5. /\ chan' \in [Slot -> Seq(Snapshot)]
          /\ reader' \in [Slot -> {"none", "reading", "done"}]
          /\ prev' \in [Slot -> Nat]
      BY <1>6, <2>3, <2>4 DEF ReadLine, LinkTypes
    <2> QED
      BY <1>6, <2>1, <2>2, <2>5 DEF ReadLine, LinkTypes
  <1>7. ASSUME NEW s \in Slot, ReadEnd(s) PROVE LinkTypes'
    BY <1>7 DEF ReadEnd, LinkTypes
  <1>8. ASSUME NEW s \in Slot, PollRemote(s) PROVE LinkTypes'
    <2>1. chan' \in [Slot -> Seq(Snapshot)] /\ rx' \in [Slot -> BOOLEAN]
      BY <1>8, <1>e DEF PollRemote, Close, LinkTypes
    <2>2. snap' \in [Slot -> Nat] /\ phase' \in [Slot -> Phase]
      <3>1. CASE child[s] = "exited"
        BY <1>8, <3>1 DEF PollRemote, Close, LinkTypes, Phase
      <3>2. CASE child[s] # "exited"
        <4>1. snap' = [snap EXCEPT ![s] = Newest(s)] /\ phase' = phase
          BY <1>8, <3>2 DEF PollRemote
        <4>2. Newest(s) \in Nat
          BY SentType
        <4> QED
          BY <4>1, <4>2 DEF LinkTypes
      <3> QED
        BY <3>1, <3>2
    <2>3. child' \in [Slot -> {"none", "running", "exited"}]
      BY <1>8 DEF PollRemote, Close, LinkTypes
    <2>4. UNCHANGED <<startVars, out, turn, readerVars, results, started, conns, lost, paused, remoteVars>>
      BY <1>8 DEF PollRemote
    <2> QED
      BY <2>1, <2>2, <2>3, <2>4 DEF LinkTypes
  <1>9. ASSUME NEW s \in Slot, Esc(s) \/ Replaced(s) \/ Enter(s) PROVE LinkTypes'
    <2>1. /\ chan' = chan \/ chan' = [chan EXCEPT ![s] = <<>>]
          /\ rx' = rx \/ rx' = [rx EXCEPT ![s] = FALSE]
      BY <1>9 DEF Esc, Close, Replaced, Enter
    <2>2. phase' \in [Slot -> Phase] /\ child' \in [Slot -> {"none", "running", "exited"}]
      BY <1>9 DEF Esc, Close, Replaced, Enter, LinkTypes, Phase
    <2>3. UNCHANGED <<startVars, out, turn, readerVars, results, viewVars>>
      BY <1>9 DEF Esc, Close, Replaced, Enter
    <2>4. chan' \in [Slot -> Seq(Snapshot)]
      BY <1>e, <2>1 DEF LinkTypes
    <2>5. rx' \in [Slot -> BOOLEAN]
      BY <2>1 DEF LinkTypes
    <2> QED
      BY <2>2, <2>3, <2>4, <2>5 DEF LinkTypes
  <1>10. ASSUME Collect PROVE LinkTypes'
    BY <1>10 DEF Collect, LinkTypes
  <1>11. ASSUME Poll PROVE LinkTypes'
    BY <1>11, <1>e, SentType DEF Poll, LinkTypes
  <1>12. ASSUME PauseKey PROVE LinkTypes'
    BY <1>12 DEF PauseKey, LinkTypes
  <1>13. CASE UNCHANGED vars
    BY <1>13 DEF vars, LinkTypes
  <1>14. ASSUME (\E s \in Slot : EnterHost(s)) \/ OpenClient \/ Leave PROVE LinkTypes'
    BY <1>14 DEF EnterHost, OpenClient, Leave, LinkTypes
  <1>15. ASSUME NEW s \in Slot, HostPoll(s) PROVE LinkTypes'
    <2>1. CASE child[s] = "exited"
      BY <1>15, <2>1 DEF HostPoll, LinkTypes
    <2>2. CASE child[s] # "exited"
      <3>1. Newest(s) \in Nat
        BY SentType
      <3> QED
        BY <1>15, <1>e, <2>2, <3>1 DEF HostPoll, LinkTypes
    <2> QED
      BY <2>1, <2>2
  <1> QED
    BY <1>1, <1>2, <1>3, <1>4, <1>5, <1>6, <1>7, <1>8, <1>9, <1>10, <1>11, <1>12, <1>13,
       <1>14, <1>15
    DEF Next, Attempt, Connect, ConnectDirect, ConnectThin, ConnectKubeDaemon, ConnectKubeThin,
        ConnectNomadDaemon, ConnectNomadThin, Read, FleetConns, KubeConns, NomadConns,
        FleetPoll, KubePoll, NomadPoll

---------------------------------------------------------------------------
(* What a step makes of one connection.                                    *)

Known(s) == child[s] = "running" => phase[s] \in {"probation", "ok", "dropped"}

\* Nothing of its snapshots moves.
LEMMA SlotKept ==
  ASSUME NEW s \in Slot, SlotInv(s), Known(s)',
         UNCHANGED <<thin, rx[s], chan[s], out[s], turn[s], block[s], prev[s], snap[s]>>
  PROVE  SlotInv(s)'
  <1>1. Sent(s)' = Sent(s)
    BY DEF Sent
  <1>2. LastRead(s)' = LastRead(s)
    BY <1>1 DEF LastRead
  <1>3. PipeInOrder(s) => PipeInOrder(s)'
    BY <1>1, <1>2 DEF PipeInOrder
  <1>4. Abut(s)'
    BY DEF SlotInv, Abut
  <1> QED
    BY <1>3, <1>4 DEF SlotInv, Known

\* Nobody receives any more.
LEMMA SlotLetGo ==
  ASSUME NEW s \in Slot, Known(s)', ~rx'[s], chan'[s] = <<>>
  PROVE  SlotInv(s)'
  <1>1. Len(chan'[s]) = 0
    BY EmptySeq
  <1> QED
    BY <1>1 DEF SlotInv, Known, Abut

\* The display takes the newest.
LEMMA SlotLooked ==
  ASSUME LinkTypes, NEW s \in Slot, SlotInv(s), Known(s)',
         UNCHANGED <<thin, rx[s], out[s], turn[s], block[s], prev[s]>>,
         snap'[s] = Newest(s), chan'[s] = <<>>
  PROVE  SlotInv(s)'
  <1>1. Sent(s)' = Sent(s)
    BY SentType DEF Sent
  <1>2. LastRead(s)' = LastRead(s)
    BY <1>1 DEF LastRead
  <1>3. PipeInOrder(s) => PipeInOrder(s)'
    BY <1>1, <1>2 DEF PipeInOrder
  <1>4. Len(chan'[s]) = 0
    BY EmptySeq
  <1> QED
    BY <1>3, <1>4 DEF SlotInv, Known, Abut

\* A line without a number is printed.
LEMMA SlotNoise ==
  ASSUME LinkTypes, NEW s \in Slot, SlotInv(s), Known(s)', NEW line \in Line, ~Numbered(line),
         out'[s] = Append(out[s], line),
         UNCHANGED <<thin, rx[s], chan[s], turn[s], block[s], prev[s], snap[s]>>
  PROVE  SlotInv(s)'
  <1>1. Sent(s)' = Sent(s)
    BY DEF Sent
  <1>2. LastRead(s)' = LastRead(s)
    BY <1>1 DEF LastRead
  <1>3. ASSUME PipeInOrder(s) PROVE PipeInOrder(s)'
    <2>1. out[s] \in Seq(Line)
      BY DEF LinkTypes
    <2>2. InOrder(out'[s], LastRead(s), turn[s])
      BY <1>3, <2>1, InOrderNoise DEF PipeInOrder
    <2>3. OneKind(out'[s], thin)
      BY <1>3, <2>1, OneKindAppend DEF PipeInOrder
    <2> QED
      BY <1>1, <1>2, <1>3, <2>2, <2>3 DEF PipeInOrder
  <1>4. Abut(s)'
    BY DEF SlotInv, Abut
  <1> QED
    BY <1>3, <1>4 DEF SlotInv, Known

\* The next snapshot is printed, of a thin probe with its separator.
LEMMA SlotPrinted ==
  ASSUME LinkTypes, NEW s \in Slot, SlotInv(s), Known(s)', NEW n \in Nat,
         rx[s] => n = turn[s] + 1,
         turn'[s] = n,
         out'[s] = IF thin THEN Append(Append(out[s], [kind |-> "stat", n |-> n]), Separator)
                   ELSE Append(out[s], [kind |-> "snapshot", n |-> n]),
         UNCHANGED <<thin, rx[s], chan[s], block[s], prev[s], snap[s]>>
  PROVE  SlotInv(s)'
  <1>1. Sent(s)' = Sent(s)
    BY DEF Sent
  <1>2. LastRead(s)' = LastRead(s)
    BY <1>1 DEF LastRead
  <1>3. ASSUME rx[s], PipeInOrder(s) PROVE PipeInOrder(s)'
    <2> DEFINE line == [kind |-> IF thin THEN "stat" ELSE "snapshot", n |-> n]
               q == Append(out[s], line)
    <2>1. out[s] \in Seq(Line) /\ turn[s] \in Nat /\ LastRead(s) \in Nat
      BY SentType DEF LinkTypes
    <2>2. line \in Line /\ Numbered(line)
      BY LineType
    <2>3. n = turn[s] + 1 /\ line.n = turn[s] + 1 /\ LastRead(s) <= turn[s]
      BY <1>3 DEF PipeInOrder
    <2>4. q \in Seq(Line)
      BY <2>1, <2>2, AppendProperties
    <2>5. InOrder(q, LastRead(s), n)
      <3> HIDE DEF line
      <3> QED
        BY <1>3, <2>1, <2>2, <2>3, InOrderNext DEF PipeInOrder
    <2>6. OneKind(q, thin)
      BY <1>3, <2>1, <2>2, OneKindAppend DEF PipeInOrder
    <2>7. InOrder(out'[s], LastRead(s), n) /\ OneKind(out'[s], thin)
      <3>1. CASE thin
        <4>1. out'[s] = Append(q, Separator)
          BY <3>1
        <4> HIDE DEF q
        <4>2. InOrder(Append(q, Separator), LastRead(s), n)
          BY <2>4, <2>5, LineType, InOrderNoise
        <4>3. OneKind(Append(q, Separator), thin)
          BY <2>4, <2>6, LineType, OneKindAppend
        <4> QED
          BY <4>1, <4>2, <4>3
      <3>2. CASE ~thin
        <4>1. out'[s] = q
          BY <3>2
        <4> QED
          BY <2>5, <2>6, <4>1
      <3> QED
        BY <3>1, <3>2
    <2> QED
      BY <1>1, <1>2, <1>3, <2>1, <2>3, <2>7 DEF PipeInOrder
  <1>4. Abut(s)'
    BY DEF SlotInv, Abut
  <1> QED
    BY <1>3, <1>4 DEF SlotInv, Known

\* A snapshot comes in.
LEMMA SentAppend ==
  ASSUME LinkTypes, NEW s \in Slot, NEW sn \in Snapshot, rx[s], Send(s, sn)
  PROVE  /\ chan'[s] = Append(chan[s], sn) /\ Sent(s)' = sn.n
         /\ Len(chan'[s]) = Len(chan[s]) + 1 /\ chan'[s][Len(chan[s]) + 1] = sn
         /\ \A i \in 1..Len(chan[s]) : chan'[s][i] = chan[s][i]
  <1>1. chan[s] \in Seq(Snapshot)
    BY DEF LinkTypes
  <1>2. chan'[s] = Append(chan[s], sn)
    BY DEF Send, LinkTypes
  <1> QED
    BY <1>1, <1>2, AppendProperties DEF Sent

\* A line is read: the snapshots stay in order, and what comes in is newer
\* than what came before.
LEMMA SlotRead ==
  ASSUME LinkTypes, NEW s \in Slot, SlotInv(s), ReadLine(s)
  PROVE  /\ SlotInv(s)'
         /\ IF rx[s] THEN Sent(s)' = Sent(s) \/ Sent(s)' \in (Sent(s) + 1)..turn[s]
            ELSE chan' = chan
  <1> DEFINE line == Head(out[s])
             rest == Tail(out[s])
  <1>1. Known(s)'
    BY DEF SlotInv, Known, ReadLine
  <1>2. CASE ~rx[s]
    <2>1. chan' = chan /\ rx' = rx
      BY <1>2 DEF ReadLine, Send
    <2> QED
      BY <1>1, <1>2, <2>1, SlotLetGo DEF SlotInv
  <1>3. CASE rx[s]
    <2>1. PipeInOrder(s) /\ rx'[s] /\ Sent(s) \in Nat /\ LastRead(s) \in Nat
          /\ turn[s] \in Nat /\ block[s] \in Nat
      BY <1>3, SentType DEF SlotInv, ReadLine, LinkTypes
    <2>2. /\ line \in Line /\ line.n \in Nat
          /\ line.kind \in {"snapshot", "stat", "===", "noise"}
          /\ out[s] \in Seq(Line) /\ out[s] # <<>>
      BY HeadType, LineType DEF ReadLine, LinkTypes
    <2>3. /\ out'[s] = rest /\ block'[s] = BlockAfter(s, line)
          /\ UNCHANGED <<thin, turn, rx, snap>>
      BY DEF ReadLine, LinkTypes, startVars, viewVars
    <2>4. OneKind(rest, thin) /\ InOrder(rest, LastRead(s), turn[s])
      BY <2>1, <2>2, OneKindTail, InOrderTail DEF PipeInOrder
    <2>5. ASSUME Numbered(line)
          PROVE  /\ line.kind = (IF thin THEN "stat" ELSE "snapshot")
                 /\ LastRead(s) < line.n /\ line.n <= turn[s]
                 /\ InOrder(rest, line.n, turn[s])
      BY <2>1, <2>2, <2>5, OneKindTail, InOrderTail DEF PipeInOrder
    <2>6. Sent(s) <= LastRead(s) /\ LastRead(s) <= turn[s]
          /\ (block[s] # 0 => thin /\ Sent(s) < block[s] /\ LastRead(s) = block[s])
          /\ (thin => prev[s] = Sent(s))
      BY <2>1 DEF PipeInOrder, LastRead
    <2> HIDE DEF line, rest
    <2>7. CASE line.kind = "snapshot"
      <3> DEFINE sn == [n |-> line.n, since |-> 0]
      <3>1. sn \in Snapshot /\ Send(s, sn)
        BY <2>2, <2>7 DEF ReadLine, Snapshot, line
      <3>2. ~thin /\ LastRead(s) < line.n /\ line.n <= turn[s] /\ InOrder(rest, line.n, turn[s])
        BY <2>5, <2>7 DEF Numbered
      <3>3. Sent(s)' = line.n
        BY <1>3, <3>1, SentAppend
      <3>4. block'[s] = 0 /\ LastRead(s)' = line.n
        BY <2>3, <2>6, <2>7, <3>2, <3>3 DEF BlockAfter, LastRead
      <3>5. PipeInOrder(s)'
        BY <2>2, <2>3, <2>4, <3>2, <3>3, <3>4 DEF PipeInOrder
      <3>6. Abut(s)'
        BY <2>3, <3>2 DEF Abut
      <3> QED
        BY <1>1, <1>3, <2>1, <2>2, <2>6, <3>2, <3>3, <3>5, <3>6 DEF SlotInv, Known
    <2>8. CASE line.kind = "===" /\ block[s] # 0
      <3>1. ThinSnapshot(s) \in Snapshot /\ Send(s, ThinSnapshot(s)) /\ prev'[s] = block[s]
        BY <2>8 DEF ReadLine, Snapshot, ThinSnapshot, LinkTypes, line
      <3>2. ThinSnapshot(s).n = block[s] /\ ThinSnapshot(s).since = Sent(s)
        BY <2>1, <2>6, <2>8 DEF ThinSnapshot
      <3>3. Sent(s)' = block[s]
        BY <1>3, <3>1, <3>2, SentAppend
      <3>4. block'[s] = 0 /\ LastRead(s)' = block[s]
        BY <2>3, <2>8, <3>3 DEF BlockAfter, LastRead
      <3>5. PipeInOrder(s)'
        BY <2>1, <2>3, <2>4, <2>6, <2>8, <3>1, <3>3, <3>4 DEF PipeInOrder
      <3>6. Abut(s)'
        <4>1. /\ Len(chan'[s]) = Len(chan[s]) + 1 /\ chan'[s][Len(chan[s]) + 1] = ThinSnapshot(s)
              /\ \A i \in 1..Len(chan[s]) : chan'[s][i] = chan[s][i]
          BY <1>3, <3>1, SentAppend
        <4>2. Len(chan[s]) \in Nat /\ (Len(chan[s]) > 0 => chan[s] # <<>>)
          BY LenProperties, EmptySeq DEF LinkTypes
        <4>3. ASSUME NEW i \in 1..Len(chan'[s]), thin
              PROVE  /\ chan'[s][i].since < chan'[s][i].n
                     /\ i > 1 => chan'[s][i].since = chan'[s][i - 1].n
                     /\ i = Len(chan'[s]) => prev'[s] = chan'[s][i].n
          <5>1. CASE i = Len(chan[s]) + 1
            <6>1. chan'[s][i].n = block[s] /\ chan'[s][i].since = Sent(s)
              BY <3>2, <4>1, <5>1
            <6>2. i > 1 => chan'[s][i - 1] = chan[s][Len(chan[s])] /\ chan[s] # <<>>
              BY <4>1, <4>2, <5>1
            <6>3. i > 1 => chan'[s][i - 1].n = Sent(s)
              BY <6>2 DEF Sent
            <6> QED
              BY <2>6, <2>8, <3>1, <6>1, <6>3
          <5>2. CASE i \in 1..Len(chan[s])
            <6>1. chan'[s][i] = chan[s][i] /\ (i > 1 => chan'[s][i - 1] = chan[s][i - 1])
                  /\ i # Len(chan'[s])
              BY <4>1, <4>2, <5>2
            <6> QED
              BY <4>3, <5>2, <6>1 DEF SlotInv, Abut
          <5> QED
            BY <4>1, <4>2, <5>1, <5>2
        <4> QED
          BY <2>3, <4>3 DEF Abut
      <3> QED
        BY <1>1, <1>3, <2>1, <2>6, <2>8, <3>3, <3>5, <3>6 DEF SlotInv, Known
    <2>9. CASE line.kind \in {"stat", "noise"} \/ (line.kind = "===" /\ block[s] = 0)
      <3>1. UNCHANGED <<prev, chan>>
        BY <2>9 DEF ReadLine, line
      <3>2. Sent(s)' = Sent(s)
        BY <2>3, <3>1 DEF Sent
      <3>3. PipeInOrder(s)'
        <4>1. CASE line.kind = "stat"
          <5>1. thin /\ LastRead(s) < line.n /\ line.n <= turn[s] /\ InOrder(rest, line.n, turn[s])
            BY <2>5, <4>1 DEF Numbered
          <5>2. block'[s] = line.n /\ line.n # 0 /\ LastRead(s)' = line.n
            BY <2>1, <2>2, <2>3, <4>1, <5>1 DEF BlockAfter, LastRead
          <5> QED
            BY <2>1, <2>2, <2>3, <2>4, <2>6, <3>1, <3>2, <5>1, <5>2 DEF PipeInOrder
        <4>2. CASE line.kind # "stat"
          <5>1. block'[s] = block[s]
            BY <2>3, <2>9, <4>2 DEF BlockAfter
          <5>2. LastRead(s)' = LastRead(s)
            BY <3>2, <5>1 DEF LastRead
          <5> QED
            BY <2>3, <2>4, <2>6, <3>1, <3>2, <5>1, <5>2 DEF PipeInOrder
        <4> QED
          BY <4>1, <4>2
      <3>4. Abut(s)'
        BY <2>3, <3>1 DEF SlotInv, Abut
      <3> QED
        BY <1>1, <1>3, <2>1, <3>2, <3>3, <3>4 DEF SlotInv, Known
    <2> QED
      BY <2>2, <2>7, <2>8, <2>9
  <1> QED
    BY <1>2, <1>3

---------------------------------------------------------------------------
(* Steps.                                                                  *)

Frame(r) == UNCHANGED <<thin, child[r], phase[r], rx[r], chan[r], out[r], turn[r], block[r],
                        prev[r], snap[r]>>

LEMMA FrameKept == ASSUME NEW r \in Slot, SlotInv(r), Frame(r) PROVE SlotInv(r)'
  <1>1. Known(r)'
    BY DEF SlotInv, Known, Frame
  <1> QED
    BY <1>1, SlotKept DEF Frame

\* A step of one connection leaves the others as they are.
LEMMA OthersKept ==
  ASSUME LinkTypes, NEW s \in Slot, NEW r \in Slot, r # s,
         \/ Attempt(s) \/ Banner(s) \/ Emit(s) \/ EmitBare(s) \/ Exit(s)
         \/ Read(s) \/ PollRemote(s) \/ Esc(s) \/ Replaced(s) \/ Enter(s)
         \/ EnterHost(s) \/ HostPoll(s)
  PROVE  Frame(r)
  <1> USE DEF Frame, LinkTypes, startVars, childVars, readerVars, viewVars, remoteVars
  <1>1. CASE Refused(s) \/ Unreachable(s)
    BY <1>1 DEF Refused, Unreachable, GiveUp
  <1>2. CASE Connect(s)
    BY <1>2 DEF Connect, ConnectDirect, ConnectThin, ConnectKubeDaemon, ConnectKubeThin,
                ConnectNomadDaemon, ConnectNomadThin, Spawn
  <1>3. CASE Settled(s)
    BY <1>3 DEF Settled, GiveUp
  <1>4. CASE Banner(s) \/ EmitBare(s) \/ Exit(s)
    BY <1>4 DEF Banner, EmitBare, Exit, Put
  <1>5. CASE Emit(s)
    BY <1>5 DEF Emit, Put
  <1>6. CASE ReadLine(s)
    BY <1>6 DEF ReadLine, Send
  <1>7. CASE ReadEnd(s)
    BY <1>7 DEF ReadEnd
  <1>8. CASE PollRemote(s)
    BY <1>8 DEF PollRemote, Close
  <1>9. CASE Esc(s) \/ Replaced(s) \/ Enter(s)
    BY <1>9 DEF Esc, Close, Replaced, Enter
  <1>10. CASE EnterHost(s) \/ HostPoll(s)
    BY <1>10 DEF EnterHost, HostPoll
  <1> QED
    BY <1>1, <1>2, <1>3, <1>4, <1>5, <1>6, <1>7, <1>8, <1>9, <1>10 DEF Attempt, Read

\* What a step of connection s makes of s.
LEMMA SlotStep ==
  ASSUME LinkTypes, NEW s \in Slot, SlotInv(s),
         \/ Attempt(s) \/ Banner(s) \/ Emit(s) \/ EmitBare(s) \/ Exit(s)
         \/ Read(s) \/ PollRemote(s) \/ Esc(s) \/ Replaced(s) \/ Enter(s)
         \/ EnterHost(s) \/ HostPoll(s)
  PROVE  SlotInv(s)'
  <1> USE DEF startVars, childVars, readerVars, viewVars, remoteVars
  <1>1. ASSUME GiveUp(s), child' = child, child[s] # "running" PROVE SlotInv(s)'
    <2>1. ~rx'[s] /\ chan'[s] = <<>> /\ Known(s)'
      BY <1>1 DEF GiveUp, Known, LinkTypes
    <2> QED
      BY <2>1, SlotLetGo
  <1>2. CASE Refused(s) \/ Unreachable(s)
    <2>1. GiveUp(s) /\ child' = child /\ phase[s] = "trying"
      BY <1>2 DEF Refused, Unreachable
    <2> QED
      BY <1>1, <2>1 DEF SlotInv
  <1>3. CASE Connect(s)
    <2>1. Spawn(s)
      BY <1>3 DEF Connect, ConnectDirect, ConnectThin, ConnectKubeDaemon, ConnectKubeThin,
                  ConnectNomadDaemon, ConnectNomadThin
    <2>2. /\ Known(s)' /\ rx'[s] /\ chan'[s] = <<>> /\ out'[s] = <<>> /\ turn'[s] = 0
          /\ block'[s] = 0 /\ prev'[s] = 0 /\ snap'[s] = 0
      BY <2>1 DEF Spawn, Known, LinkTypes
    <2>3. Len(chan'[s]) = 0 /\ Len(out'[s]) = 0
      BY <2>2, EmptySeq
    <2>4. Sent(s)' = 0 /\ LastRead(s)' = 0
      BY <2>2 DEF Sent, LastRead
    <2>5. PipeInOrder(s)'
      BY <2>2, <2>3, <2>4 DEF PipeInOrder, InOrder, OneKind
    <2> QED
      BY <2>2, <2>3, <2>5 DEF SlotInv, Known, Abut
  <1>4. CASE Settled(s)
    <2>1. CASE child[s] = "running"
      <3>1. /\ Known(s)'
            /\ UNCHANGED <<thin, rx[s], chan[s], out[s], turn[s], block[s], prev[s], snap[s]>>
        BY <1>4, <2>1 DEF Settled, Known, LinkTypes
      <3> QED
        BY <3>1, SlotKept
    <2>2. CASE child[s] # "running"
      BY <1>1, <1>4, <2>2 DEF Settled
    <2> QED
      BY <2>1, <2>2
  <1>5. CASE Exit(s) /\ UNCHANGED out
    <2>1. /\ Known(s)'
          /\ UNCHANGED <<thin, rx[s], chan[s], out[s], turn[s], block[s], prev[s], snap[s]>>
      BY <1>5 DEF Exit, Known, LinkTypes
    <2> QED
      BY <2>1, SlotKept
  <1>6. CASE \/ Banner(s) \/ EmitBare(s) \/ (Exit(s) /\ out' # out)
    <2>1. PICK line \in {Noise, Separator} : out' = [out EXCEPT ![s] = Append(@, line)]
      BY <1>6 DEF Banner, EmitBare, Exit, Put
    <2>2. line \in Line /\ ~Numbered(line)
      BY LineType
    <2>3. child' = child \/ child' = [child EXCEPT ![s] = "exited"]
      BY <1>6 DEF Banner, EmitBare, Exit
    <2>4. UNCHANGED <<thin, phase, rx, chan, turn, block, prev, snap>>
      BY <1>6 DEF Banner, EmitBare, Exit
    <2>5. Known(s)' /\ out'[s] = Append(out[s], line)
      BY <2>1, <2>3, <2>4 DEF SlotInv, Known, LinkTypes
    <2> QED
      BY <2>2, <2>4, <2>5, SlotNoise
  <1>7. CASE Emit(s)
    <2>1. CASE reader[s] = "done"
      <3>1. /\ Known(s)'
            /\ UNCHANGED <<thin, rx[s], chan[s], out[s], turn[s], block[s], prev[s], snap[s]>>
        BY <1>7, <2>1 DEF Emit, Known, LinkTypes
      <3> QED
        BY <3>1, SlotKept
    <2>2. CASE reader[s] # "done"
      <3> DEFINE n == IF rx[s] \/ turn[s] = 0 THEN turn[s] + 1 ELSE turn[s]
      <3>1. /\ turn' = [turn EXCEPT ![s] = n]
            /\ IF thin
               THEN out' = [out EXCEPT ![s] = Append(Append(@, [kind |-> "stat", n |-> n]), Separator)]
               ELSE out' = [out EXCEPT ![s] = Append(@, [kind |-> "snapshot", n |-> n])]
            /\ UNCHANGED <<child, thin, phase, rx, chan, block, prev, snap>>
        BY <1>7, <2>2 DEF Emit, Put
      <3>2. n \in Nat /\ (rx[s] => n = turn[s] + 1) /\ turn'[s] = n
        BY <3>1 DEF LinkTypes
      <3> HIDE DEF n
      <3>3. out'[s] = IF thin THEN Append(Append(out[s], [kind |-> "stat", n |-> n]), Separator)
                      ELSE Append(out[s], [kind |-> "snapshot", n |-> n])
        BY <3>1 DEF LinkTypes
      <3>4. Known(s)'
        BY <3>1 DEF SlotInv, Known
      <3> QED
        BY <3>1, <3>2, <3>3, <3>4, SlotPrinted
    <2> QED
      BY <2>1, <2>2
  <1>8. CASE ReadLine(s)
    BY <1>8, SlotRead
  <1>9. CASE ReadEnd(s)
    <2>1. Frame(s)
      BY <1>9 DEF ReadEnd, Frame
    <2> QED
      BY <2>1, FrameKept
  <1>10. CASE PollRemote(s) /\ child[s] # "exited"
    <2>1. /\ snap'[s] = Newest(s) /\ chan'[s] = <<>>
          /\ UNCHANGED <<thin, child, phase, rx[s], out[s], turn[s], block[s], prev[s]>>
      BY <1>10 DEF PollRemote, LinkTypes
    <2>2. Known(s)'
      BY <2>1 DEF SlotInv, Known
    <2> QED
      BY <2>1, <2>2, SlotLooked
  <1>11. CASE (PollRemote(s) /\ child[s] = "exited") \/ Esc(s) \/ Replaced(s)
    <2>1. ~rx'[s] /\ chan'[s] = <<>>
      BY <1>11 DEF PollRemote, Esc, Close, Replaced, LinkTypes
    <2>2. child'[s] # "running" \/ phase'[s] = "dropped"
      BY <1>11 DEF PollRemote, Esc, Close, Replaced, LinkTypes
    <2> QED
      BY <2>1, <2>2, SlotLetGo DEF Known
  <1>12. CASE Enter(s)
    <2>1. /\ Known(s)'
          /\ UNCHANGED <<thin, rx[s], chan[s], out[s], turn[s], block[s], prev[s], snap[s]>>
      BY <1>12 DEF Enter, Known, LinkTypes
    <2> QED
      BY <2>1, SlotKept
  <1>13. CASE EnterHost(s) \/ (HostPoll(s) /\ child[s] = "exited")
    <2>1. Frame(s)
      BY <1>13 DEF EnterHost, HostPoll, Frame
    <2> QED
      BY <2>1, FrameKept
  <1>14. CASE HostPoll(s) /\ child[s] # "exited"
    <2>1. /\ snap'[s] = Newest(s) /\ chan'[s] = <<>>
          /\ UNCHANGED <<thin, child, phase, rx[s], out[s], turn[s], block[s], prev[s]>>
      BY <1>14 DEF HostPoll, LinkTypes
    <2>2. Known(s)'
      BY <2>1 DEF SlotInv, Known
    <2> QED
      BY <2>1, <2>2, SlotLooked
  <1> QED
    BY <1>2, <1>3, <1>4, <1>5, <1>6, <1>7, <1>8, <1>9, <1>10, <1>11, <1>12, <1>13, <1>14
    DEF Attempt, Read

LEMMA SlotsNext ==
  ASSUME LinkTypes, \A s \in Slot : SlotInv(s), [Next]_vars
  PROVE  \A s \in Slot : SlotInv(s)'
  <1> USE DEF startVars, childVars, readerVars, viewVars, remoteVars
  <1>1. ASSUME NEW s \in Slot,
               \/ Attempt(s) \/ Banner(s) \/ Emit(s) \/ EmitBare(s) \/ Exit(s)
               \/ Read(s) \/ PollRemote(s) \/ Esc(s) \/ Replaced(s) \/ Enter(s)
               \/ EnterHost(s) \/ HostPoll(s)
        PROVE  \A r \in Slot : SlotInv(r)'
    <2> TAKE r \in Slot
    <2>1. CASE r = s
      BY <1>1, <2>1, SlotStep
    <2>2. CASE r # s
      <3>1. Frame(r)
        BY <1>1, <2>2, OthersKept
      <3> QED
        BY <3>1, FrameKept
    <2> QED
      BY <2>1, <2>2
  <1>2. CASE Collect \/ PauseKey \/ OpenClient \/ Leave \/ UNCHANGED vars
    <2>1. \A r \in Slot : Frame(r)
      BY <1>2 DEF Collect, PauseKey, OpenClient, Leave, vars, Frame
    <2> QED
      BY <2>1, FrameKept
  <1>3. CASE Poll
    <2> TAKE r \in Slot
    <2>1. UNCHANGED <<thin, child, phase, rx, out, turn, block, prev>>
      BY <1>3 DEF Poll
    <2>2. Known(r)'
      BY <2>1 DEF SlotInv, Known
    <2>3. CASE phase[r] = "ok"
      <3>1. snap'[r] = Newest(r) /\ chan'[r] = <<>>
        BY <1>3, <2>3 DEF Poll
      <3> QED
        BY <2>1, <2>2, <3>1, SlotLooked
    <2>4. CASE phase[r] # "ok"
      <3>1. snap'[r] = snap[r] /\ chan'[r] = chan[r]
        BY <1>3, <2>4 DEF Poll
      <3> QED
        BY <2>1, <2>2, <3>1, SlotKept
    <2> QED
      BY <2>3, <2>4
  <1> QED
    BY <1>1, <1>2, <1>3 DEF Next, FleetConns, KubeConns, NomadConns, FleetPoll, KubePoll, NomadPoll

\* The thread of s has its answer; it had none before.
LEMMA Answered ==
  ASSUME LinkTypes, ListInv, NEW s \in Slot, source # "vm", phase[s] \in {"trying", "probation"},
         NEW p \in {"ok", "failed"}, phase' = [phase EXCEPT ![s] = p], results' = Append(results, s),
         UNCHANGED <<source, target, started, conns>>
  PROVE  ListInv'
  <1>1. /\ Len(results') = Len(results) + 1 /\ results'[Len(results) + 1] = s
        /\ Len(results) \in Nat
        /\ \A i \in 1..Len(results) : results'[i] = results[i] /\ results[i] \in Slot
    BY AppendProperties, LenProperties, ElementOfSeq DEF LinkTypes
  <1>2. \A i \in 1..Len(results) : results[i] # s
    BY DEF ListInv
  <1>3. Injective(results)'
    BY <1>2, InjectiveAppend DEF ListInv, LinkTypes, Injective
  <1>4. \A r \in Slot : phase'[r] = IF r = s THEN p ELSE phase[r]
    BY DEF LinkTypes
  <1>5. \A i \in 1..Len(results') : phase'[results'[i]] \in {"ok", "failed"}
    <2> TAKE i \in 1..Len(results')
    <2>1. CASE i = Len(results) + 1
      BY <1>1, <1>4, <2>1
    <2>2. CASE i \in 1..Len(results)
      BY <1>1, <1>4, <2>2 DEF ListInv
    <2> QED
      BY <1>1, <2>1, <2>2
  <1> QED
    BY <1>3, <1>4, <1>5 DEF ListInv, Injective, Targets

\* An address did not do, or a child was started: nothing is answered yet.
LEMMA Unanswered ==
  ASSUME LinkTypes, ListInv, NEW s \in Slot, phase[s] \in {"trying", "probation"},
         NEW p \in {"trying", "probation"}, phase' = [phase EXCEPT ![s] = p],
         UNCHANGED <<source, target, results, started, conns>>
  PROVE  ListInv'
  <1>1. \A r \in Slot : phase'[r] = IF r = s THEN p ELSE phase[r]
    BY DEF LinkTypes
  <1>2. ASSUME source # "vm", NEW i \in 1..Len(results)
        PROVE  phase'[results[i]] \in {"ok", "failed"}
    <2>1. results[i] \in Slot /\ phase[results[i]] \in {"ok", "failed"}
      BY <1>2, ElementOfSeq DEF LinkTypes, ListInv
    <2> QED
      BY <1>1, <2>1
  <1> QED
    BY <1>1, <1>2 DEF ListInv, Injective, Targets

LEMMA GiveUpLists ==
  ASSUME LinkTypes, ListInv, NEW s \in Slot, phase[s] \in {"trying", "probation"}, GiveUp(s),
         UNCHANGED <<source, target, started, conns>>
  PROVE  ListInv'
  <1>1. CASE Tail(todo[s]) # <<>>
    BY <1>1, Unanswered DEF GiveUp
  <1>2. CASE Tail(todo[s]) = <<>> /\ source # "vm"
    BY <1>2, Answered DEF GiveUp, Answer
  <1>3. CASE source = "vm"
    BY <1>3 DEF GiveUp, Answer, ListInv, Injective, Targets
  <1> QED
    BY <1>1, <1>2, <1>3

LEMMA ListsNext == ASSUME LinkTypes, ListInv, [Next]_vars PROVE ListInv'
  <1> USE DEF startVars, childVars, readerVars, viewVars, remoteVars
  <1>1. ASSUME NEW s \in Slot, Refused(s) \/ Unreachable(s) PROVE ListInv'
    BY <1>1, GiveUpLists DEF Refused, Unreachable
  <1>2. ASSUME NEW s \in Slot, Spawn(s) PROVE ListInv'
    BY <1>2, Unanswered DEF Spawn
  <1>3. ASSUME NEW s \in Slot, Settled(s) PROVE ListInv'
    <2>1. CASE child[s] # "running"
      BY <1>3, <2>1, GiveUpLists DEF Settled
    <2>2. CASE child[s] = "running" /\ source # "vm"
      BY <1>3, <2>2, Answered DEF Settled, Answer
    <2>3. CASE child[s] = "running" /\ source = "vm"
      BY <1>3, <2>3 DEF Settled, Answer, ListInv, Injective, Targets
    <2> QED
      BY <2>1, <2>2, <2>3
  <1>4. ASSUME NEW s \in Slot,
               \/ Banner(s) \/ Emit(s) \/ EmitBare(s) \/ Exit(s) \/ ReadLine(s) \/ ReadEnd(s)
        PROVE  ListInv'
    <2>1. UNCHANGED <<source, target, phase, results, started, conns>>
      BY <1>4 DEF Banner, Emit, EmitBare, Exit, ReadLine, ReadEnd
    <2> QED
      BY <2>1 DEF ListInv, Injective, Targets
  <1>5. ASSUME NEW s \in Slot, PollRemote(s) \/ Esc(s) \/ Replaced(s) \/ Enter(s)
        PROVE  ListInv'
    <2>1. source = "vm" /\ UNCHANGED <<source, target, results, started, conns>>
      BY <1>5 DEF PollRemote, Esc, Replaced, Enter
    <2> QED
      BY <2>1 DEF ListInv, Injective, Targets
  <1>6. ASSUME Collect PROVE ListInv'
    <2>1. /\ source # "vm" /\ conns' = results /\ Targets \subseteq ToSet(results)
          /\ UNCHANGED <<source, target, phase, results>>
      BY <1>6 DEF Collect
    <2>2. \A s \in Targets : \E i \in 1..Len(results) : results[i] = s
      BY <2>1, LenProperties DEF ToSet, LinkTypes
    <2> QED
      BY <2>1, <2>2 DEF ListInv, Injective, Targets
  <1>7. CASE \/ Poll \/ PauseKey \/ OpenClient \/ Leave \/ UNCHANGED vars
             \/ \E s \in Slot : EnterHost(s) \/ HostPoll(s)
    <2>1. UNCHANGED <<source, target, phase, results, started, conns>>
      BY <1>7 DEF Poll, PauseKey, OpenClient, Leave, EnterHost, HostPoll, vars
    <2> QED
      BY <2>1 DEF ListInv, Injective, Targets
  <1> QED
    BY <1>1, <1>2, <1>3, <1>4, <1>5, <1>6, <1>7
    DEF Next, Attempt, Connect, ConnectDirect, ConnectThin, ConnectKubeDaemon, ConnectKubeThin,
        ConnectNomadDaemon, ConnectNomadThin, Read, FleetConns, KubeConns, NomadConns,
        FleetPoll, KubePoll, NomadPoll

---------------------------------------------------------------------------
(* Theorems.                                                               *)

LEMMA InvInit == Init => LinkInv
  <1> SUFFICES ASSUME Init PROVE LinkInv
    OBVIOUS
  <1>1. Len(<<>>) = 0
    OBVIOUS
  <1>2. \A s \in Slot : SlotInv(s)
    BY <1>1 DEF Init, SlotInv, Abut
  <1>3. ListInv
    BY <1>1 DEF Init, ListInv, Injective
  <1> QED
    BY <1>2, <1>3, InitTypes DEF LinkInv

LEMMA InvNext == LinkInv /\ [Next]_vars => LinkInv'
  <1> SUFFICES ASSUME LinkInv, [Next]_vars PROVE LinkInv'
    OBVIOUS
  <1>1. LinkTypes'
    BY TypesNext DEF LinkInv
  <1>2. ListInv'
    BY ListsNext DEF LinkInv
  <1>3. \A s \in Slot : SlotInv(s)'
    BY SlotsNext DEF LinkInv
  <1> QED
    BY <1>1, <1>2, <1>3 DEF LinkInv

LEMMA Invariant == Spec => []LinkInv
  BY InvInit, InvNext, PTL DEF Spec

\* Every state of the connections is well typed, but for the two lists of
\* addresses.
THEOREM TypeCorrect == Spec => []LinkTypes
  <1>1. LinkInv => LinkTypes
    BY DEF LinkInv
  <1> QED
    BY <1>1, Invariant, PTL

\* Every target has its line in the list, once, as soon as the program runs,
\* and no child runs that the program does not know of.
THEOREM TargetsKept == Spec => []NothingForgotten
  <1>1. LinkInv => NothingForgotten
    <2> SUFFICES ASSUME LinkInv PROVE NothingForgotten
      OBVIOUS
    <2>1. \A s \in Slot : child[s] = "running" => phase[s] \in {"probation", "ok", "dropped"}
      BY DEF LinkInv, SlotInv
    <2>2. DOMAIN conns = 1..Len(conns)
      BY LenProperties DEF LinkInv, LinkTypes
    <2>3. ASSUME started, NEW s \in Targets
          PROVE  \E i \in DOMAIN conns : /\ conns[i] = s
                                         /\ \A j \in DOMAIN conns : conns[j] = s => j = i
      BY <2>2, <2>3 DEF LinkInv, ListInv, Injective
    <2> QED
      BY <2>1, <2>3 DEF NothingForgotten
  <1> QED
    BY <1>1, Invariant, PTL

\* The CPU percentages of a thin probe cover the time without gap or
\* overlap, whatever blocks came without counters.
THEOREM ThinIntervals == Spec => []IntervalsAbut
  <1>1. LinkInv => IntervalsAbut
    <2> SUFFICES ASSUME LinkInv PROVE IntervalsAbut
      OBVIOUS
    <2>1. \A s \in Slot : DOMAIN chan[s] = 1..Len(chan[s])
      BY LenProperties DEF LinkInv, LinkTypes
    <2> QED
      BY <2>1 DEF LinkInv, SlotInv, Abut, IntervalsAbut
  <1> QED
    BY <1>1, Invariant, PTL

---------------------------------------------------------------------------
(* The register of the latest value.                                       *)

\* What has come in, by connection: the refinement mapping of LV.
SentAll == [s \in Slot |-> Sent(s)]

LEMMA LatestInit == Init => LV!Init
  BY DEF Init, LV!Init

\* A step of the register in terms of what it does to each connection.
LEMMA LatestSend ==
  ASSUME LinkTypes, NEW s \in Slot, UNCHANGED <<turn, snap>>,
         \A r \in Slot : r # s => Sent(r)' = Sent(r),
         Sent(s)' \in (Sent(s) + 1)..turn[s]
  PROVE  LV!Send(s)
  <1>1. SentAll' = [SentAll EXCEPT ![s] = Sent(s)']
    BY DEF SentAll
  <1>2. Sent(s)' \in (SentAll[s] + 1)..turn[s]
    BY DEF SentAll
  <1> QED
    BY <1>1, <1>2 DEF LV!Send, SentAll, Sent

LEMMA LatestDiscard ==
  ASSUME LinkTypes, NEW s \in Slot, UNCHANGED <<turn, snap>>, chan' = [chan EXCEPT ![s] = <<>>]
  PROVE  LV!Discard(s)
  <1>1. \A r \in Slot : Sent(r)' = IF r = s THEN snap[s] ELSE Sent(r)
    BY DEF Sent, LinkTypes
  <1>2. SentAll' = [SentAll EXCEPT ![s] = snap[s]]
    BY <1>1 DEF SentAll
  <1> QED
    BY <1>2 DEF LV!Discard, SentAll, Sent

\* A look at the connections of L.
LEMMA LatestShow ==
  ASSUME LinkTypes, NEW L \in SUBSET Slot, UNCHANGED turn,
         snap' = [s \in Slot |-> IF s \in L THEN Newest(s) ELSE snap[s]],
         chan' = [s \in Slot |-> IF s \in L THEN <<>> ELSE chan[s]]
  PROVE  LV!Show(L)
  <1>1. \A s \in Slot : Sent(s)' = Sent(s)
    BY SentType DEF Sent
  <1>2. SentAll' = SentAll
    BY <1>1 DEF SentAll
  <1>3. snap' = [s \in Slot |-> IF s \in L THEN SentAll[s] ELSE snap[s]]
    BY SentType DEF SentAll
  <1> QED
    BY <1>2, <1>3 DEF LV!Show, SentAll, Sent

LEMMA LatestNext ==
  ASSUME LinkInv, [Next]_vars
  PROVE  LV!Next \/ UNCHANGED <<turn, SentAll, snap>>
  <1> USE DEF startVars, childVars, readerVars, viewVars, remoteVars
  <1>0. LinkTypes
    BY DEF LinkInv
  <1>1. ASSUME UNCHANGED <<turn, chan, snap>> PROVE UNCHANGED <<turn, SentAll, snap>>
    BY <1>1 DEF SentAll, Sent
  <1>2. ASSUME NEW s \in Slot, Refused(s) \/ Unreachable(s) PROVE LV!Next
    <2>1. LV!Discard(s)
      BY <1>0, <1>2, LatestDiscard DEF Refused, Unreachable, GiveUp
    <2> QED
      BY <2>1 DEF LV!Next
  <1>3. ASSUME NEW s \in Slot, Spawn(s) PROVE LV!Next
    <2>1. \A r \in Slot : Sent(r)' = IF r = s THEN 0 ELSE Sent(r)
      BY <1>0, <1>3 DEF Spawn, Sent, LinkTypes
    <2>2. SentAll' = [SentAll EXCEPT ![s] = 0]
      BY <2>1 DEF SentAll
    <2>3. LV!Reopen(s)
      BY <1>3, <2>2 DEF LV!Reopen, Spawn, SentAll, Sent
    <2> QED
      BY <2>3 DEF LV!Next
  <1>4. ASSUME NEW s \in Slot, Settled(s) PROVE LV!Next \/ UNCHANGED <<turn, chan, snap>>
    <2>1. CASE child[s] = "running"
      BY <1>4, <2>1 DEF Settled
    <2>2. CASE child[s] # "running"
      <3>1. LV!Discard(s)
        BY <1>0, <1>4, <2>2, LatestDiscard DEF Settled, GiveUp
      <3> QED
        BY <3>1 DEF LV!Next
    <2> QED
      BY <2>1, <2>2
  <1>5. ASSUME NEW s \in Slot, Banner(s) \/ EmitBare(s) \/ Exit(s) \/ ReadEnd(s) \/ Enter(s)
        PROVE  UNCHANGED <<turn, chan, snap>>
    BY <1>5 DEF Banner, EmitBare, Exit, ReadEnd, Enter
  <1>6. ASSUME NEW s \in Slot, Emit(s) PROVE LV!Next \/ UNCHANGED <<turn, chan, snap>>
    <2>1. UNCHANGED <<chan, snap>>
      BY <1>6 DEF Emit
    <2>2. turn' = turn \/ turn' = [turn EXCEPT ![s] = turn[s] + 1]
      BY <1>0, <1>6 DEF Emit, LinkTypes
    <2>3. CASE turn' = [turn EXCEPT ![s] = turn[s] + 1]
      <3>1. LV!Make(s)
        BY <2>1, <2>3 DEF LV!Make
      <3> QED
        BY <3>1 DEF LV!Next
    <2> QED
      BY <2>1, <2>2, <2>3
  <1>7. ASSUME NEW s \in Slot, ReadLine(s)
        PROVE  LV!Next \/ UNCHANGED <<turn, SentAll, snap>>
    <2>1. UNCHANGED <<turn, snap>>
      BY <1>7 DEF ReadLine
    <2>2. \A r \in Slot : r # s => Sent(r)' = Sent(r)
      <3> TAKE r \in Slot
      <3>1. r # s => Frame(r)
        BY <1>0, <1>7, OthersKept DEF Read
      <3> QED
        BY <3>1 DEF Frame, Sent
    <2>3. \/ chan' = chan \/ Sent(s)' = Sent(s) \/ Sent(s)' \in (Sent(s) + 1)..turn[s]
      BY <1>0, <1>7, SlotRead DEF LinkInv
    <2>4. CASE Sent(s)' \in (Sent(s) + 1)..turn[s]
      <3>1. LV!Send(s)
        BY <1>0, <2>1, <2>2, <2>4, LatestSend
      <3> QED
        BY <3>1 DEF LV!Next
    <2>5. CASE Sent(s)' = Sent(s)
      BY <2>1, <2>2, <2>5 DEF SentAll
    <2> QED
      BY <1>1, <2>1, <2>3, <2>4, <2>5
  <1>8. ASSUME NEW s \in Slot, PollRemote(s) /\ child[s] # "exited" PROVE LV!Next
    <2>1. LV!Show({s})
      <3>1. /\ snap' = [r \in Slot |-> IF r \in {s} THEN Newest(r) ELSE snap[r]]
            /\ chan' = [r \in Slot |-> IF r \in {s} THEN <<>> ELSE chan[r]]
            /\ UNCHANGED turn
        BY <1>0, <1>8 DEF PollRemote, LinkTypes
      <3> QED
        BY <1>0, <3>1, LatestShow
    <2> QED
      BY <2>1 DEF LV!Next
  <1>9. ASSUME NEW s \in Slot,
               (PollRemote(s) /\ child[s] = "exited") \/ Esc(s) \/ Replaced(s)
        PROVE  LV!Next
    <2>1. LV!Discard(s)
      BY <1>0, <1>9, LatestDiscard DEF PollRemote, Esc, Close, Replaced
    <2> QED
      BY <2>1 DEF LV!Next
  <1>10. ASSUME \/ Collect \/ PauseKey \/ OpenClient \/ Leave \/ UNCHANGED vars
                \/ \E s \in Slot : EnterHost(s) \/ (HostPoll(s) /\ child[s] = "exited")
         PROVE  UNCHANGED <<turn, chan, snap>>
    BY <1>10 DEF Collect, PauseKey, OpenClient, Leave, EnterHost, HostPoll, vars
  <1>12. ASSUME NEW s \in Slot, HostPoll(s) /\ child[s] # "exited" PROVE LV!Next
    <2>1. LV!Show({s})
      <3>1. /\ snap' = [r \in Slot |-> IF r \in {s} THEN Newest(r) ELSE snap[r]]
            /\ chan' = [r \in Slot |-> IF r \in {s} THEN <<>> ELSE chan[r]]
            /\ UNCHANGED turn
        BY <1>0, <1>12 DEF HostPoll, LinkTypes
      <3> QED
        BY <1>0, <3>1, LatestShow
    <2> QED
      BY <2>1 DEF LV!Next
  <1>11. ASSUME Poll PROVE LV!Next
    <2> DEFINE L == {s \in Slot : phase[s] = "ok"}
    <2>1. /\ snap' = [s \in Slot |-> IF s \in L THEN Newest(s) ELSE snap[s]]
          /\ chan' = [s \in Slot |-> IF s \in L THEN <<>> ELSE chan[s]]
          /\ UNCHANGED turn
      BY <1>11 DEF Poll
    <2>2. LV!Show(L)
      <3> HIDE DEF L
      <3>1. L \in SUBSET Slot
        BY DEF L
      <3> QED
        BY <1>0, <2>1, <3>1, LatestShow
    <2> QED
      BY <2>2 DEF LV!Next
  <1> QED
    BY <1>1, <1>2, <1>3, <1>4, <1>5, <1>6, <1>7, <1>8, <1>9, <1>10, <1>11, <1>12
    DEF Next, Attempt, Connect, ConnectDirect, ConnectThin, ConnectKubeDaemon, ConnectKubeThin,
        ConnectNomadDaemon, ConnectNomadThin, Read, FleetConns, KubeConns, NomadConns,
        FleetPoll, KubePoll, NomadPoll

\* The display of every connection is a register of the latest value:
\* it never goes back to an older snapshot, and a look takes the newest.
THEOREM LinksRefineLatest == Spec => ShowsLatest
  <1>1. LinkInv /\ [Next]_vars => [LV!Next]_<<turn, SentAll, snap>>
    BY LatestNext
  <1>2. LinkInv /\ [Next]_vars
          => [LV!Next]_<<turn, [s \in Slot |-> IF chan[s] = <<>> THEN snap[s]
                                               ELSE chan[s][Len(chan[s])].n], snap>>
    BY <1>1 DEF SentAll, Sent
  <1> QED
    BY <1>2, LatestInit, Invariant, PTL DEF Spec, ShowsLatest, LV!Spec
=============================================================================
