---------------------------- MODULE BorderLayout ----------------------------
(* Where the parts of the outer border go in a frame: the legend in the top    *)
(* edge, status, keys and stutter readout in the bottom edge, flowing around   *)
(* the cells of the rim that mark stalls, which are drawn after them.  Texts   *)
(* are their lengths; drawing clips at the border.  Left out: the selector of   *)
(* a GPU, which takes the bottom edge whole.                                  *)
EXTENDS Option, StableOrder, Integers, SequencesExt, FiniteSetsExt

CONSTANTS
  Width, Height,   \* of the screen
  Markers,         \* sets of cells of the rim there may be stalls at
  Lengths          \* texts: [status, keys, readout, legend], 0 and <<>> if there is none

\* The rim, clockwise from the upper left corner.
Cells == 2 * (Width + Height) - 4
Cell == 0..(Cells - 1)
Right == Width - 1
XY(i) == CASE i < Width -> <<i, 0>>
           [] i \in Width..(Width + Height - 2) -> <<Right, i - Right>>
           [] i \in (Width + Height - 1)..(2 * Width + Height - 3) ->
                <<2 * Width + Height - 3 - i, Height - 1>>
           [] OTHER -> <<0, Cells - i>>

\* compute_rim: no narrower, no lower.
ASSUME BorderAssumption ==
  /\ Width \in Nat /\ Width >= 2 /\ Height \in Nat /\ Height >= 2
  /\ Markers \subseteq SUBSET Cell
  /\ Lengths \subseteq [status : Nat, keys : Nat, readout : Nat, legend : Seq(Nat)]

VARIABLES lit, text, header, footer, marked

borderVars == <<lit, text, header, footer, marked>>

---------------------------------------------------------------------------
(* The segments that mark stalls.                                           *)

\* n cells on from i.
On(i, n) == IF i + n < Cells THEN i + n ELSE i + n - Cells

\* Runs of lit cells in the order of the rim, from the first that is not lit;
\* none if all are.
Segments ==
  LET first == Min(Cell \ lit)
      starts == {n \in 1..(Cells - 1) : On(first, n) \in lit /\ On(first, n - 1) \notin lit}
      After(n) == Min({m \in n..Cells : On(first, m) \notin lit})
      Seg(n) == [cells |-> {On(first, m) : m \in n..(After(n) - 1)},
                 ends |-> {On(first, n - 1), On(first, After(n))}]
      order == Only([n \in 1..(Cells - 1) |-> n], starts)
  IN IF lit = Cell THEN <<>> ELSE [k \in DOMAIN order |-> Seg(order[k])]

\* The columns each takes of an edge, with its ends.
EdgeReserved(y) ==
  LET columns(seg) == {XY(i)[1] : i \in {i \in seg.cells \cup seg.ends : XY(i)[2] = y}}
      there == Only(Segments, {seg \in ToSet(Segments) : columns(seg) # {}})
  IN [k \in DOMAIN there |-> [from |-> Min(columns(there[k])), to |-> Max(columns(there[k]))]]

\* The first column from x on in no reserved interval.
SkipReserved(x, reserved) ==
  LET taken == UNION {reserved[k].from..reserved[k].to : k \in DOMAIN reserved}
  IN Min((x..(x + Width)) \ taken)

---------------------------------------------------------------------------
(* The texts, as the columns they take.                                     *)

\* Between bookends, which with the blanks inside them take four columns.
FullWidth(n) == n + 4
Part(x, n) == [from |-> x, to |-> x + n - 1, text |-> (x + 2)..(x + n - 3)]
Bare(x, n) == [from |-> x, to |-> x + n - 1, text |-> x..(x + n - 1)]

\* The pieces of the legend and what is drawn between them, without padding.
TopBorder ==
  LET reserved == EdgeReserved(0)
      Place(parts, n) ==
        LET x == IF parts = <<>> THEN 4 ELSE Last(parts).to + 5
        IN Append(parts, Bare(SkipReserved(x, reserved), n))
  IN FoldLeft(Place, <<>>, text.legend)

\* To the left of an interval if it is in the way.
Clear(x, n, r) == IF x <= r.to /\ x + n >= r.from THEN Max({0, r.from - n - 1}) ELSE x

\* Fault: the intervals are looked at from the left.
RightAlignedFromLeft(n, reserved) ==
  FoldLeft(LAMBDA x, r : Clear(x, n, r), Max({0, Right - n - 2}), Reverse(reserved))

\* From the right end to the left of each interval, in their order.
RightAligned(n, reserved) ==
  LET x[k \in 0..Len(reserved)] ==
        IF k = 0 THEN Max({0, Right - n - 2}) ELSE Clear(x[k - 1], n, reserved[k])
  IN  x[Len(reserved)]

\* Keys that do not clear the status are left out, then a readout that does
\* not clear the keys.
BottomBorder ==
  LET reserved == EdgeReserved(Height - 1)
      status == Part(SkipReserved(2, reserved), FullWidth(text.status))
      end == status.to + 1
      kx == RightAligned(FullWidth(text.keys), reserved)
      keys == IF kx > end + 1 THEN <<Part(kx, FullWidth(text.keys))>> ELSE <<>>
      bound == IF keys # <<>> THEN kx ELSE Right - 2
      sx == SkipReserved(end + 2, reserved)
      readout == IF text.readout > 0 /\ sx + FullWidth(text.readout) + 1 < bound
                 THEN <<Part(sx, FullWidth(text.readout))>> ELSE <<>>
  IN [status |-> status, keys |-> keys, readout |-> readout]

\* The cells that keep what was written into them.
Texts == {i \in Cell : \/ XY(i)[2] = 0 /\ \E k \in DOMAIN header' : XY(i)[1] \in header'[k].text
                       \/ /\ XY(i)[2] = Height - 1
                          /\ \E p \in {footer'.status} \cup ToSet(footer'.keys) \cup ToSet(footer'.readout) :
                               XY(i)[1] \in p.text}

\* Stalls are marked in the cells that hold no text.
StutterSegments == (UNION {s.cells \cup s.ends : s \in ToSet(Segments)}) \ Texts

---------------------------------------------------------------------------
BorderInit ==
  /\ lit \in Markers
  /\ text \in Lengths
  /\ header = <<>> /\ footer = None /\ marked = {}

Draw ==
  /\ footer = None
  /\ header' = TopBorder
  /\ footer' = BottomBorder
  /\ marked' = StutterSegments
  /\ UNCHANGED <<lit, text>>

BorderNext == Draw

BorderSpec == BorderInit /\ [][BorderNext]_borderVars

---------------------------------------------------------------------------
(* Properties.                                                              *)

Columns(p) == p.from..p.to

\* However the stalls lie, the parts of the bottom edge do not overlap (ui.rs:287,
\* "placed so they never overlap"); keys and readout stay inside it.  Status and
\* readout have their first column in no marker, the keys have none in any,
\* unless the rim is lit from the upper left corner to the lower right one: then
\* the markers are not looked at from the right.  Where a text does run into a
\* marker it is the text that is seen: no marked cell holds one, and a stall goes
\* unmarked in no other cell, unless the whole rim is lit.
BorderLegible ==
  footer # None =>
    LET edge == Height - 1
        markers == UNION {Columns(r) : r \in ToSet(EdgeReserved(edge))}
        others == footer.keys \o footer.readout
        parts == <<footer.status>> \o others
        Written(i) ==
          \/ XY(i)[2] = 0 /\ \E k \in DOMAIN header : XY(i)[1] \in header[k].text
          \/ XY(i)[2] = edge /\ \E k \in DOMAIN parts : XY(i)[1] \in parts[k].text
    IN /\ \A i, j \in DOMAIN parts : i # j => Columns(parts[i]) \cap Columns(parts[j]) = {}
       /\ \A i \in DOMAIN others : Columns(others[i]) \subseteq 1..(Right - 1)
       /\ \A p \in {footer.status} \cup ToSet(footer.readout) : p.from \notin markers
       /\ (\E i \in 0..(Width + Height - 3) : i \notin lit) =>
            \A i \in DOMAIN footer.keys : Columns(footer.keys[i]) \cap markers = {}
       /\ \A i \in marked : ~Written(i)
       /\ lit # Cell => \A i \in lit \ marked : Written(i)
=============================================================================
