-------------------------------- MODULE Rim --------------------------------
(* The knots that mark recurring stalls on the rim of the screen: where they  *)
(* come from in a frame (compute_rim), and how they are held from frame to    *)
(* frame.  A phase of the period is a place on the rim.  Time is counted in   *)
(* half-lives of a knot; an age is what its intensity is the power of a half  *)
(* of, and with Fade half-lives it is below 0.1.                              *)
EXTENDS Option, StableOrder, Integers, FiniteSets, SequencesExt, FiniteSetsExt

CONSTANTS
  Phases,     \* places on the rim
  Match,      \* MATCH: a knot nearer than this is the same knot
  Fade,       \* half-lives after which a knot is dropped
  MaxHeld,    \* knots held
  Frames,     \* frames a fingerprint of the rim's own takes
  Shapes,     \* fingerprints there may be: sets of phases, {} for one with no confidence
  Reports     \* sequences of phases the offender report may give

Phase == 0..(Phases - 1)

ASSUME RimAssumption ==
  /\ Phases \in Nat \ {0} /\ Match \in Nat \ {0}
  /\ Fade \in Nat \ {0} /\ MaxHeld \in Nat \ {0} /\ Frames \in Nat \ {0}
  /\ Shapes \subseteq SUBSET Phase
  /\ Reports \subseteq Seq(Phase)
  /\ None \notin Shapes

VARIABLES
  frames,    \* frames in RimTrail::ring, up to Frames
  shape,     \* RimTrail::shape, or None
  held,      \* RimTrail::held: [phase, age]
  detected   \* half-lives since each phase was detected, up to Fade (history)

rimVars == <<frames, shape, held, detected>>

Apart(p, q) == LET d == IF p < q THEN q - p ELSE p - q
               IN  Min({d, Phases - d})

RimInit ==
  /\ frames = 0 /\ shape = None /\ held = <<>>
  /\ detected = [p \in Phase |-> Fade]

\* The rim folds its own frames only while the probe has no fingerprint, twice
\* a second (a half-life is longer), and from a full ring.  Frames that are a
\* minute old leave the ring.
FrameShapes(probe, dt) ==
  (IF probe = None /\ frames' = Frames THEN Shapes \cup {None} ELSE {shape})
    \cup (IF dt = 0 THEN {shape} ELSE {})

\* A fingerprint that is not trusted also hides the other; then the offenders
\* are marked.
Current(probe, own, reported) ==
  LET fingerprint == IF probe # None THEN probe ELSE own
  IN IF fingerprint \in {None, {}} THEN reported
     ELSE Only([i \in 1..Phases |-> i - 1], fingerprint)

Older(h, dt) == [i \in DOMAIN h |-> [h[i] EXCEPT !.age = @ + dt]]

\* The knots of h that are near a phase.
Near(h, phase) == {i \in DOMAIN h : Apart(h[i].phase, phase) < Match}
Replaced(h, i, new) == [j \in DOMAIN h |-> IF j = i THEN new ELSE h[j]]

\* Fault: a knot found again goes on fading.
MergeFading(h, phase) ==
  LET i == Min(Near(h, phase))
  IN IF Near(h, phase) = {} THEN Append(h, [phase |-> phase, age |-> 0])
     ELSE Replaced(h, i, [phase |-> phase, age |-> h[i].age])

\* The first knot that is near becomes the one detected, and moves to it.
Merge(h, phase) ==
  LET new == [phase |-> phase, age |-> 0]
  IN IF Near(h, phase) = {} THEN Append(h, new) ELSE Replaced(h, Min(Near(h, phase)), new)

\* All that is detected, in its order.
Merged(h, current) ==
  LET merged[n \in 0..Len(current)] ==
        IF n = 0 THEN h ELSE Merge(merged[n - 1], current[n])
  IN  merged[Len(current)]

Retained(h) == Only(h, {k \in ToSet(h) : k.age < Fade})

\* Of too many knots the faintest go.  The sort is stable: knots of an age keep
\* their order.
Rank(h, i) == Cardinality({j \in DOMAIN h : \/ h[j].age < h[i].age
                                            \/ h[j].age = h[i].age /\ j <= i})
Truncated(h) ==
  IF Len(h) <= MaxHeld THEN h
  ELSE [n \in 1..MaxHeld |-> h[CHOOSE i \in DOMAIN h : Rank(h, i) = n]]

\* One frame, dt half-lives after the last.
Frame(probe, reported, dt) ==
  /\ frames' \in 1..Min({frames + 1, Frames})
  /\ \E own \in FrameShapes(probe, dt) :
     LET current == Current(probe, own, reported) IN
     /\ shape' = own
     /\ held' = Truncated(Retained(Merged(Older(held, dt), current)))
     /\ detected' = [p \in Phase |-> IF p \in ToSet(current) THEN 0
                                     ELSE Min({detected[p] + dt, Fade})]

RimNext == \E probe \in Shapes \cup {None}, reported \in Reports, dt \in 0..1 :
             Frame(probe, reported, dt)

RimSpec == RimInit /\ [][RimNext]_rimVars

---------------------------------------------------------------------------
(* Properties.                                                              *)

\* The phases detected no earlier than p, when d tells since when.
Since(d, p) == {x \in Phase : d[x] <= d[p]}

\* From p to q, each time to a phase that is near and was detected since.
Followed(d, p, q) ==
  \A S \in SUBSET Since(d, p) :
    p \in S /\ (\A x \in S, y \in Since(d, p) : Apart(x, y) < Match => y \in S) => q \in S

\* A knot of h is p's, or h has no room for one.
HeldFor(d, p, h) ==
  \/ \E i \in DOMAIN h : h[i].age <= d[p] /\ Followed(d, p, h[i].phase)
  \/ Len(h) >= MaxHeld /\ \A i \in DOMAIN h : h[i].age <= d[p]

\* A stall that was detected does not blink off when detection fails for a
\* while: until it has faded a knot is held for it, where it was or where it was
\* followed to through phases detected since, or every place is taken by knots
\* that are no older.  And no knot is held for a phase that was not detected as
\* long ago as its age says (ui.rs:386, "do not blink the knot off").
KnotsHeld ==
  /\ \A p \in Phase : detected[p] < Fade => HeldFor(detected, p, held)
  /\ \A i \in DOMAIN held : detected[held[i].phase] <= held[i].age
  /\ Len(held) <= MaxHeld
=============================================================================
