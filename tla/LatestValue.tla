--------------------------- MODULE LatestValue ----------------------------
(* What a connection promises to the display: the snapshots of a host are  *)
(* numbered as they are made, those that have come in are known by the     *)
(* last of them, and the display goes straight to that one.  Snapshots may *)
(* be skipped, never shown twice, late or out of order.                    *)
EXTENDS Naturals

CONSTANT Link

VARIABLES
  made,     \* number of the last snapshot made
  sent,     \* number of the last one that has come in
  shown     \* number of the one on the display, 0 for none

Init == /\ made = [l \in Link |-> 0]
        /\ sent = [l \in Link |-> 0]
        /\ shown = [l \in Link |-> 0]

Make(l) == /\ made' = [made EXCEPT ![l] = @ + 1]
           /\ UNCHANGED <<sent, shown>>

Send(l) == /\ sent' \in {[sent EXCEPT ![l] = n] : n \in (sent[l] + 1)..made[l]}
           /\ UNCHANGED <<made, shown>>

\* A look at some of the connections.
Show(L) == /\ shown' = [l \in Link |-> IF l \in L THEN sent[l] ELSE shown[l]]
           /\ UNCHANGED <<made, sent>>

\* The connection is given up with what was not looked at.
Discard(l) == /\ sent' = [sent EXCEPT ![l] = shown[l]]
              /\ UNCHANGED <<made, shown>>

\* Another connection takes the place of one that was given up.
Reopen(l) == /\ made' = [made EXCEPT ![l] = 0]
             /\ sent' = [sent EXCEPT ![l] = 0]
             /\ shown' = [shown EXCEPT ![l] = 0]

Next == \/ \E l \in Link : Make(l) \/ Send(l) \/ Discard(l) \/ Reopen(l)
        \/ \E L \in SUBSET Link : Show(L)

Spec == Init /\ [][Next]_<<made, sent, shown>>
=============================================================================
