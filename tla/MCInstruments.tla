---------------------------- MODULE MCInstruments ----------------------------
(* Seven instants of the clock, four scans of two pids, or a series with at  *)
(* least three periods: of the live probe, whose samples are finer than a    *)
(* bin, or of a log, whose samples are coarser.  Apart from these the         *)
(* counters of the kernel; the tiers of the spine; and the rim of the screen: *)
(* its knots from frame to frame, and where its parts go with up to two       *)
(* stalls anywhere, all lit, and lit from corner to corner with a stall on    *)
(* the left.                                                                  *)
EXTENDS MCSpineHealth, Instruments, Signals, Rim, BorderLayout

MCTrains ==
  {x \in [len : {68, 90}, spacing : {1}, period : 2..29, width : 1..3, first : {0, 2}]
         \cup [len : {30, 47, 100}, spacing : {4}, period : 2..15, width : 1..3, first : {0, 2}] :
     x.width < x.period /\ 3 * x.period < x.len}

Arcs == {{(i + k) % 42 : k \in 0..n} : i \in 0..41, n \in {0, 4}}
MCMarkers == {a \cup b : a \in Arcs, b \in Arcs} \cup {{}, 0..41, (0..24) \cup {30}}
MCShapes == {{}, {0, 1, 2}, {2, 4}}
MCReports == {<<>>, <<5, 0>>}
MCReads == [attributor |-> {"irq", "psi", "rapl"}, pressure |-> {"psi"}]
MCOptional == [attributor |-> {"psi", "rapl"}, pressure |-> {}]

MCLengths == [status : {1, 5}, keys : {1, 3}, readout : {0, 1}, legend : {<<2, 3, 1>>}]

VARIABLE part

MCInit ==
  /\ part \in {"instruments", "counters", "knots", "border", "tiers"}
  /\ \/ part = "instruments"
     \/ part # "instruments" /\ follows = "latency" /\ log = FALSE /\ view = "Other"
  /\ ProbesInit /\ RimInit /\ Init
  /\ IF part = "counters" THEN ReaderInit
     ELSE /\ reader = "pressure" /\ counter = <<>> /\ prev = None /\ signals = None
          /\ since = <<>> /\ wrapped = {}
  /\ IF part = "border" THEN BorderInit
     ELSE lit = {} /\ text = None /\ header = <<>> /\ footer = None /\ marked = {}

MCNext ==
  /\ UNCHANGED part
  /\ \/ part = "instruments" /\ ProbesNext /\ UNCHANGED <<vars, readerVars, rimVars, borderVars>>
     \/ part = "counters" /\ ReaderNext /\ UNCHANGED <<vars, probesVars, rimVars, borderVars>>
     \/ part = "knots" /\ RimNext /\ UNCHANGED <<vars, probesVars, readerVars, borderVars>>
     \/ part = "border" /\ BorderNext /\ UNCHANGED <<vars, probesVars, readerVars, rimVars>>
     \/ part = "tiers" /\ Next /\ UNCHANGED <<probesVars, readerVars, rimVars, borderVars>>

MCSpec == MCInit /\ [][MCNext]_<<part, vars, probesVars, readerVars, rimVars, borderVars>>
=============================================================================
