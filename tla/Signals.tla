------------------------------ MODULE Signals ------------------------------
(* What the attributor and the pressure probe make of the counters of the    *)
(* kernel: differences between one reading and the next, of files that may    *)
(* not be readable at one of them.  A fraction of the jiffies is given by the *)
(* jiffies, a rate by the difference: what they are divided by depends on no  *)
(* reading of the counter.  A behaviour follows one of the two readers.  The  *)
(* run queue, which is no counter, is left out.                               *)
EXTENDS Option, Saturating

CONSTANTS
  Reads,     \* [reader -> counters it reads: of /proc/stat, /proc/interrupts, /proc/pressure, RAPL]
  Optional,  \* [reader -> those that are None when they cannot be read, else they are 0]
  Wraps,     \* counters that start again
  WrapAt,    \* where they do
  Word,      \* 2^64
  MaxCount   \* bound: any other counter, and growth between two readings

ASSUME SignalsAssumption ==
  /\ \A r \in DOMAIN Reads : Wraps \cap Reads[r] \subseteq Optional[r]
  /\ WrapAt \in Nat /\ Word \in Nat /\ 2 <= WrapAt /\ WrapAt <= Word
  /\ None \notin Nat

VARIABLES
  reader,    \* "attributor" or "pressure"
  counter,   \* of the kernel
  prev,      \* Attributor::prev, or prev of pressure_loop: a reading, or None
  signals,   \* of the last interval, or None
  since,     \* growth of the counters since the reading (history)
  wrapped    \* counters that wrapped since (history)

readerVars == <<reader, counter, prev, signals, since, wrapped>>

Source == Reads[reader]
Zeros == [s \in Source |-> 0]

ReaderInit ==
  /\ reader \in DOMAIN Reads
  /\ counter \in [Source -> {0, 1}]
  /\ prev = None /\ signals = None
  /\ since = Zeros /\ wrapped = {}

Grow(s) ==
  /\ s \notin Wraps => counter[s] < MaxCount
  /\ since[s] < MaxCount
  /\ counter' = [counter EXCEPT ![s] = IF s \in Wraps THEN (@ + 1) % WrapAt ELSE @ + 1]
  /\ since' = [since EXCEPT ![s] = @ + 1]
  /\ wrapped' = IF counter'[s] < counter[s] THEN wrapped \cup {s} ELSE wrapped
  /\ UNCHANGED <<reader, prev, signals>>

\* read_counters, best effort.
ReadCounters(readable) ==
  [s \in Source |-> IF s \in readable THEN counter[s]
                    ELSE IF s \in Optional[reader] THEN None ELSE 0]

Grown(s, c, p) == IF s \in Wraps THEN (c - p + Word) % Word ELSE Minus(c, p)

\* Fault: what could not be read before counts from 0.
DeriveFromZero(cur) ==
  [s \in Source |-> IF cur[s] = None THEN 0
                    ELSE Grown(s, cur[s], IF prev[s] = None THEN 0 ELSE prev[s])]

\* 0 unless both readings have a value.
DeriveSignals(cur) ==
  [s \in Source |-> IF None \in {prev[s], cur[s]} THEN 0 ELSE Grown(s, cur[s], prev[s])]

Look(readable, gap) ==
  LET cur == ReadCounters(readable) IN
  /\ prev' = cur
  /\ signals' = IF prev = None \/ gap THEN signals ELSE DeriveSignals(cur)
  /\ since' = Zeros /\ wrapped' = {}
  /\ UNCHANGED <<reader, counter>>

\* A turn of the main loop, which records no interval after a gap.
AttributorSample(readable, gap) == reader = "attributor" /\ Look(readable, gap)

\* A turn of the probe.
PressureLoop(readable) == reader = "pressure" /\ Look(readable, FALSE)

ReaderNext ==
  \/ \E readable \in SUBSET Source :
       PressureLoop(readable) \/ \E gap \in BOOLEAN : AttributorSample(readable, gap)
  \/ \E s \in Source : Grow(s)

ReaderSpec == ReaderInit /\ [][ReaderNext]_readerVars

---------------------------------------------------------------------------
(* Properties.                                                              *)

\* The signal of an interval is what its counter grew by in the interval if it
\* could be read at either end, and nothing if it could not be read at the end:
\* only a counter that counts as 0 when it cannot be read, or that wrapped, may
\* show growth of another time (diag.rs:968, 1200).
SignalsMeasured ==
  [][\A readable \in SUBSET Source :
       prev # None /\ Look(readable, FALSE) =>
         \A s \in Source \ wrapped :
           /\ s \notin readable => signals'[s] = 0
           /\ s \in readable /\ prev[s] \notin {None, 0} => signals'[s] = since[s]
           /\ s \in Optional[reader] => signals'[s] <= since[s]]_readerVars
=============================================================================
