---------------------------- MODULE Periodicity ----------------------------
(* analyze_periodicity and characterise_stutter, on a series whose times and *)
(* heights are whole numbers: the period by autocorrelation, and the stalls   *)
(* folded at it.  The arithmetic is exact; what is divided by the number of    *)
(* bins or by the energy in the code is multiplied by it here.  The spectrum   *)
(* is for display and left out, and so is the cap of 6000 bins.               *)
EXTENDS Integers, Sequences, FiniteSets, FiniteSetsExt

CONSTANTS
  Quarter,     \* a quarter of the shortest period looked for, the finest bin
  SlowPeriod   \* the longest period looked for

FastPeriod == 4 * Quarter
Sum(f, S) == MapThenSumSet(LAMBDA i : f[i], S)
Span(s) == s[Len(s)].t - s[1].t

\* Not finer than one and a half times the spacing of the series.
BinDt(s) == Max({Quarter, (3 * Span(s)) \div (2 * (Len(s) - 1))})

\* The highest sample of each bin, 0 if there is none.
ResampleUniform(s, dt) ==
  LET bin(i) == (s[i].t - s[1].t) \div dt + 1
  IN [b \in 1..(Span(s) \div dt + 1) |->
        Max({s[i].over : i \in {j \in DOMAIN s : bin(j) = b}} \cup {0})]

\* A series without its mean, times its length.
Centred(g) == [i \in DOMAIN g |-> Len(g) * g[i] - Sum(g, DOMAIN g)]
Corr(c, lag) == MapThenSumSet(LAMBDA i : c[i] * c[i + lag], 1..(Len(c) - lag))

\* The lags looked at, in bins: three cycles have to fit.
LagMin(dt) == Max({1, FastPeriod \div dt})
LagMax(dt, n) == Max({LagMin(dt) + 1, Min({SlowPeriod \div dt, n \div 3})})

\* Past the central lobe: the first lag, of those looked at, without
\* correlation.
SearchFrom(r, lo, hi) ==
  LET dips == {l \in lo..(hi - 1) : r[l] <= 0}
  IN IF dips = {} THEN lo ELSE Min(dips)

\* Fault: any of the multiples that are nearly as strong.
FundamentalAny(r, from, hi, best) == Max({l \in from..hi : 10 * r[l] >= 9 * best})

\* Of the lags that are nearly as strong as the strongest, the smallest.
Fundamental(r, from, hi, best) == Min({l \in from..hi : 10 * r[l] >= 9 * best})

\* The period of a series, 0 if none stands out.
AnalyzePeriodicity(s) ==
  IF Len(s) < 8 \/ Span(s) \div BinDt(s) + 1 < 16 THEN 0
  ELSE LET dt == BinDt(s)
           c == Centred(ResampleUniform(s, dt))
           lo == LagMin(dt)
           hi == LagMax(dt, Len(c))
           r == [l \in lo..hi |-> Corr(c, l)]
           from == SearchFrom(r, lo, hi)
           best == Max({r[l] : l \in from..hi} \cup {0})
       IN IF 5 * best <= Corr(c, 0) THEN 0 ELSE dt * Fundamental(r, from, hi, best)

\* The phases of the stalls of a series within a period, if there are three.
CharacteriseStutter(s, period, floor) ==
  LET events == {i \in DOMAIN s : s[i].over > floor}
  IN IF period = 0 \/ Cardinality(events) < 3 THEN {} ELSE {s[i].t % period : i \in events}
=============================================================================
