--------------------------- MODULE MCSpineHealth ---------------------------
(* A small instance of SpineHealth for TLC, with the thresholds of the code. *)
EXTENDS SpineHealth

MCHostname == <<"apollo", "vega">>
MCPsi == [warnOn |-> 25, warnOff |-> 15, critOn |-> 50, critOff |-> 40]
MCCpu == [warnOn |-> 85, warnOff |-> 78, critOn |-> 97, critOff |-> 93]

Stall(cpu, mem, io) == [psi_cpu |-> cpu, psi_mem |-> mem, psi_io |-> io, cpu_pct |-> 99]
Load(pct) == [psi_cpu |-> None, psi_mem |-> None, psi_io |-> None, cpu_pct |-> pct]

\* No stall signal and below both thresholds of the fallback; between the
\* thresholds of either tier; above all, with a worst signal that is not the first.
MCReading == {Load(70), Stall(0, 20, 0), Stall(45, 0, 0), Stall(None, 30, 60)}
=============================================================================
