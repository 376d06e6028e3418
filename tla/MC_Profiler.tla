----------------------------- MODULE MC_Profiler -----------------------------
(***************************************************************************)
(* The profiler and the waits over small clocks: a second has two units.   *)
(***************************************************************************)
EXTENDS Profiler_main

\* No wait, a wait that is no whole second, and one before the clock began.
MC_Milliseconds == {0, 1500, -1000}
=============================================================================
