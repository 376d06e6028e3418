------------------------------- MODULE Timer -------------------------------
(***************************************************************************)
(* Waiting on the clock of the operating system to measure the counter of  *)
(* the processor: EstimateCPUFrequency in metrics/profiler.cpp, and the    *)
(* programs of metrics/listing_71.cpp, listing_72.cpp and listing_73.cpp.  *)
(*                                                                         *)
(* Time passes in parts, finer than what is read of it: a reading of the   *)
(* clock tells the whole units that have passed, Unit parts each, and one  *)
(* of the counter the whole counts, Count parts each.  The counter runs    *)
(* OSFreq * Unit / Count counts a second, and either may be anywhere       *)
(* between two of its readings when a program begins.  The clock is the    *)
(* time of day, which may be set meanwhile, in either direction.           *)
(***************************************************************************)
EXTENDS Integers

CONSTANTS
  U64,           \* 2^64
  OSFreq,        \* GetOSTimerFreq: 1000000, the units of the clock in a second
  Unit,          \* the parts of time in a unit of the clock
  Count,         \* the parts of time in a count of the counter
  EstimateWait,  \* the argument of EstimateCPUFrequency: 100
  Milliseconds,  \* what atol makes of the argument of listing_73
  Highest,       \* bound on what the clock is set to, and on it before the wait, in parts
  Latest,        \* bound on the clock, in parts
  MaxSets        \* bound on how often it is set

ASSUME TimerConstants ==
  /\ OSFreq \in Nat \ {0} /\ U64 \in Nat \ {0}
  /\ Unit \in Nat \ {0} /\ Count \in Nat \ {0}
  /\ EstimateWait \in Nat
  /\ Milliseconds \subseteq Int
  /\ Highest \in Nat /\ Latest \in Nat /\ MaxSets \in Nat

VARIABLES
  program,     \* what waits: "none", "listing_71", "listing_72", "listing_73" or
               \* "EstimateCPUFrequency"
  waiting,     \* "no", "counting" before the first look at the clock, "looping", "over"
  OSWaitTime, OSStart, OSEnd, OSElapsed,
  CPUStart, CPUElapsed, CPUFreq,
  time,        \* the parts that have passed since the program began
  clock,       \* the time of day in parts, of which gettimeofday tells the units
  counter,     \* the counter in parts, of which rdtsc tells the counts
  sets         \* history: how often the clock has been set

measures == <<OSWaitTime, OSStart, OSEnd, OSElapsed, CPUStart, CPUElapsed, CPUFreq>>
clocks == <<time, clock, counter, sets>>
timerVars == <<program, waiting, measures, clocks>>

TimerInit ==
  /\ program = "none" /\ waiting = "no"
  /\ OSWaitTime = 0 /\ OSStart = 0 /\ OSEnd = 0 /\ OSElapsed = 0
  /\ CPUStart = 0 /\ CPUElapsed = 0 /\ CPUFreq = 0
  /\ time = 0 /\ clock = 0 /\ counter = 0 /\ sets = 0

-----------------------------------------------------------------------------

Waiting == waiting \in {"counting", "looping"}

Tick ==
  /\ Waiting
  /\ clock < IF waiting = "counting" THEN Highest ELSE Latest
  /\ time' = time + 1
  /\ clock' = clock + 1
  /\ counter' = counter + 1
  /\ UNCHANGED <<program, waiting, measures, sets>>

SetClock ==
  /\ Waiting
  /\ sets < MaxSets
  /\ clock' \in 0 .. Highest
  /\ sets' = sets + 1
  /\ UNCHANGED <<program, waiting, measures, time, counter>>

\* OSFreq units for each second, and the whole ones since the last.
ReadOSTimer ==
  LET units == clock \div Unit IN OSFreq * (units \div OSFreq) + (units % OSFreq)

CounterNow == counter \div Count

\* OSFreq * millisecondsToWait / 1000, rounded towards zero, as unsigned.
WaitTime(ms) ==
  (IF ms >= 0 THEN (OSFreq * ms) \div 1000 ELSE -((OSFreq * (-ms)) \div 1000)) % U64

\* The first reading of the counter, which listing_71 does without, at any time of day
\* and with the counter just before its next count or just after its last.
Begin(name, wait) ==
  /\ program = "none"
  /\ program' = name
  /\ waiting' = "counting"
  /\ OSWaitTime' = wait
  /\ clock' \in 0 .. Highest
  /\ counter' \in 0 .. Count - 1
  /\ CPUStart' = IF name = "listing_71" THEN 0 ELSE CounterNow'
  /\ UNCHANGED <<OSStart, OSEnd, OSElapsed, CPUElapsed, CPUFreq, time, sets>>

BeginListing ==
  \/ Begin("listing_71", OSFreq)
  \/ Begin("listing_72", OSFreq)
  \/ \E ms \in Milliseconds \cup {1000} : Begin("listing_73", WaitTime(ms))

EstimateCPUFrequency == Begin("EstimateCPUFrequency", EstimateWait)

StartWait ==
  /\ waiting = "counting"
  /\ OSStart' = ReadOSTimer
  /\ waiting' = "looping"
  /\ UNCHANGED <<program, OSWaitTime, OSEnd, OSElapsed, CPUStart, CPUElapsed, CPUFreq, clocks>>

\* Slip: one unit more is taken to have passed.
RoundedElapsed(end) == (end - OSStart + 1) % U64

Elapsed(end) == (end - OSStart) % U64

\* Slip: what has passed since the last look is taken for what has passed since the first.
RestartedWait ==
  /\ waiting = "looping" /\ OSElapsed < OSWaitTime
  /\ OSEnd' = ReadOSTimer
  /\ OSElapsed' = Elapsed(OSEnd')
  /\ OSStart' = OSEnd'
  /\ UNCHANGED <<program, waiting, OSWaitTime, CPUStart, CPUElapsed, CPUFreq, clocks>>

\* One turn of the loop.
Wait ==
  /\ waiting = "looping" /\ OSElapsed < OSWaitTime
  /\ OSEnd' = ReadOSTimer
  /\ OSElapsed' = Elapsed(OSEnd')
  /\ UNCHANGED <<program, waiting, OSWaitTime, OSStart, CPUStart, CPUElapsed, CPUFreq, clocks>>

\* Slip: the quotient is taken before the product.
DividedFirst(cpu) ==
  IF program = "listing_73" /\ OSElapsed # 0 THEN (OSFreq \div OSElapsed) * cpu ELSE 0

\* Only listing_73 keeps the quotient: EstimateCPUFrequency puts it in CPUElapsed and
\* returns the zero CPUFreq began with.
Frequency(cpu) ==
  IF program = "listing_73" /\ OSElapsed # 0 THEN ((OSFreq * cpu) % U64) \div OSElapsed ELSE 0

\* The loop is left, and the counter is read again.
EndWait ==
  /\ waiting = "looping" /\ OSElapsed >= OSWaitTime
  /\ waiting' = "over"
  /\ LET cpu == (CounterNow - CPUStart) % U64 IN
     /\ CPUElapsed' = IF program = "listing_71" THEN 0 ELSE cpu
     /\ CPUFreq' = Frequency(cpu)
  /\ UNCHANGED <<program, OSWaitTime, OSStart, OSEnd, OSElapsed, CPUStart, clocks>>

\* The program's own steps.
Waits == StartWait \/ Wait \/ EndWait

-----------------------------------------------------------------------------
(***************************************************************************)
(* Properties.                                                             *)
(***************************************************************************)

\* A wait that is over is short of the units compared with by less than one of them,
\* unless the clock was set meanwhile (the loops at profiler.cpp:37, listing_71.cpp:16,
\* listing_72.cpp:17 and listing_73.cpp:26).  It may be short by almost one, since
\* gettimeofday tells whole microseconds: OSStart may be read at the end of one.  A
\* clock set to before OSStart ends the wait at once, since the difference is unsigned.
WaitIsLongEnough == waiting = "over" /\ sets = 0 => time + Unit > Unit * OSWaitTime

\* What EstimateCPUFrequency is to wait is named in milliseconds: "uint64_t
\* EstimateCPUFrequency(uint64_t msToWait)" (profiler.hpp:15).  It is compared with
\* microseconds (profiler.cpp:37), which listing_73.cpp:24 makes of its milliseconds
\* first.
MillisecondsAreWaited ==
  waiting = "over" /\ program = "EstimateCPUFrequency" /\ sets = 0
  => time + Unit > Unit * WaitTime(EstimateWait)

\* What listing_73 prints for the frequency of the counter may be below it, but by no
\* more than its readings leave open, unless the clock was set or the product overflows:
\* a unit of the clock, which truncation adds to OSElapsed, one count of the counter, and
\* what the division drops.  That the two looks at the clock are between the two at the
\* counter (lines 19 and 20, 29 and 32) makes it so, whatever passes between them.
UnderestimatesByLittle ==
  waiting = "over" /\ program = "listing_73" /\ sets = 0 /\ OSElapsed # 0
    /\ OSFreq * (counter \div Count) < U64
  => (CPUFreq + 1) * Count * OSElapsed > OSFreq * (Unit * (OSElapsed - 1) - Count)

\* A wait that the clock can reach comes to an end, however often the clock is set
\* back in it: sooner or later it reaches OSStart + OSWaitTime, or is before OSStart.
WaitEnds == (Waiting /\ OSWaitTime <= (Latest - Highest) \div Unit) ~> waiting = "over"
=============================================================================
