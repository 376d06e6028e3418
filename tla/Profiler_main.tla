---------------------------- MODULE Profiler_main ----------------------------
(***************************************************************************)
(* The profiler in haversine_distance.cpp: the order in which main and the *)
(* functions it calls enter and leave their blocks, and the wait on the    *)
(* clock that printProfilerData ends with; in other programs, which enter  *)
(* and leave their blocks in any order; and the programs of the listings,  *)
(* which only wait.                                                        *)
(***************************************************************************)
EXTENDS Profiler, Timer

CONSTANTS
  OtherIndices,  \* __COUNTER__ at the guards of other programs
  OtherMaxNow,   \* bound on the clock for them
  WaitMaxNow     \* bound on the clock for main to wait at the end

\* The guards are among the Indices, and so are those of main: 0 to 3.
ASSUME MainConstants == OtherIndices \subseteq Indices /\ 0 .. 3 \subseteq Indices

VARIABLE pc  \* where main is, or "elsewhere" in another program, or "listing"

mainVars == <<vars, timerVars, pc>>

\* __COUNTER__ at the guards, in the order of the file.
ReadEntireFile == 0
SumHaversineDistances == 1
ParseHaversinePairs == 2

\* Slip: a guard in another file, where __COUNTER__ begins anew.
SharedValidation == 0

Validation == 3

MainInit == Init /\ TimerInit /\ pc \in {"start", "elsewhere", "listing"}

At(from, to) == pc = from /\ pc' = to

Enters ==
  \/ At("args", "reading") /\ Enter(ReadEntireFile)
  \/ At("read", "validating") /\ Enter(Validation)
  \/ At("validating", "parsing") /\ Enter(ParseHaversinePairs)
  \/ At("parsed", "summing") /\ Enter(SumHaversineDistances)
  \/ At("summed", "answering") /\ Enter(ReadEntireFile)

Leaves ==
  \/ At("reading", "read") /\ Leave
  \/ At("parsing", "parsed") /\ Leave
  \/ At("summing", "summed") /\ Leave
  \/ At("answering", "answered") /\ Leave
  \/ (At("summed", "ending") \/ At("answered", "ending")) /\ Leave

\* Wrong arguments, and an input there are no pairs in or no memory for.
Skips == (At("args", "ending") \/ At("read", "ending")) /\ UNCHANGED vars

\* exit(1) in the parser destroys no guard.
Exit == At("parsing", "exited") /\ UNCHANGED vars

Elsewhere ==
  /\ pc = "elsewhere" /\ UNCHANGED pc
  /\ \/ beginProfile \/ Leave \/ endAndPrintProfile
     \/ \E index \in OtherIndices : Enter(index) \/ EnterOverrun(index)
  /\ now' <= OtherMaxNow

\* printProfilerData's last call, when the table could be printed; main waits for it.
Estimate ==
  /\ At("printing", "estimating") /\ status = "printed"
  /\ now <= WaitMaxNow
  /\ EstimateCPUFrequency /\ UNCHANGED vars

Estimated == At("estimating", "ended") /\ waiting = "over" /\ UNCHANGED <<vars, timerVars>>

Listing == pc = "listing" /\ BeginListing /\ UNCHANGED <<vars, pc>>

Profiles ==
  /\ \/ At("start", "args") /\ beginProfile
     \/ Enters \/ Leaves \/ Skips \/ Exit
     \/ At("ending", "printing") /\ endAndPrintProfile
     \/ Elsewhere
  /\ UNCHANGED timerVars

TimePasses == Tick /\ UNCHANGED <<vars, pc>>

WaitsOn == Waits /\ UNCHANGED <<vars, pc>>

MainNext ==
  \/ Profiles \/ Estimate \/ Estimated \/ Listing
  \/ TimePasses \/ WaitsOn \/ (SetClock /\ UNCHANGED <<vars, pc>>)

\* Time passes, and a program that waits is not kept from the processor for ever.
MainSpec ==
  /\ MainInit /\ [][MainNext]_mainVars
  /\ WF_mainVars(TimePasses) /\ WF_mainVars(WaitsOn)

-----------------------------------------------------------------------------

\* The records main prints are all there: those of the guards below the largest
\* index it has come to were entered before.  Only when it is called with the wrong
\* arguments is there none, and NULL is followed (main, 156 to 162; profiler.cpp:111).
PrintsWhatWasEntered ==
  pc # "elsewhere" /\ status = "undefined" => DOMAIN records = {}

\* main enters none of its blocks while it is open, though it reads the answers, by the
\* function it read the input by, in the block of the validation: each of its records
\* holds all the time its block has been open, at every step and on every way out.
MainIsCharged ==
  pc # "elsewhere" => \A i \in DOMAIN records : Pending(i) = inside[i]
=============================================================================
