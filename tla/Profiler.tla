------------------------------ MODULE Profiler ------------------------------
(***************************************************************************)
(* The profiler of haversine-distance/metrics/profiler.cpp: blocks are     *)
(* timed by guards that are constructed and destroyed as scopes nest, each *)
(* with the index of its place in the source, and one record for an index. *)
(*                                                                         *)
(* Time is what ReadCPUTmer returns, which never goes back; it is counted  *)
(* from the moment of beginProfile on.  malloc gives PROFILER_DATA zeroes, *)
(* and calloc and realloc do not fail.                                     *)
(***************************************************************************)
EXTENDS Integers, Sequences

CONSTANTS
  Indices,     \* the values of __COUNTER__ at the guards of the program
  BufferSize,  \* 64 in the code
  Ticks,       \* how far the clock moves from one reading to the next
  MaxNow       \* bound on the clock

ASSUME Constants ==
  /\ Indices \subseteq Nat
  /\ BufferSize \in Nat \ {0}
  /\ Ticks \subseteq Nat
  /\ MaxNow \in Nat

VARIABLES
  records,       \* PROFILER_DATA->records that are not NULL, by index
  size,          \* allocatedRecordsBufferSize, or 0: records is NULL
  recordsAmount,
  begun,         \* PROFILER_DATA->start
  totalElapsed,
  guards,        \* the indices of the guards there are, innermost last
  now,           \* the last reading of the clock
  status,        \* "idle", "running", "printed", or what happens to the records:
                 \* "overrun", or "undefined": NULL is followed
  inside,        \* history: for how long each block has been open
  reentered      \* history: the blocks that were entered while open

vars == <<records, size, recordsAmount, begun, totalElapsed, guards, now, status,
          inside, reentered>>

Init ==
  /\ records = [i \in {} |-> {}]
  /\ size = 0
  /\ recordsAmount = 0
  /\ begun = 0
  /\ totalElapsed = 0
  /\ guards = <<>>
  /\ now = 0
  /\ status = "idle"
  /\ inside = [i \in Indices |-> 0]
  /\ reentered = {}

-----------------------------------------------------------------------------

Open == {guards[k] : k \in 1 .. Len(guards)}

\* ReadCPUTmer; the blocks that are open get older.
ReadCPUTmer ==
  \E d \in Ticks :
    /\ now + d <= MaxNow
    /\ now' = now + d
    /\ inside' = [i \in Indices |-> IF i \in Open THEN inside[i] + d ELSE inside[i]]

beginProfile ==
  /\ status = "idle"
  /\ ReadCPUTmer
  /\ begun' = now'
  /\ status' = "running"
  /\ UNCHANGED <<records, size, recordsAmount, totalElapsed, guards, reentered>>

\* The table after the first part of addNewProfilerRecord.
TableSize ==
  IF size = 0 THEN BufferSize
  ELSE IF recordsAmount > BufferSize THEN 2 * size
  ELSE size

\* The record of an index, zeroes if there is none yet.
Record(index) ==
  IF index \in DOMAIN records THEN records[index] ELSE [start |-> 0, end |-> 0, elapsed |-> 0]

With(index, record) ==
  [i \in DOMAIN records \cup {index} |-> IF i = index THEN record ELSE records[i]]

\* Slip: recordsAmount is an amount and not the largest index.
CountedAmount(index) == IF recordsAmount < index + 1 THEN index + 1 ELSE recordsAmount

Amount(index) == IF recordsAmount < index THEN index ELSE recordsAmount

\* FunctionGuard::FunctionGuard
Enter(index) ==
  /\ status = "running"
  /\ index < TableSize
  /\ ReadCPUTmer
  /\ size' = TableSize
  /\ recordsAmount' = Amount(index)
  /\ records' = With(index, [Record(index) EXCEPT !.start = now'])
  /\ guards' = Append(guards, index)
  /\ reentered' = IF index \in Open THEN reentered \cup {index} ELSE reentered
  /\ UNCHANGED <<begun, totalElapsed, status>>

\* records[index] past the table.
EnterOverrun(index) ==
  /\ status = "running"
  /\ index >= TableSize
  /\ status' = "overrun"
  /\ UNCHANGED <<records, size, recordsAmount, begun, totalElapsed, guards, now,
                 inside, reentered>>

Innermost == guards[Len(guards)]

\* Slip: the difference is taken the wrong way round.
BackwardEnded(record, end) == [record EXCEPT !.end = end, !.elapsed = @ + (record.start - end)]

\* Slip: the time of the last visit is kept and not the sum.
LastElapsed(record, end) == [record EXCEPT !.end = end, !.elapsed = end - record.start]

\* The end of a visit is added to the record.
Ended(record, end) == [record EXCEPT !.end = end, !.elapsed = @ + (end - record.start)]

\* FunctionGuard::~FunctionGuard
Leave ==
  /\ status = "running" /\ guards # <<>>
  /\ ReadCPUTmer
  /\ records' = With(Innermost, Ended(records[Innermost], now'))
  /\ guards' = SubSeq(guards, 1, Len(guards) - 1)
  /\ UNCHANGED <<size, recordsAmount, begun, totalElapsed, status, reentered>>

\* Slip: the profile is not timed from its beginning but from the last guard on.
LateElapsed == now' - now

TotalElapsed == now' - begun

\* printProfilerData follows every entry of the table up to recordsAmount.
Printable == \A i \in 0 .. recordsAmount : i \in DOMAIN records

endAndPrintProfile ==
  /\ status = "running"
  /\ ReadCPUTmer
  /\ totalElapsed' = TotalElapsed
  /\ status' = IF Printable THEN "printed" ELSE "undefined"
  /\ UNCHANGED <<records, size, recordsAmount, begun, guards, reentered>>

Next ==
  \/ beginProfile
  \/ \E index \in Indices : Enter(index) \/ EnterOverrun(index)
  \/ Leave
  \/ endAndPrintProfile

Spec == Init /\ [][Next]_vars

-----------------------------------------------------------------------------
(***************************************************************************)
(* Properties.                                                             *)
(***************************************************************************)

Records == [start : Nat, end : Nat, elapsed : Nat]

TypeOK ==
  /\ DOMAIN records \subseteq Indices
  /\ records \in [DOMAIN records -> Records]
  /\ size \in Nat /\ recordsAmount \in Nat
  /\ begun \in 0 .. now /\ totalElapsed \in 0 .. now
  /\ guards \in Seq(DOMAIN records)
  /\ now \in Nat
  /\ status \in {"idle", "running", "printed", "overrun", "undefined"}
  /\ inside \in [Indices -> Nat]
  /\ reentered \subseteq Indices

\* The time a record would be given if its block were left now.
Pending(i) == IF i \in Open THEN records[i].elapsed + (now - records[i].start)
              ELSE records[i].elapsed

\* A block that is never entered while it is open is charged with exactly the time
\* it has been open, whatever blocks are nested in it or around it and however
\* often it is visited (FunctionGuard, lines 87 and 93 to 95).
ElapsedIsTheTimeInside ==
  \A i \in DOMAIN records \ reentered : Pending(i) = inside[i]

\* So no such block is printed with more than the whole of the profile.
NoMoreThanTheTotal ==
  status \in {"printed", "undefined"} =>
    \A i \in DOMAIN records \ reentered : Pending(i) <= totalElapsed

\* Every guard finds a place for its record: "Allocate records buffer dynamically"
\* (profiler.cpp:61).
RecordsHavePlace == status # "overrun"
=============================================================================
