-------------------------- MODULE Profiler_proofs --------------------------
(***************************************************************************)
(* Proofs about the profiler: the accounts it gives are exact, for every   *)
(* nesting of blocks that are not entered while open, every number of      *)
(* visits and every clock that does not go back.  And about its program:   *)
(* main prints what it has entered and is charged with it, no wait is      *)
(* short by a unit of its clock unless that is set, and the frequency is   *)
(* close.                                                                  *)
(***************************************************************************)
EXTENDS Profiler_main, SequenceTheorems, TLAPS

\* A record never starts in the future.
Started == \A i \in DOMAIN records : records[i].start <= now

\* A block has two guards only if it was entered while open.
OneGuard ==
  \A j, k \in 1 .. Len(guards) : guards[j] = guards[k] => j = k \/ guards[j] \in reentered

\* Nothing has been open for longer than the profile, and nothing before it.
WithinProfile ==
  /\ status = "idle" => DOMAIN records = {}
  /\ \A i \in Indices \ DOMAIN records : inside[i] = 0
  /\ \A i \in Indices : inside[i] <= now - begun
  /\ status \in {"printed", "undefined"} => totalElapsed = now - begun

\* What a step is shown to preserve: the accounts follow from where the guards are.
Inv == TypeOK /\ Started /\ OneGuard /\ ElapsedIsTheTimeInside /\ WithinProfile

LEMMA Initially == Init => Inv
<1> SUFFICES ASSUME Init PROVE Inv
  OBVIOUS
<1>1. DOMAIN records = {} /\ records \in [DOMAIN records -> Records]
  BY DEF Init
<1>2. guards \in Seq(DOMAIN records) /\ Len(guards) = 0
  BY DEF Init
<1> QED
  BY <1>1, <1>2 DEF Init, Inv, TypeOK, Started, OneGuard, ElapsedIsTheTimeInside, WithinProfile

\* Reading the clock makes what is open older, and nothing else.
LEMMA Reading ==
  ASSUME Inv, ReadCPUTmer
  PROVE  /\ now' \in Nat /\ now' >= now
         /\ inside' \in [Indices -> Nat]
         /\ \A i \in Indices : inside'[i] = IF i \in Open THEN inside[i] + (now' - now) ELSE inside[i]
         /\ \A i \in Indices : inside'[i] <= now' - begun
<1>1. PICK d \in Ticks :
        /\ now' = now + d
        /\ inside' = [i \in Indices |-> IF i \in Open THEN inside[i] + d ELSE inside[i]]
  BY DEF ReadCPUTmer
<1>2. d \in Nat /\ now \in Nat /\ begun \in 0 .. now /\ inside \in [Indices -> Nat]
  BY Constants DEF Inv, TypeOK
<1>3. \A i \in Indices : inside[i] <= now - begun
  BY DEF Inv, WithinProfile
<1>4. \A i \in Indices : inside'[i] = IF i \in Open THEN inside[i] + d ELSE inside[i]
  BY <1>1
<1> QED
  BY <1>1, <1>2, <1>3, <1>4

LEMMA OpenType ==
  ASSUME Inv
  PROVE  /\ Open \subseteq DOMAIN records
         /\ Len(guards) \in Nat
         /\ \A k \in 1 .. Len(guards) : guards[k] \in DOMAIN records
BY DEF Inv, TypeOK, Open

LEMMA BeginKeeps == ASSUME Inv, beginProfile PROVE Inv'
<1>1. /\ status = "idle" /\ status' = "running" /\ ReadCPUTmer /\ begun' = now'
      /\ UNCHANGED <<records, size, recordsAmount, totalElapsed, guards, reentered>>
  BY DEF beginProfile
<1>2. DOMAIN records = {} /\ Open = {}
  BY <1>1, OpenType DEF Inv, WithinProfile
<1>3. \A i \in Indices : inside[i] = 0 /\ inside'[i] = 0
  BY <1>1, <1>2, Reading DEF Inv, WithinProfile
<1>4. now' \in Nat /\ now' >= now /\ inside' \in [Indices -> Nat]
  BY <1>1, Reading
<1>5. TypeOK'
  BY <1>1, <1>4 DEF Inv, TypeOK
<1>6. Started' /\ ElapsedIsTheTimeInside'
  BY <1>1, <1>2 DEF Started, ElapsedIsTheTimeInside
<1>7. OneGuard'
  BY <1>1 DEF Inv, OneGuard
<1>8. WithinProfile'
  BY <1>1, <1>3, <1>4 DEF Inv, WithinProfile
<1> QED
  BY <1>5, <1>6, <1>7, <1>8 DEF Inv

LEMMA EnterKeeps == ASSUME Inv, NEW index \in Indices, Enter(index) PROVE Inv'
<1>1. /\ status = "running" /\ status' = status /\ ReadCPUTmer
      /\ size' = TableSize /\ recordsAmount' = Amount(index)
      /\ guards' = Append(guards, index)
      /\ reentered' = IF index \in Open THEN reentered \cup {index} ELSE reentered
      /\ begun' = begun /\ totalElapsed' = totalElapsed
  BY DEF Enter
<1>2. /\ DOMAIN records' = DOMAIN records \cup {index}
      /\ \A i \in DOMAIN records \ {index} : records'[i] = records[i]
      /\ records'[index] = [Record(index) EXCEPT !.start = now']
  BY DEF Enter, With
<1>3. Record(index) \in Records
  BY DEF Inv, TypeOK, Record, Records
<1>4. /\ now' \in Nat /\ now' >= now /\ inside' \in [Indices -> Nat]
      /\ \A i \in Indices : inside'[i] = IF i \in Open THEN inside[i] + (now' - now) ELSE inside[i]
      /\ \A i \in Indices : inside'[i] <= now' - begun
  BY <1>1, Reading
<1>5. /\ records'[index] \in Records /\ records'[index].start = now'
      /\ records'[index].elapsed = Record(index).elapsed
  BY <1>2, <1>3, <1>4 DEF Records
<1>6. /\ Len(guards) \in Nat /\ Len(guards') = Len(guards) + 1
      /\ \A k \in 1 .. Len(guards) : guards'[k] = guards[k] /\ guards[k] \in DOMAIN records
      /\ guards'[Len(guards) + 1] = index
  BY <1>1, OpenType DEF Inv, TypeOK
<1>7. Open' = Open \cup {index}
  BY <1>6 DEF Open
<1>8. TypeOK'
  <2>1. records' \in [DOMAIN records' -> Records]
    <3>1. records' = [i \in DOMAIN records' |-> records'[i]]
      BY DEF Enter, With
    <3>2. \A i \in DOMAIN records' : records'[i] \in Records
      BY <1>2, <1>5 DEF Inv, TypeOK
    <3> QED
      BY <3>1, <3>2
  <2>2. guards' \in Seq(DOMAIN records')
    <3>1. guards \in Seq(DOMAIN records')
      BY <1>2, <1>6 DEF Inv, TypeOK
    <3> QED
      BY <1>1, <1>2, <3>1
  <2>3. size' \in Nat /\ recordsAmount' \in Nat
    BY <1>1, Constants DEF Inv, TypeOK, TableSize, Amount
  <2> QED
    BY <1>1, <1>2, <1>4, <2>1, <2>2, <2>3 DEF Inv, TypeOK
<1>9. Started'
  BY <1>2, <1>4, <1>5 DEF Inv, Started, TypeOK, Records
<1>10. OneGuard'
  <2> SUFFICES ASSUME NEW j \in 1 .. Len(guards'), NEW k \in 1 .. Len(guards'),
                      guards'[j] = guards'[k], j # k
               PROVE  guards'[j] \in reentered'
    BY DEF OneGuard
  <2>1. CASE j \in 1 .. Len(guards) /\ k \in 1 .. Len(guards)
    BY <1>1, <1>6, <2>1 DEF Inv, OneGuard
  <2>2. CASE j = Len(guards) + 1 \/ k = Len(guards) + 1
    BY <1>1, <1>6, <2>2 DEF Open
  <2> QED
    BY <1>6, <2>1, <2>2
<1>11. ElapsedIsTheTimeInside'
  <2> SUFFICES ASSUME NEW i \in DOMAIN records', i \notin reentered'
               PROVE  Pending(i)' = inside'[i]
    BY DEF ElapsedIsTheTimeInside
  <2>1. CASE i = index
    <3>1. index \notin Open
      BY <1>1, <2>1
    <3>2. Record(index).elapsed = inside[index]
      BY <1>1, <2>1, <3>1 DEF Inv, ElapsedIsTheTimeInside, Pending, Record, WithinProfile
    <3> QED
      BY <1>4, <1>5, <1>7, <2>1, <3>1, <3>2 DEF Pending, Inv, TypeOK
  <2>2. CASE i # index
    <3>1. i \in DOMAIN records \ reentered /\ records'[i] = records[i] /\ (i \in Open' <=> i \in Open)
      BY <1>1, <1>2, <1>7, <2>2
    <3>2. records[i] \in Records /\ now \in Nat /\ i \in Indices /\ inside[i] \in Nat
      BY <3>1 DEF Inv, TypeOK
    <3>3. Pending(i) = inside[i]
      BY <3>1 DEF Inv, ElapsedIsTheTimeInside
    <3> QED
      BY <1>4, <3>1, <3>2, <3>3 DEF Pending, Records
  <2> QED
    BY <2>1, <2>2
<1>12. WithinProfile'
  <2>1. \A i \in Indices \ DOMAIN records' : inside'[i] = 0
    BY <1>2, <1>4, OpenType DEF Inv, WithinProfile
  <2> QED
    BY <1>1, <1>4, <2>1 DEF WithinProfile
<1> QED
  BY <1>8, <1>9, <1>10, <1>11, <1>12 DEF Inv

LEMMA LeaveKeeps == ASSUME Inv, Leave PROVE Inv'
<1> DEFINE last == guards[Len(guards)]
<1>1. /\ status = "running" /\ status' = status /\ ReadCPUTmer /\ guards # <<>>
      /\ guards' = SubSeq(guards, 1, Len(guards) - 1)
      /\ UNCHANGED <<size, recordsAmount, begun, totalElapsed, reentered>>
  BY DEF Leave
<1>2. /\ Len(guards) \in Nat \ {0} /\ Len(guards') = Len(guards) - 1
      /\ \A k \in 1 .. Len(guards) - 1 : guards'[k] = guards[k]
      /\ \A k \in 1 .. Len(guards) : guards[k] \in DOMAIN records
      /\ last \in DOMAIN records /\ last \in Open /\ last \in Indices
  <2>1. guards \in Seq(DOMAIN records) /\ DOMAIN records \subseteq Indices
    BY DEF Inv, TypeOK
  <2>2. Len(guards) \in Nat \ {0}
    BY <1>1, <2>1, EmptySeq
  <2>3. Len(guards') = Len(guards) - 1 /\ \A k \in 1 .. Len(guards) - 1 : guards'[k] = guards[k]
    <3> DEFINE n == Len(guards) - 1
    <3>1. n \in Int /\ \A k \in 1 .. n : guards[k] \in DOMAIN records
      BY <2>1, <2>2
    <3>2. /\ Len(SubSeq(guards, 1, n)) = IF 1 <= n THEN n - 1 + 1 ELSE 0
          /\ \A i \in 1 .. n - 1 + 1 : SubSeq(guards, 1, n)[i] = guards[1 + i - 1]
      BY <3>1, SubSeqProperties
    <3>3. guards' = SubSeq(guards, 1, n)
      BY <1>1
    <3>4. n \in Nat /\ Len(guards') = n
      <4>1. n \in Nat
        BY <2>2
      <4>2. Len(guards') = IF 1 <= n THEN n - 1 + 1 ELSE 0
        BY <3>2, <3>3, Zenon
      <4> HIDE DEF n
      <4> QED
        BY <4>1, <4>2
    <3>5. ASSUME NEW k \in 1 .. n PROVE guards'[k] = guards[k]
      <4>1. k \in 1 .. n - 1 + 1 /\ 1 + k - 1 = k
        BY <3>4
      <4> QED
        BY <3>2, <3>3, <4>1
    <3> QED
      BY <3>4, <3>5
  <2>4. Len(guards) \in 1 .. Len(guards)
    BY <2>2
  <2> QED
    BY <2>1, <2>2, <2>3, <2>4, OpenType DEF Open
<1>3. /\ now' \in Nat /\ now' >= now /\ now \in Nat /\ inside' \in [Indices -> Nat]
      /\ \A i \in Indices : inside'[i] = IF i \in Open THEN inside[i] + (now' - now) ELSE inside[i]
      /\ \A i \in Indices : inside'[i] <= now' - begun
  BY <1>1, Reading DEF Inv, TypeOK
<1>4. /\ DOMAIN records' = DOMAIN records
      /\ \A i \in DOMAIN records \ {last} : records'[i] = records[i]
      /\ records'[last] = Ended(records[last], now')
  BY <1>2 DEF Leave, With, Innermost
<1>5. records[last] \in Records /\ records[last].start <= now
  BY <1>2 DEF Inv, TypeOK, Started
<1>6. /\ records'[last] \in Records /\ records'[last].start = records[last].start
      /\ records'[last].elapsed = records[last].elapsed + (now' - records[last].start)
  <2>1. records'[last] = [start |-> records[last].start, end |-> now',
                          elapsed |-> records[last].elapsed + (now' - records[last].start)]
    BY <1>4, <1>5 DEF Ended, Records
  <2>2. now' - records[last].start \in Nat
    BY <1>3, <1>5 DEF Records
  <2> QED
    BY <1>3, <1>5, <2>1, <2>2 DEF Records
<1>7. Open = Open' \cup {last}
  BY <1>2 DEF Open
<1>8. last \in Open' => last \in reentered
  <2> SUFFICES ASSUME last \in Open' PROVE last \in reentered
    OBVIOUS
  <2>1. PICK k \in 1 .. Len(guards) - 1 : guards[k] = last
    BY <1>2 DEF Open
  <2> QED
    BY <1>2, <2>1 DEF Inv, OneGuard
<1>9. TypeOK'
  <2>1. records' \in [DOMAIN records' -> Records]
    <3>1. records' = [i \in DOMAIN records' |-> records'[i]]
      BY DEF Leave, With
    <3>2. \A i \in DOMAIN records' : records'[i] \in Records
      BY <1>4, <1>6 DEF Inv, TypeOK
    <3> QED
      BY <3>1, <3>2
  <2>2. guards' \in Seq(DOMAIN records')
    BY <1>1, <1>2, <1>4 DEF Inv, TypeOK
  <2> QED
    BY <1>1, <1>3, <1>4, <2>1, <2>2 DEF Inv, TypeOK
<1>10. Started'
  <2>1. records'[last].start <= now'
    BY <1>3, <1>5, <1>6 DEF Records
  <2>2. \A i \in DOMAIN records \ {last} : records'[i].start <= now'
    BY <1>3, <1>4 DEF Inv, Started, TypeOK, Records
  <2> QED
    BY <1>4, <2>1, <2>2 DEF Started
<1>11. OneGuard'
  BY <1>1, <1>2 DEF Inv, OneGuard
<1>12. ElapsedIsTheTimeInside'
  <2> SUFFICES ASSUME NEW i \in DOMAIN records', i \notin reentered'
               PROVE  Pending(i)' = inside'[i]
    BY DEF ElapsedIsTheTimeInside
  <2>1. /\ i \in DOMAIN records \ reentered /\ i \in Indices /\ records[i] \in Records
        /\ inside[i] \in Nat /\ Pending(i) = inside[i]
    BY <1>1, <1>4 DEF Inv, TypeOK, ElapsedIsTheTimeInside
  <2>2. CASE i = last
    BY <1>2, <1>3, <1>5, <1>6, <1>8, <2>1, <2>2 DEF Pending, Records
  <2>3. CASE i # last
    <3>1. records'[i] = records[i] /\ (i \in Open' <=> i \in Open)
      BY <1>4, <1>7, <2>1, <2>3
    <3> QED
      BY <1>3, <2>1, <3>1 DEF Pending, Records
  <2> QED
    BY <2>2, <2>3
<1>13. WithinProfile'
  <2>1. \A i \in Indices \ DOMAIN records' : inside'[i] = 0
    BY <1>3, <1>4, OpenType DEF Inv, WithinProfile
  <2> QED
    BY <1>1, <1>3, <2>1 DEF WithinProfile
<1> QED
  BY <1>9, <1>10, <1>11, <1>12, <1>13 DEF Inv

LEMMA PrintKeeps == ASSUME Inv, endAndPrintProfile PROVE Inv'
<1>1. /\ status = "running" /\ status' \in {"printed", "undefined"} /\ ReadCPUTmer
      /\ totalElapsed' = now' - begun
      /\ UNCHANGED <<records, size, recordsAmount, begun, guards, reentered>>
  BY DEF endAndPrintProfile, TotalElapsed
<1>2. /\ now' \in Nat /\ now' >= now /\ now \in Nat /\ begun \in 0 .. now
      /\ inside' \in [Indices -> Nat]
      /\ \A i \in Indices : inside'[i] = IF i \in Open THEN inside[i] + (now' - now) ELSE inside[i]
      /\ \A i \in Indices : inside'[i] <= now' - begun
  BY <1>1, Reading DEF Inv, TypeOK
<1>3. TypeOK'
  BY <1>1, <1>2 DEF Inv, TypeOK
<1>4. Started'
  BY <1>1, <1>2 DEF Inv, Started, TypeOK, Records
<1>5. OneGuard'
  BY <1>1 DEF Inv, OneGuard
<1>6. Open' = Open
  BY <1>1 DEF Open
<1>7. ElapsedIsTheTimeInside'
  <2> SUFFICES ASSUME NEW i \in DOMAIN records \ reentered
               PROVE  Pending(i)' = inside'[i]
    BY <1>1 DEF ElapsedIsTheTimeInside
  <2>1. i \in Indices /\ records[i] \in Records /\ inside[i] \in Nat /\ Pending(i) = inside[i]
    BY DEF Inv, TypeOK, ElapsedIsTheTimeInside
  <2> QED
    BY <1>1, <1>2, <1>6, <2>1 DEF Pending, Records
<1>8. WithinProfile'
  <2>1. \A i \in Indices \ DOMAIN records' : inside'[i] = 0
    BY <1>1, <1>2, OpenType DEF Inv, WithinProfile
  <2> QED
    BY <1>1, <1>2, <2>1 DEF WithinProfile
<1> QED
  BY <1>3, <1>4, <1>5, <1>7, <1>8 DEF Inv

\* Nothing but the status changes, to a state of its own.
LEMMA StaysKeeps ==
  ASSUME Inv, UNCHANGED vars \/ (\E index \in Indices : EnterOverrun(index))
  PROVE  Inv'
<1>1. /\ UNCHANGED <<records, size, recordsAmount, begun, totalElapsed, guards, now,
                     inside, reentered>>
      /\ status' \in {status, "overrun"}
  BY DEF vars, EnterOverrun
<1>2. TypeOK'
  BY <1>1 DEF Inv, TypeOK
<1>3. Started' /\ OneGuard'
  BY <1>1 DEF Inv, Started, OneGuard
<1>4. ElapsedIsTheTimeInside'
  BY <1>1 DEF Inv, ElapsedIsTheTimeInside, Pending, Open
<1>5. WithinProfile'
  BY <1>1 DEF Inv, WithinProfile
<1> QED
  BY <1>2, <1>3, <1>4, <1>5 DEF Inv

LEMMA Inductive == Inv /\ [Next]_vars => Inv'
BY BeginKeeps, EnterKeeps, LeaveKeeps, PrintKeeps, StaysKeeps DEF Next

LEMMA Always == Spec => []Inv
BY Initially, Inductive, PTL DEF Spec

-----------------------------------------------------------------------------

\* The variables keep their types: elapsed times are never negative, even of a
\* block that is entered again, and every guard has a record.
THEOREM ProfilerTypes == Spec => []TypeOK
<1>1. Inv => TypeOK
  BY DEF Inv
<1> QED
  BY <1>1, Always, PTL

\* Over any nesting and any number of visits a block that is not entered while open
\* is charged with the time it has been open, neither more nor less
\* (FunctionGuard's constructor and destructor).
THEOREM AccountsAreExact == Spec => []ElapsedIsTheTimeInside
<1>1. Inv => ElapsedIsTheTimeInside
  BY DEF Inv
<1> QED
  BY <1>1, Always, PTL

\* The percentage printed for such a block is at most 100 (printProfilerData).
THEOREM NoneExceedsTheTotal == Spec => []NoMoreThanTheTotal
<1>1. Inv => NoMoreThanTheTotal
  BY DEF Inv, TypeOK, ElapsedIsTheTimeInside, WithinProfile, NoMoreThanTheTotal
<1> QED
  BY <1>1, Always, PTL

-----------------------------------------------------------------------------
(***************************************************************************)
(* The programs.                                                           *)
(***************************************************************************)

\* A step of a program is one of the profiler, or none.
LEMMA MainSteps == [MainNext]_mainVars => [Next]_vars
BY MainConstants DEF MainNext, mainVars, Profiles, Enters, Leaves, Skips, Exit, At, Elsewhere,
   Estimate, Estimated, Listing, TimePasses, WaitsOn, Next, ReadEntireFile,
   SumHaversineDistances, ParseHaversinePairs, Validation

\* The programs use the profiler as it allows: all that is proved of it holds in them.
THEOREM MainProfiles == MainSpec => Spec
<1>1. MainInit => Init
  BY DEF MainInit
<1> QED
  BY <1>1, MainSteps, PTL DEF MainSpec, Spec

\* The records there are, by where main is on its way.
Entered ==
  IF pc \in {"start", "args", "listing"} THEN {}
  ELSE IF pc \in {"reading", "read"} THEN {0}
  ELSE IF pc = "validating" THEN {0, 3}
  ELSE IF pc \in {"parsing", "parsed", "exited"} THEN {0, 2, 3}
  ELSE {0, 1, 2, 3}

OnItsWay ==
  {"start", "args", "listing", "reading", "read", "validating", "parsing", "parsed", "exited",
   "summing", "summed", "answering", "answered"}

AtItsEnd == {"ending", "printing", "estimating", "ended"}

\* On its way main has entered what Entered says; it ends from three places.
MainRecords ==
  /\ pc \in OnItsWay \cup AtItsEnd \cup {"elsewhere"}
  /\ pc \in OnItsWay =>
       DOMAIN records = Entered /\ recordsAmount = IF 3 \in Entered THEN 3 ELSE 0
  /\ pc \in AtItsEnd =>
       \/ DOMAIN records \in {{}, {0}} /\ recordsAmount = 0
       \/ DOMAIN records = {0, 1, 2, 3} /\ recordsAmount = 3

MainInv == MainRecords /\ PrintsWhatWasEntered

\* What the three operations on a record do to the table.
LEMMA Table ==
  ASSUME Inv
  PROVE  /\ \A i \in Indices : Enter(i) =>
              /\ DOMAIN records' = DOMAIN records \cup {i}
              /\ recordsAmount' = (IF recordsAmount < i THEN i ELSE recordsAmount)
              /\ status' = "running"
         /\ Leave => DOMAIN records' = DOMAIN records /\ recordsAmount' = recordsAmount
                       /\ status' = "running"
         /\ endAndPrintProfile =>
              /\ UNCHANGED <<records, recordsAmount>>
              /\ status' = (IF Printable THEN "printed" ELSE "undefined")
<1>1. ASSUME NEW i \in Indices, Enter(i)
      PROVE  /\ DOMAIN records' = DOMAIN records \cup {i}
             /\ recordsAmount' = (IF recordsAmount < i THEN i ELSE recordsAmount)
             /\ status' = "running"
  BY <1>1 DEF Enter, With, Amount
<1>2. ASSUME Leave
      PROVE  DOMAIN records' = DOMAIN records /\ recordsAmount' = recordsAmount /\ status' = "running"
  <2>1. Innermost \in DOMAIN records
    BY <1>2, OpenType DEF Leave, Innermost, Inv, TypeOK
  <2> QED
    BY <1>2, <2>1 DEF Leave, With
<1>3. endAndPrintProfile =>
        /\ UNCHANGED <<records, recordsAmount>>
        /\ status' = (IF Printable THEN "printed" ELSE "undefined")
  BY DEF endAndPrintProfile
<1> QED
  BY <1>1, <1>2, <1>3

LEMMA MainKeeps == ASSUME Inv, MainInv, [MainNext]_mainVars PROVE MainInv'
<1> USE DEF MainInv, MainRecords, PrintsWhatWasEntered, Entered, OnItsWay, AtItsEnd
<1>1. CASE pc = "elsewhere"
  <2>1. pc' = "elsewhere"
    BY <1>1 DEF MainNext, mainVars, Profiles, Enters, Leaves, Skips, Exit, At, Elsewhere,
       Estimate, Estimated, Listing, TimePasses, WaitsOn
  <2> QED
    BY <2>1
<1>2. CASE Enters
  <2>1. /\ recordsAmount \in Nat /\ 0 \in Indices /\ 1 \in Indices /\ 2 \in Indices /\ 3 \in Indices
    BY MainConstants DEF Inv, TypeOK
  <2>2. CASE At("args", "reading") /\ Enter(ReadEntireFile)
    <3>1. DOMAIN records = {} /\ recordsAmount = 0
      BY <2>2 DEF At
    <3>2. DOMAIN records' = {0} /\ recordsAmount' = 0 /\ status' = "running"
      <4>1. DOMAIN records' = DOMAIN records \cup {0}
            /\ recordsAmount' = (IF recordsAmount < 0 THEN 0 ELSE recordsAmount)
            /\ status' = "running"
        BY <2>1, <2>2, Table DEF ReadEntireFile
      <4> HIDE DEF MainInv, MainRecords, Entered
      <4> QED
        BY <3>1, <4>1
    <3> QED
      BY <2>2, <3>2 DEF At
  <2>3. CASE At("read", "validating") /\ Enter(Validation)
    <3>1. DOMAIN records = {0} /\ recordsAmount = 0
      BY <2>3 DEF At
    <3>2. DOMAIN records' = {0, 3} /\ recordsAmount' = 3 /\ status' = "running"
      <4>1. DOMAIN records' = DOMAIN records \cup {3}
            /\ recordsAmount' = (IF recordsAmount < 3 THEN 3 ELSE recordsAmount)
            /\ status' = "running"
        BY <2>1, <2>3, Table DEF Validation
      <4> HIDE DEF MainInv, MainRecords, Entered
      <4> QED
        BY <3>1, <4>1
    <3> QED
      BY <2>3, <3>2 DEF At
  <2>4. CASE At("validating", "parsing") /\ Enter(ParseHaversinePairs)
    <3>1. DOMAIN records = {0, 3} /\ recordsAmount = 3
      BY <2>4 DEF At
    <3>2. DOMAIN records' = {0, 2, 3} /\ recordsAmount' = 3 /\ status' = "running"
      <4>1. DOMAIN records' = DOMAIN records \cup {2}
            /\ recordsAmount' = (IF recordsAmount < 2 THEN 2 ELSE recordsAmount)
            /\ status' = "running"
        BY <2>1, <2>4, Table DEF ParseHaversinePairs
      <4> HIDE DEF MainInv, MainRecords, Entered
      <4> QED
        BY <3>1, <4>1
    <3> QED
      BY <2>4, <3>2 DEF At
  <2>5. CASE At("parsed", "summing") /\ Enter(SumHaversineDistances)
    <3>1. DOMAIN records = {0, 2, 3} /\ recordsAmount = 3
      BY <2>5 DEF At
    <3>2. DOMAIN records' = {0, 1, 2, 3} /\ recordsAmount' = 3 /\ status' = "running"
      <4>1. DOMAIN records' = DOMAIN records \cup {1}
            /\ recordsAmount' = (IF recordsAmount < 1 THEN 1 ELSE recordsAmount)
            /\ status' = "running"
        BY <2>1, <2>5, Table DEF SumHaversineDistances
      <4> HIDE DEF MainInv, MainRecords, Entered
      <4> QED
        BY <3>1, <4>1
    <3> QED
      BY <2>5, <3>2 DEF At
  <2>6. CASE At("summed", "answering") /\ Enter(ReadEntireFile)
    <3>1. DOMAIN records = {0, 1, 2, 3} /\ recordsAmount = 3
      BY <2>6 DEF At
    <3>2. DOMAIN records' = {0, 1, 2, 3} /\ recordsAmount' = 3 /\ status' = "running"
      <4>1. DOMAIN records' = DOMAIN records \cup {0}
            /\ recordsAmount' = (IF recordsAmount < 0 THEN 0 ELSE recordsAmount)
            /\ status' = "running"
        BY <2>1, <2>6, Table DEF ReadEntireFile
      <4> HIDE DEF MainInv, MainRecords, Entered
      <4> QED
        BY <3>1, <4>1
    <3> QED
      BY <2>6, <3>2 DEF At
  <2> QED
    BY <1>2, <2>2, <2>3, <2>4, <2>5, <2>6 DEF Enters
<1>3. CASE Leaves
  <2>1. /\ DOMAIN records' = DOMAIN records /\ recordsAmount' = recordsAmount
        /\ status' = "running"
    BY <1>3, Table DEF Leaves
  <2> QED
    BY <1>3, <2>1 DEF Leaves, At
<1>4. CASE At("ending", "printing") /\ endAndPrintProfile
  <2>1. DOMAIN records = {0} /\ recordsAmount = 0 => Printable
    BY DEF Printable
  <2>2. DOMAIN records = {0, 1, 2, 3} /\ recordsAmount = 3 => Printable
    BY DEF Printable
  <2> QED
    BY <1>4, <2>1, <2>2, Table DEF At
<1>5. CASE Skips \/ Exit \/ Estimate \/ Estimated
  BY <1>5 DEF Skips, Exit, Estimate, Estimated, At, vars
<1>6. CASE UNCHANGED <<vars, pc>>
  BY <1>6 DEF vars
<1>7. CASE At("start", "args") /\ beginProfile
  BY <1>7 DEF At, beginProfile
<1> QED
  BY <1>1, <1>2, <1>3, <1>4, <1>5, <1>6, <1>7 DEF MainNext, Profiles, Elsewhere,
     Listing, TimePasses, WaitsOn, mainVars

LEMMA MainAlways == MainSpec => [](Inv /\ MainInv)
<1>1. MainInit => Inv /\ MainInv
  BY Initially DEF MainInit, Init, MainInv, MainRecords, PrintsWhatWasEntered, Entered, OnItsWay,
     AtItsEnd
<1>2. Inv /\ MainInv /\ [MainNext]_mainVars => (Inv /\ MainInv)'
  BY Inductive, MainSteps, MainKeeps
<1> QED
  BY <1>1, <1>2, PTL DEF MainSpec

\* Only called with the wrong arguments does main follow NULL to print (main, lines
\* 96 and 162, and profiler.cpp:111): the records below the largest index it has come
\* to are all there, although the indices are not entered in their order.
THEOREM MainPrintsItsRecords == MainSpec => []PrintsWhatWasEntered
<1>1. MainInv => PrintsWhatWasEntered
  BY DEF MainInv
<1> QED
  BY <1>1, MainAlways, PTL

\* How many guards there are, by where main is.
Depth ==
  IF pc \in {"parsing", "exited", "summing", "answering"} THEN 2
  ELSE IF pc \in {"reading", "validating", "parsed", "summed", "answered"} THEN 1
  ELSE 0

\* The outermost is the one of the first reading, and then that of the validation.
GuardsInv ==
  pc # "elsewhere" =>
    /\ reentered = {}
    /\ Len(guards) = Depth
    /\ Depth > 0 => guards[1] = IF pc = "reading" THEN 0 ELSE 3

\* A guard is put after those there are, and the last one is taken away.
LEMMA Guarded ==
  ASSUME Inv
  PROVE  /\ \A i \in Indices : Enter(i) =>
              /\ Len(guards') = Len(guards) + 1
              /\ guards'[1] = (IF Len(guards) = 0 THEN i ELSE guards[1])
              /\ reentered' = (IF i \in Open THEN reentered \cup {i} ELSE reentered)
         /\ Leave =>
              /\ Len(guards') = Len(guards) - 1
              /\ Len(guards) = 2 => guards'[1] = guards[1]
              /\ reentered' = reentered
<1>1. guards \in Seq(Nat) /\ Len(guards) \in Nat
  BY Constants DEF Inv, TypeOK
<1>2. ASSUME NEW i \in Indices, Enter(i)
      PROVE  /\ Len(guards') = Len(guards) + 1
             /\ guards'[1] = (IF Len(guards) = 0 THEN i ELSE guards[1])
             /\ reentered' = (IF i \in Open THEN reentered \cup {i} ELSE reentered)
  <2>1. guards' = Append(guards, i) /\ i \in Nat
    BY <1>2, Constants DEF Enter
  <2>2. Len(guards') = Len(guards) + 1 /\ guards'[1] = (IF Len(guards) = 0 THEN i ELSE guards[1])
    BY <1>1, <2>1
  <2> QED
    BY <1>2, <2>2 DEF Enter
<1>3. ASSUME Leave
      PROVE  /\ Len(guards') = Len(guards) - 1
             /\ Len(guards) = 2 => guards'[1] = guards[1]
             /\ reentered' = reentered
  <2> DEFINE n == Len(guards) - 1
  <2>1. guards' = SubSeq(guards, 1, n) /\ n \in Nat
    BY <1>1, <1>3 DEF Leave
  <2>2. \A i \in 1 .. n : guards[i] \in Nat
    BY <1>1
  <2> HIDE DEF n
  <2>4. /\ Len(SubSeq(guards, 1, n)) = IF 1 <= n THEN n - 1 + 1 ELSE 0
        /\ \A i \in 1 .. n - 1 + 1 : SubSeq(guards, 1, n)[i] = guards[1 + i - 1]
    BY <2>1, <2>2, SubSeqProperties
  <2>5. Len(guards') = n /\ (n = 1 => guards'[1] = guards[1])
    BY <2>1, <2>4
  <2>3. Len(guards') = Len(guards) - 1 /\ (Len(guards) = 2 => guards'[1] = guards[1])
    BY <1>1, <2>5 DEF n
  <2> QED
    BY <1>3, <2>3 DEF Leave
<1> QED
  BY <1>2, <1>3

LEMMA GuardsKeep == ASSUME Inv, GuardsInv, [MainNext]_mainVars PROVE GuardsInv'
<1> USE DEF GuardsInv, Depth
<1>1. CASE pc = "elsewhere"
  <2>1. pc' = "elsewhere"
    BY <1>1 DEF MainNext, mainVars, Profiles, Enters, Leaves, Skips, Exit, At, Elsewhere,
       Estimate, Estimated, Listing, TimePasses, WaitsOn
  <2> QED
    BY <2>1
<1>2. CASE Enters
  <2>1. ASSUME NEW i \in {0, 1, 2, 3}, Enter(i), reentered = {},
               Len(guards) = 0 \/ (Len(guards) = 1 /\ guards[1] # i)
        PROVE  /\ Len(guards') = Len(guards) + 1 /\ reentered' = {}
               /\ guards'[1] = (IF Len(guards) = 0 THEN i ELSE guards[1])
    <3>1. i \notin Open
      BY <2>1 DEF Open
    <3>2. i \in Indices
      BY MainConstants
    <3> QED
      BY <2>1, <3>1, <3>2, Guarded
  <2>2. CASE At("args", "reading") /\ Enter(ReadEntireFile)
    <3>1. /\ pc = "args" /\ pc' = "reading" /\ Enter(0) /\ reentered = {}
          /\ Len(guards) = 0
      BY <2>2 DEF At, ReadEntireFile
    <3>2. reentered' = {} /\ Len(guards') = 1 /\ guards'[1] = 0
      BY <2>1, <3>1
    <3> QED
      BY <3>1, <3>2
  <2>3. CASE At("read", "validating") /\ Enter(Validation)
    <3>1. /\ pc = "read" /\ pc' = "validating" /\ Enter(3) /\ reentered = {}
          /\ Len(guards) = 0
      BY <2>3 DEF At, Validation
    <3>2. reentered' = {} /\ Len(guards') = 1 /\ guards'[1] = 3
      BY <2>1, <3>1
    <3> QED
      BY <3>1, <3>2
  <2>4. CASE At("validating", "parsing") /\ Enter(ParseHaversinePairs)
    <3>1. /\ pc = "validating" /\ pc' = "parsing" /\ Enter(2) /\ reentered = {}
          /\ Len(guards) = 1 /\ guards[1] = 3
      BY <2>4 DEF At, ParseHaversinePairs
    <3>2. reentered' = {} /\ Len(guards') = 2 /\ guards'[1] = 3
      BY <2>1, <3>1
    <3> QED
      BY <3>1, <3>2
  <2>5. CASE At("parsed", "summing") /\ Enter(SumHaversineDistances)
    <3>1. /\ pc = "parsed" /\ pc' = "summing" /\ Enter(1) /\ reentered = {}
          /\ Len(guards) = 1 /\ guards[1] = 3
      BY <2>5 DEF At, SumHaversineDistances
    <3>2. reentered' = {} /\ Len(guards') = 2 /\ guards'[1] = 3
      BY <2>1, <3>1
    <3> QED
      BY <3>1, <3>2
  <2>6. CASE At("summed", "answering") /\ Enter(ReadEntireFile)
    <3>1. /\ pc = "summed" /\ pc' = "answering" /\ Enter(0) /\ reentered = {}
          /\ Len(guards) = 1 /\ guards[1] = 3
      BY <2>6 DEF At, ReadEntireFile
    <3>2. reentered' = {} /\ Len(guards') = 2 /\ guards'[1] = 3
      BY <2>1, <3>1
    <3> QED
      BY <3>1, <3>2
  <2> QED
    BY <1>2, <2>2, <2>3, <2>4, <2>5, <2>6 DEF Enters
<1>3. CASE Leaves
  <2>1. /\ Len(guards') = Len(guards) - 1 /\ reentered' = reentered
        /\ Len(guards) = 2 => guards'[1] = guards[1]
    BY <1>3, Guarded DEF Leaves
  <2> QED
    BY <1>3, <2>1 DEF Leaves, At
<1>4. CASE At("start", "args") /\ beginProfile
  BY <1>4 DEF At, beginProfile
<1>5. CASE At("ending", "printing") /\ endAndPrintProfile
  BY <1>5 DEF At, endAndPrintProfile
<1>6. CASE Skips \/ Exit \/ Estimate \/ Estimated
  BY <1>6 DEF Skips, Exit, Estimate, Estimated, At, vars
<1>7. CASE UNCHANGED <<vars, pc>>
  BY <1>7 DEF vars
<1> QED
  BY <1>1, <1>2, <1>3, <1>4, <1>5, <1>6, <1>7 DEF MainNext, Profiles, Elsewhere,
     Listing, TimePasses, WaitsOn, mainVars

\* In haversine_distance no block is entered while it is open, and so each record is
\* exact: the block of the validation holds those of the parser, of the sum and of the
\* second file (main, lines 96 to 160), each with an index of its own.
THEOREM MainChargesExactly == MainSpec => []MainIsCharged
<1>1. MainInit => GuardsInv
  BY DEF MainInit, Init, GuardsInv, Depth
<1>2. Inv /\ GuardsInv /\ [MainNext]_mainVars => GuardsInv'
  BY GuardsKeep
<1>3. MainSpec => []Inv
  BY MainProfiles, Always, PTL
<1>4. MainSpec => []GuardsInv
  BY <1>1, <1>2, <1>3, PTL DEF MainSpec
<1>5. GuardsInv /\ ElapsedIsTheTimeInside => MainIsCharged
  BY DEF GuardsInv, ElapsedIsTheTimeInside, MainIsCharged
<1> QED
  BY <1>4, <1>5, MainProfiles, AccountsAreExact, PTL

-----------------------------------------------------------------------------
(***************************************************************************)
(* The waits.                                                              *)
(***************************************************************************)

\* Seconds and what is left of them make the clock.
LEMMA ClockRead == ASSUME NEW f \in Nat \ {0}, NEW c \in Nat PROVE f * (c \div f) + (c % f) = c
OBVIOUS

\* To cut a number to a width makes it no larger.
LEMMA CutIsLess ==
  ASSUME NEW u \in Nat \ {0}, NEW x \in Int
  PROVE  x % u \in Nat /\ (x >= 0 => x % u <= x) /\ (0 <= x /\ x < u => x % u = x)
OBVIOUS

\* A number is made of its quotient and of what is left, less than the divisor.
LEMMA Whole ==
  ASSUME NEW d \in Nat \ {0}, NEW x \in Nat
  PROVE  x \div d \in Nat /\ d * (x \div d) <= x /\ x < d * (x \div d) + d
OBVIOUS

\* Sides of an inequality are multiplied alike.
LEMMA Scaled == ASSUME NEW f \in Nat, NEW x \in Int, NEW y \in Int, x <= y PROVE f * x <= f * y
OBVIOUS

\* The units a wait has seen pass are time that has passed, but for less than one of
\* them, unless the clock was set; and the counts, but for less than one, too.
TimerInv ==
  /\ time \in Nat /\ clock \in Nat /\ counter \in Nat /\ sets \in Nat
  /\ OSWaitTime \in Nat /\ OSStart \in Nat /\ OSElapsed \in Nat
  /\ waiting \in {"no", "counting", "looping", "over"}
  /\ program = "none" <=> waiting = "no"
  /\ CPUStart = 0
  /\ waiting = "no" => time = 0
  /\ time <= counter
  /\ waiting \in {"no", "counting"} => OSElapsed = 0
  /\ waiting = "looping" /\ sets = 0 =>
       Unit * OSStart <= clock /\ clock < Unit * OSStart + Unit + time
  /\ sets = 0 => Unit * OSElapsed < time + Unit
  /\ waiting = "over" => OSElapsed >= OSWaitTime
  /\ waiting = "over" /\ program = "listing_73" =>
       CPUFreq = Frequency((counter \div Count) % U64)

LEMMA TimerBegins == TimerInit => TimerInv
BY TimerConstants DEF TimerInit, TimerInv

LEMMA TimerKeeps == ASSUME TimerInv, [MainNext]_mainVars PROVE TimerInv'
<1> USE TimerConstants
<1>1. /\ ReadOSTimer = clock \div Unit /\ clock \div Unit \in Nat
      /\ Unit * (clock \div Unit) <= clock /\ clock < Unit * (clock \div Unit) + Unit
  <2>1. /\ clock \div Unit \in Nat
        /\ Unit * (clock \div Unit) <= clock /\ clock < Unit * (clock \div Unit) + Unit
    BY Whole DEF TimerInv
  <2> QED
    BY <2>1, ClockRead DEF ReadOSTimer
<1>2. CASE UNCHANGED timerVars
  BY <1>2 DEF timerVars, measures, clocks, TimerInv, Frequency
<1>3. ASSUME NEW name \in {"listing_71", "listing_72", "listing_73", "EstimateCPUFrequency"},
             NEW wait \in Nat, Begin(name, wait)
      PROVE  TimerInv'
  <2>1. counter' \in 0 .. Count - 1
    BY <1>3 DEF Begin
  <2>2. counter' \in Nat /\ CounterNow' = 0
    <3>1. \A n \in Nat \ {0} : \A x \in 0 .. n - 1 : x \in Nat /\ x \div n = 0
      OBVIOUS
    <3> QED
      BY <2>1, <3>1 DEF CounterNow
  <2>3. waiting = "no" /\ time = 0 /\ time' = 0 /\ CPUStart' = 0
    BY <1>3, <2>2 DEF Begin, TimerInv
  <2> QED
    BY <1>3, <2>2, <2>3 DEF Begin, TimerInv
<1>4. \A ms \in Milliseconds \cup {1000} : WaitTime(ms) \in Nat
  <2> TAKE ms \in Milliseconds \cup {1000}
  <2> DEFINE x == IF ms >= 0 THEN (OSFreq * ms) \div 1000 ELSE -((OSFreq * (-ms)) \div 1000)
  <2>1. x \in Int
    OBVIOUS
  <2> HIDE DEF x
  <2>2. x % U64 \in Nat
    BY <2>1, CutIsLess
  <2> QED
    BY <2>2 DEF WaitTime, x
<1>5. CASE BeginListing \/ EstimateCPUFrequency
  <2>1. PICK name \in {"listing_71", "listing_72", "listing_73", "EstimateCPUFrequency"},
             wait \in Nat : Begin(name, wait)
    BY <1>4, <1>5 DEF BeginListing, EstimateCPUFrequency
  <2> QED
    BY <1>3, <2>1
<1>6. CASE Tick
  <2>1. time' = time + 1 /\ clock' = clock + 1 /\ counter' = counter + 1
    BY <1>6 DEF Tick
  <2>2. /\ waiting = "looping" /\ sets = 0 =>
             Unit * OSStart <= clock + 1 /\ clock + 1 < Unit * OSStart + Unit + (time + 1)
        /\ sets = 0 => Unit * OSElapsed < time + 1 + Unit
    BY DEF TimerInv
  <2> QED
    BY <1>6, <2>1, <2>2 DEF Tick, Waiting, TimerInv, measures
<1>7. CASE SetClock
  <2>1. sets' = sets + 1 /\ sets \in Nat /\ clock' \in 0 .. Highest /\ Highest \in Nat
    BY <1>7 DEF SetClock, TimerInv
  <2>2. sets' \in Nat /\ sets' # 0 /\ clock' \in Nat
    BY <2>1
  <2> QED
    BY <1>7, <2>2 DEF SetClock, Waiting, TimerInv, measures
<1>8. CASE StartWait
  <2>1. OSStart' = clock \div Unit
    BY <1>1, <1>8 DEF StartWait
  <2>2. clock < Unit * (clock \div Unit) + Unit + time
    BY <1>1 DEF TimerInv
  <2> QED
    BY <1>1, <1>8, <2>1, <2>2 DEF StartWait, TimerInv, clocks
<1>9. CASE Wait
  <2> DEFINE units == clock \div Unit
             passed == units - OSStart
  <2>1. OSEnd' = units /\ OSElapsed' = passed % U64 /\ units \in Nat /\ passed \in Int
    BY <1>1, <1>9 DEF Wait, Elapsed, TimerInv
  <2>2. Unit * units <= clock
    BY <1>1
  <2>3. ASSUME sets = 0 PROVE Unit * (passed % U64) < time + Unit
    <3>1. Unit * OSStart <= clock /\ clock < Unit * OSStart + Unit + time
      BY <1>9, <2>3 DEF Wait, TimerInv
    <3>2. clock < Unit * units + Unit
      BY <1>1
    <3> HIDE DEF units
    <3>3. Unit * passed = Unit * units - Unit * OSStart
      BY <2>1 DEF TimerInv
    <3>4. passed >= 0
      <4>1. SUFFICES ASSUME passed <= -1 PROVE FALSE
        BY <2>1
      <4>2. Unit * passed <= Unit * (-1)
        BY <2>1, <4>1, Scaled
      <4> HIDE DEF passed
      <4>3. Unit * passed <= - Unit
        BY <4>2
      <4> DEFINE a == Unit * units
                 b == Unit * OSStart
      <4>4. a \in Int /\ b \in Int /\ clock \in Int
        BY <2>1 DEF TimerInv
      <4>5. b <= clock /\ clock < a + Unit /\ a - b <= - Unit
        BY <3>1, <3>2, <3>3, <4>3
      <4> HIDE DEF a, b
      <4> QED
        BY <4>4, <4>5
    <3> HIDE DEF passed
    <3>5. passed % U64 <= passed /\ passed % U64 \in Nat
      BY <2>1, <3>4, CutIsLess
    <3>6. Unit * (passed % U64) <= Unit * passed
      BY <2>1, <3>5, Scaled
    <3> DEFINE a == Unit * units
               b == Unit * OSStart
               c == Unit * passed
               d == Unit * (passed % U64)
    <3>7. a \in Int /\ b \in Int /\ c \in Int /\ d \in Int /\ clock \in Int /\ time \in Int
      BY <2>1, <3>5 DEF TimerInv
    <3>8. d <= c /\ c = a - b /\ a <= clock /\ clock < b + Unit + time
      BY <2>2, <3>1, <3>3, <3>6
    <3> HIDE DEF a, b, c, d
    <3>9. d < time + Unit
      BY <3>7, <3>8
    <3> QED
      BY <3>9 DEF d
  <2>4. passed % U64 \in Nat
    BY <2>1, CutIsLess
  <2> HIDE DEF passed, units
  <2> QED
    BY <1>9, <2>1, <2>3, <2>4 DEF Wait, TimerInv, clocks
<1>10. CASE EndWait
  <2>1. CounterNow - CPUStart = counter \div Count
    <3>1. counter \div Count \in Nat
      BY Whole DEF TimerInv
    <3> QED
      BY <3>1 DEF CounterNow, TimerInv
  <2>2. CPUFreq' = Frequency((counter \div Count) % U64)
    BY <1>10, <2>1 DEF EndWait
  <2>3. Frequency((counter \div Count) % U64)' = Frequency((counter \div Count) % U64)
    BY <1>10 DEF EndWait, Frequency, clocks
  <2> QED
    BY <1>10, <2>2, <2>3 DEF EndWait, TimerInv, clocks
<1>11. UNCHANGED timerVars \/ BeginListing \/ EstimateCPUFrequency \/ Tick \/ SetClock \/ Waits
  BY DEF MainNext, Profiles, Estimate, Estimated, Listing, TimePasses, WaitsOn, mainVars
<1> QED
  BY <1>2, <1>5, <1>6, <1>7, <1>8, <1>9, <1>10, <1>11 DEF Waits

LEMMA TimerAlways == MainSpec => []TimerInv
<1>1. MainInit => TimerInv
  BY TimerBegins DEF MainInit
<1> QED
  BY <1>1, TimerKeeps, PTL DEF MainSpec

\* However the processor is taken away between the readings, a wait is short of its
\* units by less than one (the loops of profiler.cpp:37 and of the listings 71 to 73), as
\* long as nobody sets the clock.
THEOREM WaitsAreLongEnough == MainSpec => []WaitIsLongEnough
<1>1. ASSUME TimerInv PROVE WaitIsLongEnough
  <2> SUFFICES ASSUME waiting = "over", sets = 0
               PROVE  time + Unit > Unit * OSWaitTime
    BY DEF WaitIsLongEnough
  <2>1. Unit * OSWaitTime <= Unit * OSElapsed
    BY <1>1, TimerConstants, Scaled DEF TimerInv
  <2>2. Unit * OSElapsed < time + Unit
    BY <1>1 DEF TimerInv
  <2> DEFINE a == Unit * OSWaitTime
             b == Unit * OSElapsed
  <2>3. a \in Int /\ b \in Int /\ time \in Int /\ Unit \in Int
    BY <1>1, TimerConstants DEF TimerInv
  <2>4. a <= b /\ b < time + Unit
    BY <2>1, <2>2
  <2> HIDE DEF a, b
  <2>5. a < time + Unit
    BY <2>3, <2>4
  <2> QED
    BY <2>3, <2>5 DEF a
<1> QED
  BY <1>1, TimerAlways, PTL

\* A quotient of whole numbers, of which the dividend f * k is short of f times what it
\* counts by less than f counts, is short by no more than that and the rounding.
LEMMA QuotientIsClose ==
  ASSUME NEW f \in Nat \ {0}, NEW n \in Nat \ {0}, NEW k \in Nat, NEW e \in Nat \ {0},
         NEW x \in Int, x <= n * k
  PROVE  ((f * k) \div e + 1) * n * e > f * x
<1> DEFINE p == f * k
           q == p \div e
<1>1. p \in Nat
  OBVIOUS
<1>2. q \in Nat /\ p < e * q + e
  BY <1>1, Whole
<1> HIDE DEF q
<1>3. e * q + e = (q + 1) * e
  BY <1>2
<1>4. f * x <= f * (n * k)
  <2>1. n * k \in Int
    OBVIOUS
  <2> QED
    BY <2>1, Scaled
<1>5. f * (n * k) = n * p
  OBVIOUS
<1> HIDE DEF p
<1> DEFINE r == (q + 1) * e
<1>6. r \in Nat /\ p + 1 <= r
  BY <1>1, <1>2, <1>3
<1>7. (q + 1) * n * e = n * r
  BY <1>2
<1> HIDE DEF r
<1>8. n * (p + 1) <= n * r
  BY <1>1, <1>6, Scaled
<1>9. n * (p + 1) = n * p + n
  BY <1>1
<1> DEFINE a == f * x
           b == n * p
           c == n * r
<1>10. a \in Int /\ b \in Int /\ c \in Int
  BY <1>1, <1>6
<1>11. a <= b /\ b + n <= c
  BY <1>4, <1>5, <1>8, <1>9
<1> HIDE DEF a, b, c
<1>12. c > a
  BY <1>10, <1>11
<1> QED
  BY <1>7, <1>12 DEF a, c, p, q

\* And then the frequency listing_73 prints falls short of the counter's by no more than
\* a unit of the clock and a count are of the wait, at any rate of the counter, with the
\* clock and the counter anywhere in a unit and a count when it begins.
THEOREM FrequencyIsClose == MainSpec => []UnderestimatesByLittle
<1>1. ASSUME TimerInv PROVE UnderestimatesByLittle
  <2> DEFINE k == counter \div Count
  <2> SUFFICES ASSUME waiting = "over", program = "listing_73", sets = 0, OSElapsed # 0,
                      OSFreq * k < U64
               PROVE  (CPUFreq + 1) * Count * OSElapsed > OSFreq * (Unit * (OSElapsed - 1) - Count)
    BY DEF UnderestimatesByLittle
  <2>1. /\ OSFreq \in Nat \ {0} /\ U64 \in Nat \ {0} /\ Unit \in Nat \ {0} /\ Count \in Nat \ {0}
        /\ time \in Nat /\ counter \in Nat /\ time <= counter /\ OSElapsed \in Nat \ {0}
    BY <1>1, TimerConstants DEF TimerInv
  <2>2. k \in Nat /\ counter < Count * k + Count
    BY <2>1, Whole
  <2>3. CPUFreq = ((OSFreq * (k % U64)) % U64) \div OSElapsed
    BY <1>1 DEF TimerInv, Frequency
  <2> HIDE DEF k
  <2>4. k <= OSFreq * k
    BY <2>1, <2>2
  <2>5. k % U64 = k
    BY <2>1, <2>2, <2>4, CutIsLess
  <2>6. OSFreq * k \in Nat
    BY <2>1, <2>2
  <2>7. (OSFreq * k) % U64 = OSFreq * k
    BY <2>1, <2>6, CutIsLess
  <2>8. CPUFreq = (OSFreq * k) \div OSElapsed
    BY <2>3, <2>5, <2>7
  <2> DEFINE x == Unit * (OSElapsed - 1) - Count
             y == Count * k
             z == Unit * OSElapsed
  <2>9. Unit * (OSElapsed - 1) = z - Unit
    BY <2>1
  <2>10. x = z - Unit - Count /\ z < time + Unit
    BY <1>1, <2>9 DEF TimerInv
  <2>11. y \in Int /\ z \in Int
    BY <2>1, <2>2
  <2>12. counter < y + Count
    BY <2>2
  <2> HIDE DEF y, z
  <2>13. x \in Int /\ x <= y
    BY <2>1, <2>10, <2>11, <2>12
  <2> HIDE DEF x
  <2>14. x <= Count * k
    BY <2>13 DEF y
  <2>15. ((OSFreq * k) \div OSElapsed + 1) * Count * OSElapsed > OSFreq * x
    BY <2>1, <2>2, <2>13, <2>14, QuotientIsClose
  <2> QED
    BY <2>8, <2>15 DEF x
<1> QED
  BY <1>1, TimerAlways, PTL
=============================================================================
