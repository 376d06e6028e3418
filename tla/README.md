# A verification development for perfomance-aware-programming

The repository holds the programs of a course on performance: a simulator and a
disassembler of the 8086 (`src/8086sim`), and a pipeline that generates pairs of
points as JSON, reads them back with a tokenizer and a parser of its own, and sums
their haversine distances under a profiler (`src/haversine-distance`).  All of it is
sequential C and C++: one thread, no network, nothing that survives a run.  What is
hard in it is not concurrency but long sequences of legal steps: interpreter branches
that differ in one operand form, a file that is read backwards as well as forwards, a file
that is opened twice, a loop that waits for a clock somebody else sets,
buffers whose bound is checked far from where they are written, locals that live
across the turns of a loop, and inputs that never end a loop.

This directory holds TLA+ modules translated from that code, TLC runs over small
instances, and proofs of the main properties for every value of the constants.

## 1. Inventory

### 8086 simulator (`8086sim/8086sim.cpp`)
* State: `memory[65536]`, `registers[9]`, `flagRegisters[3]` (zf, sf, ip), `Offset`.
* Operations: load the file at address 0; then, until the byte at `Offset` is zero,
  decode an instruction with the binary library `sim86_lib`, advance `Offset` and ip,
  and run the branch of its operation and operand form.
* Interaction: `run-sim.sh` assembles a listing and compares what is printed with a
  file of `snapshots/`.
* Hard: thirteen branches with arithmetic of three widths; two program counters; a
  zero byte, which the program may overwrite, as the only end; addresses without bound.
* Correct when: results, flags, addresses and jumps are those of one machine; the two
  counters agree; listings end in the state of their snapshots.

### 8086 disassembler (`8086sim/8086decoder.c`)
* State: the file position, and fields of the instruction that are locals of `main`
  and so survive to the next turn; the text written.
* Operations: one turn of the loop for each of five instruction forms, a skip, an end.
* Interaction: `run.sh` assembles a listing, disassembles it and compares the texts.
* Hard: the length of an instruction is found while it is read; one wrong length
  shifts everything after; fields that are stale; a `char` that is compared with EOF.
* Correct when: what was assembled is what is printed, instruction by instruction.

### Tokenizer (`haversine-distance/json_parser/tokenizer`)
* State: the stdio stream with its pushed-back character, and the buffer of tokens.
* Operations: a turn of `lexer()` for each kind of character.
* Hard: `ungetc`, then a match that reads ahead, then `fseek` back by a count: at the
  end of the file, at its beginning and after a keyword the counts are off by one.
* Correct when: tokens are the lexemes of the file, the buffer has room, reading ends.

### Parser (`haversine-distance/json_parser/parser`)
* State: the current token, the tree, and the recursion `parseValue` - `parseObject` -
  `parsePair` - `parseArray`.
* Hard: the store of an entry and the check of its capacity are separated by the
  recursive read of the next entry; `peek` has no bound; keys kept across recursion.
* Correct when: the tree spells the tokens, stores have room, JSON is accepted.

### Haversine pipeline (`haversine_distance.cpp`), buffer (`buffer/`)
* State: the input buffer, the buffer of pairs sized from the input, counts and sums.
* Operations: read the file, tokenize, parse, copy pairs, sum, compare with answers.
* Hard: `MaxPairCount` sizes the buffer and bounds nothing; the size it comes from is
  of the file the name stood for before the second `fopen`; values are taken by
  position out of unions; every stage uses what the one before left after a failure, and
  a `Count` of zero is the only word of one.
* Correct when: pairs written fit the buffer, each pair is the four numbers of its
  element, the reference sum is the last answer.

### Profiler (`metrics/profiler.cpp`)
* State: the global record table with its size and largest index, one start time per
  record.
* Operations: begin, enter and leave a guarded block, end and print, and at the end of
  that wait for the clock to move on by 100 (`EstimateCPUFrequency`).
* Hard: the table grows on the wrong condition; a block that is entered again inside
  itself; indices never entered; the wait is on the time of day, which can be set back,
  and the parameter is named in milliseconds and compared with microseconds.
* Correct when: elapsed times add up within the total, `main` is charged with all of its
  blocks' time, accesses stay in the table, the wait is as long as asked for, to within
  what the clock can tell, and ends.

### Timer listings (`metrics/listing_70.cpp` to `listing_73.cpp`)
* State: a program's start, end and elapsed readings of the clock and of the counter.
* Operations: wait a second, or the milliseconds of the argument, and print the counter
  per second.
* Hard: two clocks that cannot be read at once and are told in whole units; unsigned
  differences of a clock that may go back; a product that may overflow before the quotient
  is taken.
* Correct when: the wait is short by less than a microsecond and ends, and the frequency is
  below the true one by no more than a microsecond more or less accounts for.

### Pair generator (`haversine_distance_json_generator/`)
* State: the random series, the current cluster, the shrinking coordinate bounds, two
  open files.
* Hard: the countdown of clusters, the bounds lowered for every cluster, the separator
  after all pairs but the last, numbers the tokenizer cannot read.
* Correct when: bounds stay positive, the file is read back pair for pair.

### The rest
`haversine-formula` is floating point; `metrics/listing_75.cpp` is one comment; the printing
helpers have no state.

## 2. Modules

| module | models or proves |
|---|---|
| `Sim86` | the simulator: start up, each branch of the loop, `Skip`, `Halt`, `Overrun` |
| `Isa86` | the abstract 8086 a simulator promises: one rule for operands, results, flags |
| `Sim86_isa` | which instructions are executed in full, and the refinement `ImplementsIsa` up to the first that is not |
| `Sim86_assembler` | programs for the two MC modules |
| `MC_Sim86`, `MC_Listings` | small programs of all forms; the listings and their snapshots |
| `Sim86_proofs` | proofs |
| `Disasm86` | the disassembler, a turn of its loop an action |
| `Disasm86_code` | the assembler's encoding of the forms it decodes, and `AssembledIsPrinted` |
| `MC_Disasm86`, `Disasm86_proofs` | runs, proofs |
| `Lexer` | the tokenizer |
| `Lexemes` | what a file is cut into, and the promise that it is read so |
| `MC_Lexer`, `Lexer_proofs` | run, proofs of both |
| `Parser` | the parser |
| `Parser_spelling` | the promise that the tree is the text, with an auxiliary variable |
| `MC_Parser`, `Parser_proofs` | run, proofs of both |
| `Haversine`, `MC_Haversine`, `Haversine_proofs` | `main` of the pipeline over instances of `Lexer` and `Parser` |
| `Profiler`, `Profiler_proofs` | the profiler with any nesting of guards |
| `Timer` | waiting on the clock: `EstimateCPUFrequency` and listings 70 to 73 |
| `Profiler_main` | the programs: `main` of `haversine_distance.cpp` with its guards in order and its wait at the end, other programs with guards in any order, and the listings |
| `MC_Profiler` | values of the argument of listing 73 |
| `Generator`, `Generator_proofs` | the pair generator |
| `Roundtrip`, `MC_Roundtrip`, `Roundtrip_proofs` | `Generator` and then `Haversine` on the file it wrote; run, proofs |
| `Transfer` | what the two promise together: items sent, closed, received in order, and summed when all are there |

How they compose: `Roundtrip` extends `Generator` and instances `Haversine`; `Haversine`
instances `Lexer` and `Parser` (all of them through their proof modules, so that what is
proved of them can be cited) and gives the parser `Types`, the types of the tokens the tokenizer
has made; `Profiler_main` extends `Profiler` and `Timer`; `Sim86_isa` instances `Isa86`
and `Roundtrip` instances `Transfer`, both as specifications to implement.

Every module keeps the code's names where it can, and `PROJECT.json` maps each
definition to the lines it stands for.  A definition whose comment begins with
"Slip" is a plausible bug in the definition that follows it; no specification uses
it.  `PROJECT.json` pairs each slip with a property, and putting the slip in the
place of the definition makes TLC violate that property: each property depends on the
code it is about.

### Simulator
`Decode`, a constant function from the first byte of an instruction to its operation,
size and operands, stands for the library.  An operand is the union of the header:
`Index` is its first word, whichever member is meant, as the code itself reads
`Register.Index` for immediates.  `Byte`, `Word` and `Dword` take their moduli from
constants, so that the proofs hold for 256, 65536 and 2^32 and TLC can use smaller
ones.  `status = "undefined"` is a state after an access outside the arrays; the model
says nothing beyond it.  `InBounds` names the accesses of each branch.  Printing is
left out, except that the final state is compared with the snapshots'.

The refinement is of `Isa86` with the instructions it knows as a constant, `Known`: here
`FaithfulBytes`, those whose branch does all of the work (no store from a register with a
displacement, no `cmp` with an immediate beyond a word, no arithmetic on memory).  Programs
and decoders have the others too, and `Isa86` promises nothing from the first of them on
(`Wander`): the history variable `executed` of `Sim86`, in no guard, remembers what has been
executed, and `Lost` that one of it was not known.  So the simulator is held to the abstract
machine in every program, and up to where the code stops being one.

### Disassembler
`out` holds the lines as operations and operands rather than text; a memory operand is
its rm and displacement because the text shows nothing else (a displacement of zero
prints as none).  `ByteAt` and `Read` are `loadInstructionByte` with the end of the
file as the byte 255.  The variables `byte4`, `dispLo`, `dispHi`, `data1` and `data2`
are the locals that some branch reads without having set them in the same turn.
The constant `Sources` gives files their programs, each line with its bytes and the
number of the bytes before it; `SourceReproduced` is about all the files it has.

### Tokenizer
The stream is `pos` and `unread`; `unread` is a pushed-back character that differs
from the one of the file, and `CharAt`, `Seek` and `After` say what `getc`,
`fseek(SEEK_CUR)` and the end of the file do to it.  Characters are the classes the
loop tells apart: two digits, one space, one character of strings ("x"), one byte above
127 ("~").

A lexeme (`Lexemes`) is a stretch of the file, by where it begins and ends, of which a rule
for each kind says what it consists of and, for a number, what follows.  The constant
`Lexemes` gives files their lexemes and the assumption `FilesAreCut` says that these are all
of the file, one behind the other, or all of it up to a character that `lexer()` does not
know and ends at (`Unknown`).  `TokensAreTheLexemes` is stated without recursion: the
stream stands where some lexeme ends, and the tokens are the lexemes up to there but for the
blanks, each at the number `Count` gives it.

### Parser
The calls that have not returned are `stack`; `point` says where the innermost one is;
`values` is the heap, an allocation named by the number of the token it begins at.
`Open`, `Finish`, `Comma` and `Close` serve objects and arrays, whose functions are
line for line alike, except that only arrays look for a closing bracket first.

That the tree is the text is a statement about values within values.  `Parser_spelling` makes
it of each value by itself, with the auxiliary variable `last`: the token with which a value
that has been returned ended.  `last` is set when a value is returned, in no guard, and so
takes nothing from and adds nothing to what the parser does; with it "the next entry begins
behind the last" needs no recursion.  `TreeSpellsTheTokens` says of every value returned that
it is its tokens, of every open container that it is its tokens so far, and of the calls on
the stack that each is the next entry of the one around it.

### Pipeline
`phase` is where `main` is; `Lex` and `Parse` are steps of the tokenizer and the
parser with everything else unchanged.  A number keeps its text: `Strtod` is the part
of it `strtod` takes (the tokenizer lets a number have several points), and distances
and sums are functions of the pairs.  `Misread` and `CollectWrongly` are the uses of a
union as what it is not, and writes past `Pairs`; they end in "undefined".
`MayBeNULL` says for which values the member `array` of the union can be NULL: the
members share their bytes, `null` sets none and `false` one.

A `buffer` is its `Count`: `input` is that of the input and `room` that of the pairs.
`ReadEntireFile` may yield nothing, whatever the size: the file may not open, or not be
read in full, or there may be no memory for it.  `main` opens the input a second time for
the tokenizer, so `input` is the size of `file` or one of `OtherSizes`, what the name
stood for before; this is also what `stat` leaves in `Stat` when it fails.  A second
`fopen` that fails ends in "unopened": `fgetc` of NULL.  `NoInput` is what `main` does
with fewer than 24 bytes or without memory for the pairs: nothing, and it returns 0.
Both buffers are freed before the end; the one of the answers never is.

The 24 bytes for a pair are not a bound: four empty keys and one-digit numbers make an
element of 21, and such a file overfills `Pairs`.  The run has such files; with keys as
the generator writes them it can happen only if the file has grown between the two
openings (`FormatIsWithinBounds`).

The format of an input is said of its lexemes: an object of one entry, an array of objects of
four numbers each with at most one point.  The constants `Lexemes` and `Elements` give files
their lexemes and the texts of their numbers, and the assumption `Format` says that the
lexemes are those of the elements: the n-th begins at token `18 * n - 13`.  `HasFormat`
takes lexemes and elements as arguments, since in `Roundtrip` they are not known before the
file is written; no constant could give them.  What the auxiliary
variable of the parser remembers is in such a file known beforehand, so `Haversine` has no
such variable: the instance of the parser is given the function `EndOf` of the values
returned in its place, and every step of the parser is shown to keep to it.

### Profiler
`records` is the part of the table that is not NULL.  `now` is the last reading of the
time stamp counter.  `inside` and `reentered` are history variables the properties
compare the records with.  A guard whose index is past the table ends in "overrun",
printing a record that is NULL in "undefined".  `PROFILER_DATA` itself comes from
`malloc` before `main` and is read without being set; it is the first use of the heap
and taken to be zero.  `Profiler_main` fixes `__COUNTER__` at the four guards of the
file (lines 12, 44, 62, 109) and the order in which `main` passes them; a usage error
follows `records`, which is then NULL, and `PrintsWhatWasEntered` says that this is
the only way to follow NULL.

A block that is entered while it is open overwrites its start, and the time of the inner
guard is charged twice.  `ElapsedIsTheTimeInside` and `NoMoreThanTheTotal` are about the
blocks to which this has not happened; `MainIsCharged` says that in `main` it happens to
none, although `main` reads the answers by the function it read the input by, inside
another block.

### Timer
Time passes in parts, finer than anything that is read of it.  `time` counts those since a
program's first reading; `clock` and `counter` are the time of day and the counter in parts,
of which `ReadOSTimer` tells the whole units (`Unit` parts, a microsecond) and `CounterNow`
the whole counts (`Count` parts).  `Begin` puts the clock anywhere up to `Highest` and the
counter anywhere in a count, so that a program may begin late in a microsecond, between two
counts, or both.  `Tick` moves all three; `SetClock` puts the clock anywhere up to `Highest`,
at most `MaxSets` times.  Each reading and each turn of a loop is a step of its own, between
which time may pass.  The four programs differ in how long they wait, whether they read the
counter, and whether they keep the quotient: `EstimateCPUFrequency` assigns it to
`CPUElapsed` and returns the zero `CPUFreq` was set to, which its caller ignores.
Differences are unsigned (`% U64`): a clock set to before the first reading ends a wait at
once.  Nothing in the repository says otherwise, so `WaitIsLongEnough` and
`UnderestimatesByLittle` are about runs in which the clock is not set, and `WaitEnds` about
all.

Because the clock is told in whole units, `OSElapsed` can exceed the time that has passed by
almost one, when the first reading is at the end of a unit and the last at the beginning of
one.  A wait may therefore be short by almost a microsecond, and listing 73 may print less
than the true frequency: TLC finds runs of both.  What holds, and is
proved, is how far it can go: `time + Unit > Unit * OSWaitTime`, and `CPUFreq` is no less
than the frequency with one unit taken from `OSElapsed`, one count from the counter and the
remainder from the quotient.

`WaitIsLongEnough` is about the units the code compares with.  That for
`EstimateCPUFrequency` these are not the milliseconds of its parameter's name is
`MillisecondsAreWaited`, which the run `Profiler_estimate` finds violated.

### Generator
A coordinate is a whole number of degrees and a random number any choice of the
constant operator `RandomInRange` between its bounds, given in either order: a small
radius about a centre above the bound turns the range around.
`RandomInRange(&series, --maxAllowedX, maxAllowedX)` changes a variable in one argument
and reads it in the other, in an order C++ does not fix; `Center` has both outcomes.
`json` is the list of what `fprintf` was called with.  `Roundtrip` turns it into the
characters of the file (a degree as so many ones) and keeps what
`ReferenceHaversine` was called with in the history variable `distances`.  A step of the
generator writes up to two parts of the list (`PartText`), a pair and what follows it.  The
shortest text of a pair has 44 characters; the assumption `ShortEnough` is that
`MinimumJSONPairEncoding`, 24 in the code, is no more.

Two things that are visible in these modules and that no line of the repository
contradicts: the reader names the four numbers X0, Y0, X1, Y1 while the writer has
written x0, x1, y0, y1, and both hand them to `ReferenceHaversine` in the same wrong
order, so that the sums agree (`TransfersThePairs`); and a file of uniform pairs, which the
generator writes by default, stops the tokenizer at its first minus sign, so that only
files of clusters are read (`ClustersAreRead`).

The refinement `TransfersThePairs` maps the calls of `ReferenceHaversine` to the items
sent, the end of the generator to the closing, `pairs` to the items received, and the sum
with its verdict to the outcome.  Everything between, the characters, the tokens and the
tree, is stuttering.  It says in one formula that no pair is read before the last is
written, none is lost, doubled or out of order, nothing is summed from part of a
file, and the answers are found to be as many as the pairs.  It has no liveness: a
file of uniform pairs need not be received.

## 3. Runs

| run | what it shows | bounds |
|---|---|---|
| `Sim86` | `TypeOK`, `IpTracksOffset` and the refinement of `Isa86` over every form, handled or not | memory of 64 cells of 32 values; two instructions of set up and up to three of 26, of which 17 are executed in full; a file too long |
| `Listings` | snapshots of 49, 51, 52, 53, 54; code never overwritten; programs end | memory of 4096; the image of 54 is 4 by 4 |
| `Lexer` | tokens, room, where reading never ends | every file of up to 4 of 15 lexemes; capacity 1 growing by 1; `MaxTokens` 7 |
| `Parser` | tree, room, acceptance, every step nearer to the end | capacity 1; documents two containers deep, with up to five entries; any 3 tokens |
| `Disasm86` | lines in, lines out, also of files cut within an instruction; ends | programs of two lines of every form, 15 lines of listing 39, both cut at any byte, any 4 bytes out of 13 |
| `Haversine` | pairs are the elements; buffers; keywords; the reference sum; ends | files in the format of up to 3 elements of two kinds with and without blanks; some 25 that differ in one place; sizes before of 23, 24 and 71 bytes (none, one and two pairs); answers files of 8 sizes |
| `Profiler` | elapsed times under any nesting and repetition; what `main` prints was entered and none of its blocks is entered while open; waits are short by less than a unit and end, the frequency is close | two indices and one past the table with a counter up to 8 in steps of 1 and 3; the four guards of `main` with a counter that outlasts every path; clocks of two units to a second, three parts to a unit and two to a count, so that their boundaries fall together, apart and in between; set up to twice, waits of 0, 1, 2 and 3 units and one of a negative number, 64 bits as 4 |
| `Roundtrip` | generator: bounds, globe, signs, list; written and read: clusters read, refinement of `Transfer` | up to 9 pairs (10 is refused) on a globe of 5 by 4 degrees, divisor 3; draws are the upper end of a range, and the lower one if not above zero; files of up to 2 pairs are read |

The bounds are enough because: a branch of the simulator or disassembler depends on
one instruction and what the one or two before it left; buffers start at capacity 1,
so that growth happens at once and repeatedly; files of four lexemes put every
lexeme at the beginning, in the middle, at the end and after every other; and
documents two deep put every container inside every container, first and last.
A width of 4 bits lets the product of listing 73 overflow and the difference wrap; a wait
of up to three units has turns of the loop before, at and after its end.
`MaxTokens` is there because a file that ends in a digit yields tokens with no end; no file of
the run that ends reaches it, four lexemes being at most four tokens.

For the pipeline, three elements fill a container of capacity 2 past its growth, and
one file for each place a document can differ in covers each branch of
`ParseHaversinePairs`.  Two indices are an
inner and an outer guard, each repeated or inside itself.  A
divisor of 3 gives the generator up to two clusters within nine pairs, the second with
lowered bounds; the theorem has all divisors and counts.  Two pairs have a first, a
last and a separator.

`CHECK_DEADLOCK FALSE` is set everywhere since all these programs stop.

### Disagreements with the repository's own words
Each is shown by the counterexample TLC ends the run with: `Listings_stores` ends with bx
and cx wrong, `Disasm86_listing` with all three lines.

| run | the repository says | the code does |
|---|---|---|
| `Listings_stores` | `54.asm:17`: `mov word [bp + 2], dx ; Blue` | the displacement of a store from a register is dropped; in the image all of it falls on the red byte |
| `Listings_stores` | `52.asm:12`, `:20` store and load a word | one byte is stored and loaded |
| `Disasm86_listing` | `40.asm:8`: `mov ax, [bx + di - 37]` | prints `+ 219` |
| `Disasm86_listing` | `40.asm:17`: `mov bp, [5]` | prints `[bp]` and reads the address as instructions |
| `Disasm86_listing` | `41.asm:9`: `add si, 2` | takes the next byte, here the end of the file, for the high byte: `add si, 65282` |
| `Profiler_estimate` | `profiler.hpp:15`: `uint64_t EstimateCPUFrequency(uint64_t msToWait);` | `profiler.cpp:37` compares the argument with microseconds, which `listing_73.cpp:24` makes of its milliseconds first: the wait of 100 is over after 100 microseconds |
| `Profiler_table` | `profiler.cpp:61`: `Allocate records buffer dynamically` | the table of 64 grows only once the largest index exceeds 64: index 64 itself is past it |

`SnapshotsReproduced` passes although `Listings_stores` fails: the snapshots hold
registers and flags only, and the listings load no word above 255, so the tests cannot
see either.

One disagreement is between two parts of the code, and no line of documentation, comment or
test speaks for either, so no run is said to fail for it.  `parseValue` takes `true`, `false`
and `null` wherever a value may be (`parser.cpp:243` to `267`), so also inside objects and
arrays; but the tokenizer puts the keyword's first letter back once more after it has been
read (`tokenizer.cpp:192`, `203`, `212`), so that no token but the same keyword again is ever
read after it (`KeywordsEndReading`), and no container with a keyword in it is closed.  This
is also all that keeps `ParseHaversinePairs`, which never looks at a value's type, from
reading a keyword as a number: `NoSumAroundKeywords` holds for that reason, and its slip is
the tokenizer repaired and the collection not.

### Fairness
Each `FairSpec` is `Spec /\ WF_vars(Next)`: one thread runs a loop in which nothing
blocks.  A file is read and not waited for.  `MainSpec` has weak fairness of
`TimePasses` and of `WaitsOn` apart: time goes on, and the operating system does not keep a
program that spins from the processor for ever; neither is assumed of the other, and
nothing is assumed of who sets the clock.  `WaitEnds` is about waits of at most
`(Latest - Highest) \div Unit` units, those the bounded clock can reach; so it leaves the
wait of a negative argument out, which in the code is nearly 2^64 microseconds.

Liveness, checked by TLC only: `Stops` (the pipeline, for every file the tokenizer
ends on), `Terminates` (listings), `ReachesTheEnd` (the
disassembler, for every file), `DocumentsAccepted` (the parser), `WaitEnds` (the waits), `EndsOrDeadEnd`
(the tokenizer: every file is read to its end or to an invalid character, or comes to
`AtDeadEnd`, from where reading never ends: `DeadEndsAreForever`, which is proved).

## 4. Proofs

All for every value of the constants under the named assumptions of the modules.

| theorem | statement | argument |
|---|---|---|
| `TypeCorrect`, `CountersAgree` | `Spec => []TypeOK`, `[]IpTracksOffset` | together inductive (`Inv`): `Offset` grows without bound while ip is reduced, so each branch needs `(a % W + s) % W = (a + s) % W` (lemma `ModAdd`); a jump sets both |
| `Implementation` | `Spec => ImplementsIsa` | for every decoder; `IsaInv` adds to the types and counters that `registers[0]` is 0 until `Lost` (`ZeroRegister`), without which the branches that leave out the second register would not be the sum of all three parts; then branch by branch to `ISA!Operate`, `ISA!Branch`, `ISA!Ignore`, `ISA!Stop`, `ISA!GiveUp`, and, once `Lost`, to `ISA!Wander` |
| `LexerTypes`, `TokensFit` | `[]TypeOK`, `[]WithinCapacity` of the tokenizer | inductive together |
| `KeywordsEndReading` | `[]KeywordIsTerminal` | strengthened by `AtKeywordEnd`, which says what is left in the stream after a keyword: its first letter over its last, or letters that begin nothing; a lemma of `KeywordsAreNeverSummed`, listed because it is what the disagreement above rests on |
| `DeadEndsStay` | `Spec => DeadEndsAreForever` | from each kind of dead end the match fails where it failed before, and the way back leads to where it began; a number at the end of the file gives the same token again |
| `LexemesAreRead` | `[]TokensAreTheLexemes` | `ReadAs`: the stream is at the end of the n-th lexeme; a lemma for each kind of lexeme says which action is enabled there, that no other is, and that it ends at the end of the next.  How far a match goes is a cardinality (`Run`), found by the least character that does not match |
| `ParserTypes`, `EntriesFit` | `[]TypeOK`, `[]RoomForTheEntry` | inductive together; that open containers begin at rising tokens, part of `TypeOK`, tells a container from those around it when its entries change |
| `ParserComesToAnEnd` | `Spec => NearerToTheEnd` | by the measure `Left`: every action takes a token, looks past a bracket or ends the parser; so it makes at most two steps for a token and one more |
| `TreeIsTheText` | `SpellingSpec => []TreeSpellsTheTokens` | inductive with `TypeOK` (`SpellingInv`): a value ends no earlier than it begins and before the next begins (`LastType`), so that what is opened, returned or grown is none of the values spelled so far |
| `FieldsFit` | `[]TypeOK` of the disassembler | byte arithmetic of the fields |
| `LinesAreReproduced` | `Spec => AssembledIsPrinted` | a lemma per form: the bytes of the form select one branch, the fields come out of the bytes as they were put in, and the line follows, whatever the stale locals hold |
| `ProgramsAreReproduced` | `[](OfForms(Sources[file]) => SourceReproduced)` | the position is where some line of the source begins, and `out` the lines before; a step is one line of the program (by the lemmas above), or the rest that makes one line more.  `OfForms` says that each line is one the disassembler is meant for; the failing run is about lines that are not |
| `TokenizerInside` | `Haversine!Spec => L!Spec` | every step of the program is one of the tokenizer or leaves its variables alone |
| `TokensAndEntriesFit` | `[](L!WithinCapacity /\ P!RoomForTheEntry)` | the invariants of both modules carried over; the parser's begins to hold for the tokens when the tokenizer is done |
| `KeywordsAreNeverSummed` | `[]NoSumAroundKeywords` | from `KeywordIsTerminal`: tokens before `current` have a keyword only if nothing but keywords follow, and then no container is closed; strengthened by `DocumentInv` |
| `ReferenceIsLast` | `[]ReferenceIsTheLastAnswer` | division by eight, for every size of the answers file |
| `PairsAreRead`, `FormatFits` | `[]PairsAreTheElements`, `[]FormatIsWithinBounds` | `LexemesAreRead` gives the types and texts of the tokens (`FormatTypes`); from `SpellingInv` there are four places for the parser to be in, with at most three containers open (`Whereabouts`), where the token it looks at is one it takes (`NoError`) and values end where `EndOf` says (`Remembers`); so it ends with the document, whose elements have four numbers each (`DocumentRead`, `ElementRead`); `FormatInv` then counts the pairs against room and file |
| `ProfilerTypes`, `AccountsAreExact`, `NoneExceedsTheTotal` | `[]TypeOK`, `[]ElapsedIsTheTimeInside`, `[]NoMoreThanTheTotal` | inductive together (`Inv`): `Started` (a record's start is not after now), `OneGuard` (a block outside of `reentered` has one guard at most), `WithinProfile` (no block is open for longer than the profile) |
| `MainProfiles` | `MainSpec => Spec` | every step of a program is one of the profiler or leaves its variables alone, so that all of the above holds in the programs |
| `MainPrintsItsRecords` | `MainSpec => []PrintsWhatWasEntered` | `MainRecords`: which records there are at each `pc` (`Entered`), so that the largest index has all below it when the table is printed |
| `MainChargesExactly` | `MainSpec => []MainIsCharged` | `GuardsInv`: the guards open at each `pc` (`Guarded`) are of different blocks, so that `reentered` stays empty in `main` |
| `WaitsAreLongEnough`, `FrequencyIsClose` | `MainSpec => []WaitIsLongEnough`, `[]UnderestimatesByLittle` | `TimerInv`: while the clock is not set, `OSElapsed` units are less than `time` and one unit more, and when the wait is over the counter has moved by `time`; a difference of naturals reduced modulo the width is no larger (`CutIsLess`), truncation is by less than a unit or a count (`Whole`), and so is the quotient (`QuotientIsClose`) |
| `BoundsPositive` | `[]BoundsStayPositive` | `ClustersInv` counts: `clusters * (clusterCountMax + 1) = i + clusterCountLeft`; with `pairCount < ClusterDivisor * clusterCountMax` there are at most `ClusterDivisor` clusters (lemmas `DivisionRoundsDown`, `FewClusters`) |
| `PairsOnTheGlobe`, `NoNegativeCluster` | `[]OnTheGlobe`, `[]ClustersNotNegative` | `AreaInv` places centre and radius of the cluster; `DegreeDrawn` bounds what `RandomDegree` returns |
| `FileIsAList` | `[]AList` | `FileInv`: with `i` pairs written the file is the first `PartsSoFar` of its parts, each at its place (`Part`), and no separator follows the last pair |
| `ClustersRead` | `RoundtripSpec => []ClustersAreRead` | `TogetherInv`: while it is written the file is some tokens, known by what has been sent (`Written`), or those up to its first minus sign, and the reader rests; then it is in the format (`ReadBy`), so that `FormatInv` of the pipeline holds from there on.  No coordinate of a cluster is negative (`NoNegativeCluster`), so there is no minus sign, and `n` pairs of 44 characters leave room for `n` |
| `PairsAreTransferred` | `RoundtripSpec => TransfersThePairs` | from the same invariant step by step: `Write` is `Send`, `Close` or a stutter, `Read` is `Receive`, `Sum` or a stutter.  In a file cut short at a minus sign the first brace is never closed (`Unclosed`); the parser, which closes no more than it has opened (`Balanced`), does not come to its end, and nothing is collected |

`FaithfulBytes` is part of the statement of `Implementation` and not an assumption: a program
may have other instructions, and the theorem says of it all that happens before the first.
The failing run `Listings_stores` is about two of the others.

The installed provers cannot use the induction rules of the library, which take an operator.
Where an argument is an induction over a number the proofs take the least counterexample
instead, or find the number by a cardinality; where it is one over nested data the
statement has been made of each part by itself (`last`, `Lexemes`, `Sources`), so that the
induction is the one over the steps of the program.

The text the generator writes is handled in the same way: `Piece` says of characters which
tokens they are, whatever is put before and behind them, two pieces joined are a piece, and a
file grows by a piece a step.

What stays with TLC: liveness and `ENABLED`; and the snapshots and `ProgramIntact`, which are
about five programs and have no constants.

## 5. Not modelled
* Failure of `malloc` and `realloc` in the tokenizer, the parser and the profiler, and
  memory that is never freed.  (Of the buffers of the pipeline it is modelled.)
* Text: the traces and listings printed, and float formatting.
* `haversine-formula`, which is a pure function of floating point numbers, and the sums.
* The decoder library, beyond the type of what it returns.
* What a program does after undefined behaviour.  The function of the generator ends without
  the value it should return, after both files are closed; its caller does not use it.
* The random series of the generator (`RandomU64`, `Seed`): what it draws is any choice.
* `IsInBounds` and `AreEqual` of the buffer, and the printing helpers of the parser,
  which nothing calls.
* The arguments of the programs, beyond how many there are and what `atol` makes of the one
  of listing 73.
* The rows of the disassembler's table for sub and cmp, which no branch uses, and the read
  past a row at `8086decoder.c:888`, whose value decides nothing.

## 6. Plan
Done: every component of the inventory but the formula.  What is left:
1. An abstract ledger of the time inside each block and `Profiler` shown to implement it,
   in place of `ElapsedIsTheTimeInside`.
2. A termination measure of the tokenizer outside of its dead ends.
3. The stale operands of group 100000 in the disassembler against what the instruction
   set says of them.
