--------------------------- MODULE Disasm86_code ---------------------------
(***************************************************************************)
(* What the assembler (nasm in 8086sim/run.sh) makes of the lines the      *)
(* disassembler is meant for: each form is a line with its bytes.          *)
(*                                                                         *)
(* Left out are the lines it does not decode: a negative byte of           *)
(* displacement, a direct address, an immediate that is extended or goes   *)
(* to memory, and all that is neither mov nor add.                         *)
(***************************************************************************)
EXTENDS Disasm86

CONSTANTS
  Numbers,  \* of the registers
  Bytes,    \* the immediates and displacements of 8 bits
  Words,    \* and of 16
  Sources   \* what files are assembled from: from a file to its forms, in order, each
            \* with the bytes before it

ASSUME OperandValues ==
  Numbers \subseteq 0 .. 7 /\ Bytes \subseteq Byte /\ Words \subseteq Word

Line(op, destination, source) == [op |-> op, destination |-> destination, source |-> source]

Lo(word) == word % 256
Hi(word) == word \div 256

Modes(mod, reg, rm) == 64 * mod + 8 * reg + rm

\* The bits above d and w.
RegMemBits == [mov |-> 34, add |-> 0]

First(op, d, w) == 4 * RegMemBits[op] + 2 * d + w

\* mov and add between a register and memory, in either direction.
Directed(op, d, register, memory) ==
  IF d = 1 THEN Line(op, register, memory) ELSE Line(op, memory, register)

RegisterToRegister ==
  {[code |-> <<First(op, 0, w), Modes(3, reg, rm)>>,
    line |-> Line(op, Register(w, rm), Register(w, reg))] :
     op \in {"mov", "add"}, w \in {0, 1}, reg \in Numbers, rm \in Numbers}

WithoutDisplacement ==
  {[code |-> <<First(op, d, w), Modes(0, reg, rm)>>,
    line |-> Directed(op, d, Register(w, reg), Memory(rm, 0))] :
     op \in {"mov", "add"}, d \in {0, 1}, w \in {0, 1}, reg \in Numbers, rm \in Numbers \ {6}}

WithByteDisplacement ==
  {[code |-> <<First(op, d, w), Modes(1, reg, rm), b>>,
    line |-> Directed(op, d, Register(w, reg), Memory(rm, b))] :
     op \in {"mov", "add"}, d \in {0, 1}, w \in {0, 1}, reg \in Numbers, rm \in Numbers,
     b \in {b \in Bytes : b < 128}}

WithWordDisplacement ==
  {[code |-> <<First(op, d, w), Modes(2, reg, rm), Lo(n), Hi(n)>>,
    line |-> Directed(op, d, Register(w, reg), Memory(rm, n))] :
     op \in {"mov", "add"}, d \in {0, 1}, w \in {0, 1}, reg \in Numbers, rm \in Numbers,
     n \in Words}

ByteImmediate ==
  {[code |-> <<176 + reg, b>>, line |-> Line("mov", Register(0, reg), Immediate(b))] :
     reg \in Numbers, b \in Bytes}
    \cup {[code |-> <<4, b>>, line |-> Line("add", Register(0, 0), Immediate(b))] : b \in Bytes}
    \cup {[code |-> <<128, Modes(3, 0, rm), b>>,
           line |-> Line("add", Register(0, rm), Immediate(b))] :
            rm \in Numbers, b \in Bytes}

WordImmediate ==
  {[code |-> <<184 + reg, Lo(n), Hi(n)>>, line |-> Line("mov", Register(1, reg), Immediate(n))] :
     reg \in Numbers, n \in Words}
    \cup {[code |-> <<5, Lo(n), Hi(n)>>, line |-> Line("add", Register(1, 0), Immediate(n))] :
           n \in Words}
    \cup {[code |-> <<129, Modes(3, 0, rm), Lo(n), Hi(n)>>,
           line |-> Line("add", Register(1, rm), Immediate(n))] :
            rm \in Numbers, n \in Words}

Forms ==
  RegisterToRegister \cup WithoutDisplacement \cup WithByteDisplacement
    \cup WithWordDisplacement \cup ByteImmediate \cup WordImmediate

\* The bytes that come next are those of a line.
ComesNext(code) ==
  /\ pos + Len(code) <= Len(file)
  /\ \A i \in 1 .. Len(code) : file[pos + i] = code[i]

Printed(form) == out' = Append(out, form.line) /\ pos' = pos + Len(form.code)

\* A turn of the loop that stands at an assembled line prints the line and takes
\* all of its bytes and no more, whatever was decoded before: nothing of an earlier
\* instruction is left in the operands, and the next turn stands at the next line
\* (the branches of main's while).
AssembledIsPrinted ==
  [][\A form \in Forms :
       status = "reading" /\ ComesNext(form.code) => Printed(form)]_vars

-----------------------------------------------------------------------------

\* All the bytes of the form at its place are in the file.
IsWhole(placed, bytes) == placed.before + Len(placed.form.code) <= Len(bytes)

\* A file holds the bytes of its forms one after the other, all of them but that it
\* may end within the last form.
IsSource(source, bytes) ==
  /\ Len(source) \in Nat /\ (Len(source) = 0 => bytes = <<>>)
  /\ \A k \in 1 .. Len(source) :
       LET placed == source[k]
           code == placed.form.code
       IN /\ IF k = 1 THEN placed.before = 0
             ELSE placed.before = source[k - 1].before + Len(source[k - 1].form.code)
          /\ placed.before \in 0 .. Len(bytes) - 1
          /\ \A i \in 1 .. Len(code) :
               placed.before + i <= Len(bytes) => bytes[placed.before + i] = code[i]
          /\ k = Len(source) => Len(bytes) <= placed.before + Len(code)

ASSUME FilesHaveSources ==
  \A bytes \in DOMAIN Sources : bytes \in Seq(Byte) /\ IsSource(Sources[bytes], bytes)

\* A program, disassembled to its end, gives its source (8086sim/run.sh:17 has it
\* compared with the listing it was assembled from).  A file that ends within an
\* instruction gives all the lines before it, and one more for what is left of it:
\* what the end of the file is read as is no byte of any further line.
SourceReproduced ==
  status = "done" /\ file \in DOMAIN Sources =>
    LET source == Sources[file] IN
    /\ Len(out) = Len(source)
    /\ \A k \in 1 .. Len(source) : IsWhole(source[k], file) => out[k] = source[k].form.line
=============================================================================
