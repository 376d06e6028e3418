------------------------------ MODULE Disasm86 ------------------------------
(***************************************************************************)
(* The disassembler 8086sim/8086decoder.c: one action is one turn of its   *)
(* loop, which reads an instruction byte by byte and prints a line.        *)
(*                                                                         *)
(* A line is its operation and operands.  The fields are those the masks   *)
(* of the table cut out of the bytes; what is kept is the locals of main   *)
(* that a later turn reads before it has set them.                         *)
(***************************************************************************)
EXTENDS Integers, Sequences

CONSTANTS
  Files  \* the assembled files, as sequences of bytes

Byte == 0 .. 255
Word == 0 .. 65535

ASSUME FilesAreBytes == Files \subseteq Seq(Byte)

VARIABLES
  file,    \* the bytes of the file
  pos,     \* how many of them have been read
  byte4,   \* the fourth byte, of the last instruction that had one
  dispLo,
  dispHi,
  data1,
  data2,
  out,     \* the lines printed
  status   \* "reading" or "done"

vars == <<file, pos, byte4, dispLo, dispHi, data1, data2, out, status>>

\* The values of int byte4 = 0, ..., dispHi = 0.
Open(bytes) ==
  /\ file = bytes
  /\ pos = 0
  /\ byte4 = 0
  /\ dispLo = 0 /\ dispHi = 0
  /\ data1 = 0 /\ data2 = 0
  /\ out = <<>>
  /\ status = "reading"

Init == \E bytes \in Files : Open(bytes)

-----------------------------------------------------------------------------

\* What getc makes of the end of the file, once it is a char.
EOF == 255

\* loadInstructionByte, n calls from now; it does not move past the end.
ByteAt(n) == IF pos + n <= Len(file) THEN file[pos + n] ELSE EOF

Read(n) == pos' = IF pos + n <= Len(file) THEN pos + n ELSE Len(file)

\* The fields of the second byte.
Mod == ByteAt(2) \div 64
RegField == (ByteAt(2) \div 8) % 8
Rm == ByteAt(2) % 8

\* Bits of the first byte: d or s, and w.
D == (ByteAt(1) \div 2) % 2
W == ByteAt(1) % 2

Register(w, n) == [kind |-> "register", wide |-> w, number |-> n]

\* The text names no width, and none but the displacement tells 8 bits from 16.
Memory(rm, displacement) == [kind |-> "memory", rm |-> rm, displacement |-> displacement]

Immediate(n) == [kind |-> "immediate", value |-> n]

\* Slip: the high byte is shifted by a word.
WideRmOp(lo, hi) ==
  Memory(Rm, IF Mod = 0 THEN 0 ELSE IF Mod = 1 THEN lo ELSE 65536 * hi + lo)

\* rmOp: a displacement of zero is not printed, so it is told from none by nothing.
RmOp(lo, hi) ==
  Memory(Rm, IF Mod = 0 THEN 0 ELSE IF Mod = 1 THEN lo ELSE 256 * hi + lo)

PrintLine(op, destination, source) ==
  out' = Append(out, [op |-> op, destination |-> destination, source |-> source])

\* The first byte of the instruction is there, and has these bits at its top.
Opcode(divisor, bits) ==
  /\ status = "reading" /\ ByteAt(1) # EOF
  /\ ByteAt(1) \div divisor = bits

\* register/memory to/from register, for mov and add: the displacement is read for
\* mod 01 and 10, and byte4 is taken into it as it stands.
RegisterMemory(op) ==
  LET fourth == IF Mod = 2 THEN ByteAt(4) ELSE byte4
      lo == IF Mod \in {1, 2} THEN ByteAt(3) ELSE 0
      hi == IF Mod \in {1, 2} THEN fourth ELSE 0
      register == Register(W, RegField)
  IN /\ Read(CASE Mod = 1 -> 3 [] Mod = 2 -> 4 [] OTHER -> 2)
     /\ byte4' = fourth
     /\ dispLo' = lo /\ dispHi' = hi
     /\ IF Mod = 3 THEN PrintLine(op, Register(W, Rm), register)
        ELSE IF D = 1 THEN PrintLine(op, register, RmOp(lo, hi))
        ELSE PrintLine(op, RmOp(lo, hi), register)
     /\ UNCHANGED <<file, data1, data2, status>>

MovRegisterMemory == Opcode(4, 34) /\ RegisterMemory("mov")

AddRegisterMemory == Opcode(4, 0) /\ RegisterMemory("add")

\* data: one byte, or two of which the second is the high one.
Data(w, lo, hi) == IF w = 1 THEN 256 * hi + lo ELSE lo

\* An immediate right after the first byte.
ImmediateTo(register, op, w) ==
  LET hi == IF w = 1 THEN ByteAt(3) ELSE 0
  IN /\ Read(2 + w)
     /\ data1' = ByteAt(2) /\ data2' = hi
     /\ PrintLine(op, register, Immediate(Data(w, ByteAt(2), hi)))
     /\ UNCHANGED <<file, byte4, dispLo, dispHi, status>>

\* Slip: w is looked for where the other instructions have it.
LowBitMovImmediate ==
  /\ Opcode(16, 11)
  /\ LET w == ByteAt(1) % 2
     IN ImmediateTo(Register(w, ByteAt(1) % 8), "mov", w)

MovImmediate ==
  /\ Opcode(16, 11)
  /\ LET w == (ByteAt(1) \div 8) % 2
     IN ImmediateTo(Register(w, ByteAt(1) % 8), "mov", w)

AddToAccumulator == Opcode(2, 2) /\ ImmediateTo(Register(W, 0), "add", W)

\* Slip: the fourth byte is read for a byte of immediate too.
GreedyAddImmediate ==
  /\ Opcode(4, 32)
  /\ Read(4)
  /\ byte4' = ByteAt(4)
  /\ IF Mod \in {0, 3}
     THEN data1' = ByteAt(3) /\ data2' = ByteAt(4)
     ELSE UNCHANGED <<data1, data2>>
  /\ PrintLine("add",
           IF Mod = 3 THEN Register(W, Rm) ELSE RmOp(dispLo, dispHi),
           Immediate(Data(W, data1', data2')))
  /\ UNCHANGED <<file, dispLo, dispHi, status>>

\* The group 100000, whose operation is not looked at, nor its s bit.  A displacement
\* is not read, and for mod 01 and 10 neither is the immediate.
AddImmediate ==
  /\ Opcode(4, 32)
  /\ Read(3 + W)
  /\ byte4' = IF W = 1 THEN ByteAt(4) ELSE byte4
  /\ IF Mod \in {0, 3}
     THEN data1' = ByteAt(3) /\ data2' = (IF W = 1 THEN ByteAt(4) ELSE 0)
     ELSE UNCHANGED <<data1, data2>>
  /\ PrintLine("add",
           IF Mod = 3 THEN Register(W, Rm) ELSE RmOp(dispLo, dispHi),
           Immediate(Data(W, data1', data2')))
  /\ UNCHANGED <<file, dispLo, dispHi, status>>

\* Slip: the byte is not taken.
StuckSkip ==
  /\ status = "reading" /\ ByteAt(1) # EOF
  /\ ByteAt(1) \div 4 \notin {34, 0, 32}
  /\ ByteAt(1) \div 16 # 11
  /\ ByteAt(1) \div 2 # 2
  /\ UNCHANGED vars

\* No branch takes the byte: the next one is taken for an opcode.
Skip ==
  /\ status = "reading" /\ ByteAt(1) # EOF
  /\ ByteAt(1) \div 4 \notin {34, 0, 32}
  /\ ByteAt(1) \div 16 # 11
  /\ ByteAt(1) \div 2 # 2
  /\ Read(1)
  /\ UNCHANGED <<file, byte4, dispLo, dispHi, data1, data2, out, status>>

\* A byte of 255 ends the loop as the end of the file does.
End ==
  /\ status = "reading" /\ ByteAt(1) = EOF
  /\ Read(1)
  /\ status' = "done"
  /\ UNCHANGED <<file, byte4, dispLo, dispHi, data1, data2, out>>

Next ==
  \/ MovRegisterMemory \/ MovImmediate
  \/ AddRegisterMemory \/ AddToAccumulator \/ AddImmediate
  \/ Skip \/ End

Spec == Init /\ [][Next]_vars

\* One thread reads a file, and nothing blocks it.
FairSpec == Spec /\ WF_vars(Next)

-----------------------------------------------------------------------------

RegisterOperands == [kind : {"register"}, wide : {0, 1}, number : 0 .. 7]
MemoryOperands == [kind : {"memory"}, rm : 0 .. 7, displacement : Word]
ImmediateOperands == [kind : {"immediate"}, value : Word]

Operands == RegisterOperands \cup MemoryOperands \cup ImmediateOperands

Lines == [op : {"mov", "add"}, destination : Operands, source : Operands]

\* The variables have their types: no field is wider than its operand.
TypeOK ==
  /\ file \in Seq(Byte)
  /\ pos \in 0 .. Len(file)
  /\ byte4 \in Byte
  /\ dispLo \in Byte /\ dispHi \in Byte
  /\ data1 \in Byte /\ data2 \in Byte
  /\ out \in Seq(Lines)
  /\ status \in {"reading", "done"}

\* The loop comes to an end for every file, whatever it holds (the while of main).
ReachesTheEnd == <>(status = "done")
=============================================================================
