------------------------------- MODULE Sim86 -------------------------------
(***************************************************************************)
(* The 8086 simulator of 8086sim/8086sim.cpp: it loads a program image into *)
(* the bottom of memory and runs fetch-decode-execute until the byte at    *)
(* Offset is zero.  One action per branch of the interpreter loop.         *)
(*                                                                         *)
(* Sim86_Decode8086Instruction lives in a binary library; it is the        *)
(* constant function Decode, from the first byte of an instruction to what *)
(* the loop uses of its decoding.  The other bytes of an instruction count *)
(* in its Size and are part of the identity of its first byte.             *)
(***************************************************************************)
EXTENDS Integers, Sequences

CONSTANTS
  ByteMod,   \* values of an unsigned char, 256 in the code
  WordMod,   \* values of a uint16_t and cells of memory[], 65536 in the code
  DwordMod,  \* values of a uint32_t
  Decode,    \* the decoder library
  Images     \* the program files, as sequences of bytes

Byte == 0 .. ByteMod - 1
Word == 0 .. WordMod - 1
Dword == 0 .. DwordMod - 1

\* uint16_t registers[9]: 0 is unused, 1..8 are ax bx cx dx sp bp si di.
Registers == 0 .. 8

OperandTypes == {"None", "Register", "Memory", "Immediate"}

\* The operand is a union: Index is its first word, which is Register.Index,
\* the base register Address.Terms[0].Register.Index or (u32)Immediate.Value,
\* according to Type.  Term is Address.Terms[1].Register.Index.
Operand ==
  [Type: OperandTypes, Index: Dword, Term: Dword, Displacement: Int]

\* "other" stands for every operation the loop has no branch for.
Operations == {"mov", "add", "sub", "cmp", "jne", "other"}

Instruction == [Op: Operations, Size: Nat, First: Operand, Second: Operand]

ASSUME Moduli ==
  /\ ByteMod \in Nat \ {0} /\ WordMod \in Nat \ {0} /\ DwordMod \in Nat \ {0}
  /\ ByteMod <= WordMod /\ WordMod % ByteMod = 0
  /\ 2 * WordMod <= DwordMod /\ DwordMod % WordMod = 0
  /\ 8 < DwordMod

ASSUME DecoderType == Decode \in [Byte -> Instruction]

ASSUME ImagesType == Images \subseteq Seq(Byte)

VARIABLES
  status,     \* "started", "running", "halted", or "undefined": the code has
              \* read or written outside memory[] or registers[]
  memory,     \* unsigned char memory[64 * 1024]
  registers,  \* uint16_t registers[9]
  zf, sf, ip, \* uint16_t flagRegisters[3]
  Offset,     \* int Offset, where the next instruction is read
  executed    \* history: the first bytes of the instructions that were executed

vars == <<status, memory, registers, zf, sf, ip, Offset, executed>>

Init ==
  /\ status = "started"
  /\ memory = [a \in Word |-> 0]
  /\ registers = [r \in Registers |-> 0]
  /\ zf = 0 /\ sf = 0 /\ ip = 0
  /\ Offset = 0 /\ executed = {}

-----------------------------------------------------------------------------
(***************************************************************************)
(* Start up: the arguments, the file, and the loop that copies it.         *)
(***************************************************************************)

\* No argument, or a file that does not open: return 1.
NoProgram ==
  /\ status = "started"
  /\ status' = "halted"
  /\ UNCHANGED <<memory, registers, zf, sf, ip, Offset, executed>>

Load(image) ==
  /\ status = "started"
  /\ Len(image) <= WordMod
  /\ status' = "running"
  /\ memory' = [a \in Word |-> IF a < Len(image) THEN image[a + 1] ELSE 0]
  /\ UNCHANGED <<registers, zf, sf, ip, Offset, executed>>

\* The copy loop has no bound: a longer file is written past memory[].
LoadOverrun(image) ==
  /\ status = "started"
  /\ Len(image) > WordMod
  /\ status' = "undefined"
  /\ UNCHANGED <<memory, registers, zf, sf, ip, Offset, executed>>

-----------------------------------------------------------------------------
(***************************************************************************)
(* Fetch and decode.                                                       *)
(***************************************************************************)

Fetching == status = "running" /\ Offset \in Word

Decoded == Decode[memory[Offset]]
First == Decoded.First
Second == Decoded.Second
Form == <<First.Type, Second.Type>>

RegReg == <<"Register", "Register">>
RegImm == <<"Register", "Immediate">>
MemReg == <<"Memory", "Register">>
MemImm == <<"Memory", "Immediate">>
RegMem == <<"Register", "Memory">>

\* memory[registers[base] + registers[term]]: a sum of ints, not reduced.
SumAddress(o) == registers[o.Index] + registers[o.Term]

\* memory[displacement + registers[base]]: uint32_t arithmetic.
DisplacedAddress(o) == (o.Displacement + registers[o.Index]) % DwordMod

\* "mov mem, reg" and "add mem, reg" take the sum of the two registers
\* whatever the displacement; "mov mem, imm" and "add mem, imm" take the base
\* and the displacement whatever the second register.
RegisterStoreAddress(o) == SumAddress(o)

\* Slip: a store of an immediate that forgets its base register.
BaselessStoreAddress(o) == o.Displacement % DwordMod

ImmediateStoreAddress(o) ==
  IF o.Index # 0 THEN DisplacedAddress(o) ELSE o.Displacement % DwordMod

\* Slip: the second branch of a load forgets the displacement.
BareLoadAddress(o) ==
  IF o.Index # 0 /\ o.Term # 0 THEN SumAddress(o)
  ELSE IF o.Index # 0 THEN registers[o.Index]
  ELSE o.Displacement % DwordMod

\* The three branches of "mov reg, mem" and "add reg, mem".
LoadAddress(o) ==
  IF o.Index # 0 /\ o.Term # 0 THEN SumAddress(o)
  ELSE IF o.Index # 0 THEN DisplacedAddress(o)
  ELSE o.Displacement % DwordMod

\* The forms the branches of each operation execute.
Handled ==
  \/ Decoded.Op \in {"mov", "add"} /\ Form \in {RegReg, RegImm, MemReg, MemImm, RegMem}
  \/ Decoded.Op \in {"sub", "cmp"} /\ Form \in {RegReg, RegImm}

\* Every access of the branch falls inside registers[] and memory[].
InBounds ==
  /\ Form \in {RegReg, RegImm, RegMem, MemReg, MemImm} => First.Index \in Registers
  /\ Form \in {RegReg, RegMem, MemReg} => Second.Index \in Registers
  /\ Form = MemReg => First.Term \in Registers /\ RegisterStoreAddress(First) \in Word
  /\ Form = MemImm => ImmediateStoreAddress(First) \in Word
  /\ Form = RegMem =>
       /\ Second.Index # 0 => Second.Term \in Registers
       /\ LoadAddress(Second) \in Word

Execute(op, form) ==
  /\ Fetching
  /\ memory[Offset] # 0
  /\ Decoded.Op = op
  /\ Form = form
  /\ InBounds

\* Offset += Decoded.Size; flagRegisters[2] += Decoded.Size
Advance ==
  /\ Offset' = Offset + Decoded.Size
  /\ ip' = (ip + Decoded.Size) % WordMod
  /\ executed' = executed \cup {memory[Offset]}

Jump(offset, counter) ==
  /\ Offset' = offset
  /\ ip' = counter
  /\ executed' = executed \cup {memory[Offset]}

SetRegister(value) == registers' = [registers EXCEPT ![First.Index] = value]
\* Slip: the cell keeps what an unsigned char cannot hold.
WideSetMemory(a, value) == memory' = [memory EXCEPT ![a] = value]

SetMemory(a, value) == memory' = [memory EXCEPT ![a] = value % ByteMod]

\* value & 0b1000000000000000
SignBit(value) == IF value % WordMod >= WordMod \div 2 THEN 1 ELSE 0
ZeroBit(value) == IF value = 0 THEN 1 ELSE 0

SetFlags(value) == zf' = ZeroBit(value) /\ sf' = SignBit(value)

-----------------------------------------------------------------------------
(***************************************************************************)
(* mov                                                                     *)
(***************************************************************************)

MovRegReg ==
  /\ Execute("mov", RegReg)
  /\ Advance
  /\ SetRegister(registers[Second.Index])
  /\ UNCHANGED <<status, memory, zf, sf>>

\* The u32 immediate is narrowed to the uint16_t register.
MovRegImm ==
  /\ Execute("mov", RegImm)
  /\ Advance
  /\ SetRegister(Second.Index % WordMod)
  /\ UNCHANGED <<status, memory, zf, sf>>

\* One unsigned char is written, whatever the width of the instruction.
MovMemReg ==
  /\ Execute("mov", MemReg)
  /\ Advance
  /\ SetMemory(RegisterStoreAddress(First), registers[Second.Index])
  /\ UNCHANGED <<status, registers, zf, sf>>

MovMemImm ==
  /\ Execute("mov", MemImm)
  /\ Advance
  /\ SetMemory(ImmediateStoreAddress(First), Second.Index)
  /\ UNCHANGED <<status, registers, zf, sf>>

MovRegMem ==
  /\ Execute("mov", RegMem)
  /\ Advance
  /\ SetRegister(memory[LoadAddress(Second)])
  /\ UNCHANGED <<status, memory, zf, sf>>

-----------------------------------------------------------------------------
(***************************************************************************)
(* add                                                                     *)
(***************************************************************************)

AddRegReg ==
  LET sum == (registers[First.Index] + registers[Second.Index]) % WordMod IN
  /\ Execute("add", RegReg)
  /\ Advance
  /\ SetRegister(sum)
  /\ SetFlags(sum)
  /\ UNCHANGED <<status, memory>>

AddRegImm ==
  LET sum == (registers[First.Index] + Second.Index) % WordMod IN
  /\ Execute("add", RegImm)
  /\ Advance
  /\ SetRegister(sum)
  /\ SetFlags(sum)
  /\ UNCHANGED <<status, memory>>

\* The flags are those of the base register, not of the sum.
AddMemReg ==
  LET a == RegisterStoreAddress(First) IN
  /\ Execute("add", MemReg)
  /\ Advance
  /\ SetMemory(a, memory[a] + registers[Second.Index])
  /\ SetFlags(registers[First.Index])
  /\ UNCHANGED <<status, registers>>

\* No flag is written.
AddMemImm ==
  LET a == ImmediateStoreAddress(First) IN
  /\ Execute("add", MemImm)
  /\ Advance
  /\ SetMemory(a, memory[a] + Second.Index)
  /\ UNCHANGED <<status, registers, zf, sf>>

\* No flag is written.
AddRegMem ==
  /\ Execute("add", RegMem)
  /\ Advance
  /\ SetRegister((registers[First.Index] + memory[LoadAddress(Second)]) % WordMod)
  /\ UNCHANGED <<status, memory, zf, sf>>

-----------------------------------------------------------------------------
(***************************************************************************)
(* sub, cmp and jne                                                        *)
(***************************************************************************)

SubRegReg ==
  LET difference == (registers[First.Index] - registers[Second.Index]) % WordMod IN
  /\ Execute("sub", RegReg)
  /\ Advance
  /\ SetRegister(difference)
  /\ SetFlags(difference)
  /\ UNCHANGED <<status, memory>>

\* Slip: the flags of the register before it is written.
EarlyFlagsSubRegImm ==
  LET difference == (registers[First.Index] - Second.Index) % WordMod IN
  /\ Execute("sub", RegImm)
  /\ Advance
  /\ SetRegister(difference)
  /\ SetFlags(registers[First.Index])
  /\ UNCHANGED <<status, memory>>

SubRegImm ==
  LET difference == (registers[First.Index] - Second.Index) % WordMod IN
  /\ Execute("sub", RegImm)
  /\ Advance
  /\ SetRegister(difference)
  /\ SetFlags(difference)
  /\ UNCHANGED <<status, memory>>

\* The difference of two promoted uint16_t is an int: it is not narrowed.
CmpRegReg ==
  /\ Execute("cmp", RegReg)
  /\ Advance
  /\ SetFlags(registers[First.Index] - registers[Second.Index])
  /\ UNCHANGED <<status, memory, registers>>

\* The difference of a uint16_t and a uint32_t is a uint32_t: it is not
\* narrowed to a word either.
CmpRegImm ==
  /\ Execute("cmp", RegImm)
  /\ Advance
  /\ SetFlags((registers[First.Index] - Second.Index) % DwordMod)
  /\ UNCHANGED <<status, memory, registers>>

\* Slip: the jump that is taken is not copied to Offset.
IpOnlyJne ==
  LET target == (ip + Decoded.Size + First.Index) % WordMod IN
  /\ Fetching
  /\ memory[Offset] # 0
  /\ Decoded.Op = "jne"
  /\ IF zf = 0 THEN Jump(Offset + Decoded.Size, target) ELSE Advance
  /\ UNCHANGED <<status, memory, registers, zf, sf>>

\* Slip: the jump that is taken goes to ipRegisterPrevValue.
SelfJne ==
  /\ Fetching
  /\ memory[Offset] # 0
  /\ Decoded.Op = "jne"
  /\ IF zf = 0 THEN Jump(ip, ip) ELSE Advance
  /\ UNCHANGED <<status, memory, registers, zf, sf>>

\* int16_t fov is congruent to the operand modulo 2^16, and ip is a uint16_t.
Jne ==
  LET target == (ip + Decoded.Size + First.Index) % WordMod IN
  /\ Fetching
  /\ memory[Offset] # 0
  /\ Decoded.Op = "jne"
  /\ IF zf = 0 THEN Jump(target, target) ELSE Advance
  /\ UNCHANGED <<status, memory, registers, zf, sf>>

-----------------------------------------------------------------------------
(***************************************************************************)
(* The rest of the loop.                                                   *)
(***************************************************************************)

\* An operation, or a form of one, that no branch handles: it only moves on.
Skip ==
  /\ Fetching
  /\ memory[Offset] # 0
  /\ Decoded.Op # "jne"
  /\ ~Handled
  /\ Advance
  /\ UNCHANGED <<status, memory, registers, zf, sf>>

\* The loop condition: a zero byte where an instruction should start.
Halt ==
  /\ Fetching
  /\ memory[Offset] = 0
  /\ status' = "halted"
  /\ UNCHANGED <<memory, registers, zf, sf, ip, Offset, executed>>

\* The next instruction is read past the end of memory[], or the branch of
\* this one reads or writes outside memory[] or registers[]: nothing is said
\* of what the program does from there on.
Overrun ==
  /\ status = "running"
  /\ IF Offset \in Word THEN memory[Offset] # 0 /\ Handled /\ ~InBounds ELSE TRUE
  /\ status' = "undefined"
  /\ UNCHANGED <<memory, registers, zf, sf, ip, Offset, executed>>

Mov == MovRegReg \/ MovRegImm \/ MovMemReg \/ MovMemImm \/ MovRegMem
Add == AddRegReg \/ AddRegImm \/ AddMemReg \/ AddMemImm \/ AddRegMem
Sub == SubRegReg \/ SubRegImm
Cmp == CmpRegReg \/ CmpRegImm

Next ==
  \/ NoProgram \/ (\E image \in Images : Load(image) \/ LoadOverrun(image))
  \/ Mov \/ Add \/ Sub \/ Cmp \/ Jne \/ Skip \/ Halt \/ Overrun

Spec == Init /\ [][Next]_vars

\* One thread runs the loop and nothing blocks it.
FairSpec == Spec /\ WF_vars(Next)

-----------------------------------------------------------------------------
(***************************************************************************)
(* Properties.                                                             *)
(***************************************************************************)

\* Every register stays a word, every cell a byte and the flags bits, however
\* wide the arithmetic of the branches is (8086sim.cpp:36-79).
TypeOK ==
  /\ status \in {"started", "running", "halted", "undefined"}
  /\ memory \in [Word -> Byte]
  /\ registers \in [Registers -> Word]
  /\ zf \in {0, 1} /\ sf \in {0, 1}
  /\ ip \in Word
  /\ Offset \in Nat
  /\ executed \subseteq Byte

\* The loop keeps its place twice, as the int Offset and as the uint16_t
\* flagRegisters[2], and adds to each in separate statements (88, 91, 526):
\* the ip that is printed is where instructions are read.
IpTracksOffset == ip = Offset % WordMod
=============================================================================
