---------------------------- MODULE Sim86_proofs ----------------------------
(***************************************************************************)
(* Proofs about the simulator, for every decoder, program and word width.  *)
(* In the end it implements the abstract machine: every branch is a step   *)
(* of Isa86, until an instruction comes that the machine does not know.    *)
(***************************************************************************)
EXTENDS Sim86_isa, TLAPS

-----------------------------------------------------------------------------
(***************************************************************************)
(* Arithmetic modulo a width.                                              *)
(***************************************************************************)

LEMMA Division ==
  ASSUME NEW W \in Nat \ {0}, NEW x \in Int
  PROVE  x = (W * (x \div W)) + (x % W) /\ x % W \in 0 .. W - 1 /\ x \div W \in Int
  OBVIOUS

LEMMA Remainder ==
  ASSUME NEW W \in Nat \ {0}, NEW x \in Int, NEW r \in 0 .. W - 1, NEW k \in Int,
         x = r + k * W
  PROVE  x % W = r
  OBVIOUS

\* Whole multiples of the width do not count.
LEMMA ModPeriod ==
  ASSUME NEW W \in Nat \ {0}, NEW x \in Int, NEW k \in Int
  PROVE  (x + k * W) % W = x % W
<1> DEFINE q == x \div W
           r == x % W
<1>1. x = r + q * W /\ r \in 0 .. W - 1 /\ q \in Int
  BY Division
<1> HIDE DEF q, r
<1>2. x + k * W = r + (q + k) * W
  BY <1>1
<1>3. (x + k * W) % W = r
  BY <1>1, <1>2, Remainder
<1> QED
  BY <1>3 DEF r

\* Reducing before an addition changes nothing after it.
LEMMA ModAdd ==
  ASSUME NEW W \in Nat \ {0}, NEW x \in Int, NEW y \in Int
  PROVE  ((x % W) + y) % W = (x + y) % W
<1> DEFINE q == x \div W
           r == x % W
<1>1. x = r + q * W /\ r \in 0 .. W - 1 /\ q \in Int
  BY Division
<1> HIDE DEF q, r
<1>2. x + y = (r + y) + q * W
  BY <1>1
<1>3. r + y \in Int
  BY <1>1
<1>4. ((r + y) + q * W) % W = (r + y) % W
  BY <1>1, <1>3, ModPeriod
<1> QED
  BY <1>2, <1>4 DEF r

\* Reducing by a multiple of the width first changes nothing.
LEMMA ModMod ==
  ASSUME NEW W \in Nat \ {0}, NEW D \in Nat \ {0}, D % W = 0, NEW x \in Int
  PROVE  (x % D) % W = x % W
<1> DEFINE k == D \div W
           q == x \div D
           r == x % D
<1>1. D = k * W /\ k \in Int
  BY Division
<1>2. x = r + q * D /\ r \in Int /\ q \in Int
  BY Division
<1> HIDE DEF k, q, r
<1>3. q * (k * W) = (q * k) * W /\ q * k \in Int
  BY <1>1, <1>2
<1>4. x = r + (q * k) * W
  BY <1>1, <1>2, <1>3
<1>5. (r + (q * k) * W) % W = r % W
  BY <1>2, <1>3, ModPeriod
<1> QED
  BY <1>4, <1>5 DEF r

-----------------------------------------------------------------------------
(***************************************************************************)
(* The decoder and the two program counters.                               *)
(***************************************************************************)

\* What the loop uses of a decoding is a well-formed instruction.
LEMMA DecodedType ==
  ASSUME TypeOK, Fetching
  PROVE  /\ Decoded \in Instruction
         /\ First \in Operand /\ Second \in Operand
         /\ First.Index \in Nat /\ Second.Index \in Nat
         /\ First.Displacement \in Int /\ Second.Displacement \in Int
         /\ Decoded.Size \in Nat
<1>1. memory[Offset] \in Byte
  BY DEF TypeOK, Fetching
<1>2. Decoded \in Instruction
  BY <1>1, DecoderType DEF Decoded
<1>3. First \in Operand /\ Second \in Operand /\ Decoded.Size \in Nat
  BY <1>2 DEF First, Second, Instruction
<1>4. Dword \subseteq Nat
  BY Moduli DEF Dword
<1> QED
  BY <1>2, <1>3, <1>4 DEF Operand

\* What is reduced modulo a word is a word.
LEMMA WordType ==
  ASSUME NEW x \in Int
  PROVE  x % WordMod \in Word
  BY Moduli, Division DEF Word

LEMMA ByteIsWord == Byte \subseteq Word
  BY Moduli DEF Byte, Word

\* The two counters advance together.
LEMMA AdvanceCounters ==
  ASSUME TypeOK, IpTracksOffset, Fetching, Advance
  PROVE  ip' \in Word /\ Offset' \in Nat /\ IpTracksOffset'
<1> DEFINE size == Decoded.Size
<1>1. size \in Int /\ size \in Nat /\ Offset \in Int /\ Offset \in Nat
  BY DecodedType DEF TypeOK
<1>2. WordMod \in Nat \ {0}
  BY Moduli
<1>3. Offset' = Offset + size /\ ip' = ((Offset % WordMod) + size) % WordMod
  BY Zenon DEF Advance, IpTracksOffset
<1> HIDE DEF size
<1>4. ((Offset % WordMod) + size) % WordMod = (Offset + size) % WordMod
  BY <1>1, <1>2, ModAdd
<1>5. Offset' \in Nat
  BY <1>1, <1>3
<1>6. Offset' \in Int
  BY <1>5
<1>7. Offset' % WordMod \in Word
  BY <1>6, WordType, Zenon
<1> QED
  BY <1>3, <1>4, <1>5, <1>7 DEF IpTracksOffset

\* The helpers of the branches keep registers, memory and flags in their types.
LEMMA SetRegisterType ==
  ASSUME TypeOK, NEW value \in Word, SetRegister(value)
  PROVE  registers' \in [Registers -> Word]
  BY DEF TypeOK, SetRegister

LEMMA SetMemoryType ==
  ASSUME TypeOK, NEW a, NEW value \in Int, SetMemory(a, value)
  PROVE  memory' \in [Word -> Byte]
<1>1. value % ByteMod \in Byte
  BY Moduli, Division DEF Byte
<1> QED
  BY <1>1 DEF TypeOK, SetMemory

LEMMA SetFlagsType ==
  ASSUME NEW value, SetFlags(value)
  PROVE  zf' \in {0, 1} /\ sf' \in {0, 1}
  BY DEF SetFlags, ZeroBit, SignBit

\* What the bounds of a branch say of the operands of each form.
LEMMA OperandsInBounds ==
  ASSUME InBounds
  PROVE  /\ Form \in {RegReg, RegImm, RegMem} => First.Index \in Registers
         /\ Form \in {RegReg, MemReg} => Second.Index \in Registers
         /\ Form = MemReg => RegisterStoreAddress(First) \in Word
         /\ Form = MemReg => First.Index \in Registers
         /\ Form = MemImm => ImmediateStoreAddress(First) \in Word
         /\ Form = RegMem => LoadAddress(Second) \in Word
  BY DEF InBounds, RegReg, RegImm, MemReg, MemImm, RegMem

-----------------------------------------------------------------------------
(***************************************************************************)
(* Types and program counters, branch by branch.                           *)
(***************************************************************************)

Inv == TypeOK /\ IpTracksOffset

\* A branch that executes, advances, and leaves well-typed data behind keeps
\* the invariant.
LEMMA BranchPreservesInv ==
  ASSUME Inv, Fetching, Advance, UNCHANGED status,
         memory' \in [Word -> Byte], registers' \in [Registers -> Word],
         zf' \in {0, 1}, sf' \in {0, 1}
  PROVE  Inv'
<1>1. ip' \in Word /\ Offset' \in Nat /\ IpTracksOffset'
  BY AdvanceCounters DEF Inv
<1>2. executed' \subseteq Byte
  BY DEF Inv, TypeOK, Fetching, Advance
<1> QED
  BY <1>1, <1>2 DEF Inv, TypeOK

LEMMA MovPreservesInv ==
  ASSUME Inv, Mov
  PROVE  Inv'
<1> USE DEF Inv
<1>1. CASE MovRegReg
  <2>1. registers[Second.Index] \in Word
    BY <1>1, OperandsInBounds DEF MovRegReg, Execute, TypeOK
  <2> QED
    BY <1>1, <2>1, SetRegisterType, BranchPreservesInv DEF MovRegReg, Execute, TypeOK
<1>2. CASE MovRegImm
  <2>1. Second.Index % WordMod \in Word
    BY <1>2, DecodedType, WordType DEF MovRegImm, Execute
  <2> QED
    BY <1>2, <2>1, SetRegisterType, BranchPreservesInv DEF MovRegImm, Execute, TypeOK
<1>3. CASE MovMemReg
  <2>1. registers[Second.Index] \in Int
    BY <1>3, OperandsInBounds DEF MovMemReg, Execute, TypeOK, Word
  <2> QED
    BY <1>3, <2>1, SetMemoryType, BranchPreservesInv DEF MovMemReg, Execute, TypeOK
<1>4. CASE MovMemImm
  <2>1. Second.Index \in Int
    BY <1>4, DecodedType DEF MovMemImm, Execute
  <2> QED
    BY <1>4, <2>1, SetMemoryType, BranchPreservesInv DEF MovMemImm, Execute, TypeOK
<1>5. CASE MovRegMem
  <2>1. memory[LoadAddress(Second)] \in Word
    BY <1>5, OperandsInBounds, ByteIsWord DEF MovRegMem, Execute, TypeOK
  <2> QED
    BY <1>5, <2>1, SetRegisterType, BranchPreservesInv DEF MovRegMem, Execute, TypeOK
<1> QED
  BY <1>1, <1>2, <1>3, <1>4, <1>5 DEF Mov

LEMMA AddPreservesInv ==
  ASSUME Inv, Add
  PROVE  Inv'
<1> USE DEF Inv
<1>1. CASE AddRegReg
  <2> DEFINE sum == registers[First.Index] + registers[Second.Index]
  <2>1. sum \in Int
    BY <1>1, OperandsInBounds DEF AddRegReg, Execute, TypeOK, Word
  <2> HIDE DEF sum
  <2>2. sum % WordMod \in Word
    BY <2>1, WordType
  <2>3. SetRegister(sum % WordMod) /\ SetFlags(sum % WordMod)
    BY <1>1 DEF AddRegReg, sum
  <2> QED
    BY <1>1, <2>2, <2>3, SetRegisterType, SetFlagsType, BranchPreservesInv
    DEF AddRegReg, Execute, TypeOK
<1>2. CASE AddRegImm
  <2> DEFINE sum == registers[First.Index] + Second.Index
  <2>1. sum \in Int
    BY <1>2, OperandsInBounds, DecodedType DEF AddRegImm, Execute, TypeOK, Word
  <2> HIDE DEF sum
  <2>2. sum % WordMod \in Word
    BY <2>1, WordType
  <2>3. SetRegister(sum % WordMod) /\ SetFlags(sum % WordMod)
    BY <1>2 DEF AddRegImm, sum
  <2> QED
    BY <1>2, <2>2, <2>3, SetRegisterType, SetFlagsType, BranchPreservesInv
    DEF AddRegImm, Execute, TypeOK
<1>3. CASE AddMemReg
  <2> DEFINE a == RegisterStoreAddress(First)
             sum == memory[a] + registers[Second.Index]
  <2>1. sum \in Int
    BY <1>3, OperandsInBounds DEF AddMemReg, Execute, TypeOK, Word, Byte
  <2>2. SetMemory(a, sum) /\ SetFlags(registers[First.Index])
    BY <1>3 DEF AddMemReg
  <2> HIDE DEF a, sum
  <2> QED
    BY <1>3, <2>1, <2>2, SetMemoryType, SetFlagsType, BranchPreservesInv
    DEF AddMemReg, Execute, TypeOK
<1>4. CASE AddMemImm
  <2> DEFINE a == ImmediateStoreAddress(First)
             sum == memory[a] + Second.Index
  <2>1. sum \in Int
    BY <1>4, OperandsInBounds, DecodedType DEF AddMemImm, Execute, TypeOK, Byte
  <2>2. SetMemory(a, sum)
    BY <1>4 DEF AddMemImm
  <2> HIDE DEF a, sum
  <2> QED
    BY <1>4, <2>1, <2>2, SetMemoryType, BranchPreservesInv DEF AddMemImm, Execute, TypeOK
<1>5. CASE AddRegMem
  <2> DEFINE sum == registers[First.Index] + memory[LoadAddress(Second)]
  <2>1. sum \in Int
    BY <1>5, OperandsInBounds DEF AddRegMem, Execute, TypeOK, Word, Byte
  <2>2. SetRegister(sum % WordMod)
    BY <1>5 DEF AddRegMem
  <2> HIDE DEF sum
  <2> QED
    BY <1>5, <2>1, <2>2, WordType, SetRegisterType, BranchPreservesInv
    DEF AddRegMem, Execute, TypeOK
<1> QED
  BY <1>1, <1>2, <1>3, <1>4, <1>5 DEF Add

LEMMA SubPreservesInv ==
  ASSUME Inv, Sub
  PROVE  Inv'
<1> USE DEF Inv
<1>1. CASE SubRegReg
  <2> DEFINE difference == registers[First.Index] - registers[Second.Index]
  <2>1. difference \in Int
    BY <1>1, OperandsInBounds DEF SubRegReg, Execute, TypeOK, Word
  <2>2. SetRegister(difference % WordMod) /\ SetFlags(difference % WordMod)
    BY <1>1 DEF SubRegReg
  <2> HIDE DEF difference
  <2> QED
    BY <1>1, <2>1, <2>2, WordType, SetRegisterType, SetFlagsType, BranchPreservesInv
    DEF SubRegReg, Execute, TypeOK
<1>2. CASE SubRegImm
  <2> DEFINE difference == registers[First.Index] - Second.Index
  <2>1. difference \in Int
    BY <1>2, OperandsInBounds, DecodedType DEF SubRegImm, Execute, TypeOK, Word
  <2>2. SetRegister(difference % WordMod) /\ SetFlags(difference % WordMod)
    BY <1>2 DEF SubRegImm
  <2> HIDE DEF difference
  <2> QED
    BY <1>2, <2>1, <2>2, WordType, SetRegisterType, SetFlagsType, BranchPreservesInv
    DEF SubRegImm, Execute, TypeOK
<1> QED
  BY <1>1, <1>2 DEF Sub

LEMMA CmpPreservesInv ==
  ASSUME Inv, Cmp
  PROVE  Inv'
<1> USE DEF Inv
<1>1. CASE CmpRegReg
  BY <1>1, SetFlagsType, BranchPreservesInv DEF CmpRegReg, Execute, TypeOK
<1>2. CASE CmpRegImm
  BY <1>2, SetFlagsType, BranchPreservesInv DEF CmpRegImm, Execute, TypeOK
<1> QED
  BY <1>1, <1>2 DEF Cmp

\* A jump sets both counters to the same word.
LEMMA JnePreservesInv ==
  ASSUME Inv, Jne
  PROVE  Inv'
<1> USE DEF Inv
<1>1. CASE zf # 0
  BY <1>1, BranchPreservesInv DEF Jne, TypeOK
<1>2. CASE zf = 0
  <2> DEFINE target == (ip + Decoded.Size + First.Index) % WordMod
  <2>1. ip + Decoded.Size + First.Index \in Int
    BY DecodedType DEF Jne, TypeOK, Word
  <2>2. target \in Word
    BY <2>1, WordType
  <2>3. ip' = target /\ Offset' = target /\ executed' \subseteq Byte
    BY <1>2 DEF Jne, Jump, Fetching, TypeOK
  <2> HIDE DEF target
  <2>4. target % WordMod = target
    BY <2>2, Moduli DEF Word
  <2>5. ip' \in Word /\ Offset' \in Nat
    BY <2>2, <2>3 DEF Word
  <2> QED
    BY <2>3, <2>4, <2>5 DEF Jne, TypeOK, IpTracksOffset
<1> QED
  BY <1>1, <1>2

\* Starting, stopping and leaving memory keep the invariant.
LEMMA ControlPreservesInv ==
  ASSUME Inv, NoProgram \/ (\E image \in Images : Load(image) \/ LoadOverrun(image))
              \/ Skip \/ Halt \/ Overrun
  PROVE  Inv'
<1> USE DEF Inv
<1>1. CASE NoProgram
  BY <1>1 DEF NoProgram, TypeOK, IpTracksOffset
<1>2. ASSUME NEW image \in Images, Load(image)
      PROVE  Inv'
  <2>1. image \in Seq(Byte)
    BY ImagesType
  <2>2. ASSUME NEW a \in Word, a < Len(image)
        PROVE  image[a + 1] \in Byte
    <3>1. Len(image) \in Nat /\ a \in Nat
      BY <2>1 DEF Word
    <3>2. a + 1 \in 1 .. Len(image)
      BY <2>2, <3>1
    <3> QED
      BY <2>1, <3>2
  <2>3. 0 \in Byte
    BY Moduli DEF Byte
  <2>4. memory' \in [Word -> Byte]
    BY <1>2, <2>2, <2>3 DEF Load
  <2> QED
    BY <1>2, <2>4 DEF Load, TypeOK, IpTracksOffset
<1>3. ASSUME NEW image \in Images, LoadOverrun(image)
      PROVE  Inv'
  BY <1>3 DEF LoadOverrun, TypeOK, IpTracksOffset
<1>4. CASE Skip
  BY <1>4, BranchPreservesInv DEF Skip, TypeOK
<1>5. CASE Halt
  BY <1>5 DEF Halt, TypeOK, IpTracksOffset
<1>6. CASE Overrun
  BY <1>6 DEF Overrun, TypeOK, IpTracksOffset
<1> QED
  BY <1>1, <1>2, <1>3, <1>4, <1>5, <1>6

LEMMA InitEstablishesInv == Init => Inv
<1> SUFFICES ASSUME Init PROVE Inv
  OBVIOUS
<1>1. WordMod \in Nat \ {0} /\ ByteMod \in Nat \ {0}
  BY Moduli
<1>2. 0 \in Word /\ 0 \in Byte /\ 0 % WordMod = 0
  BY <1>1 DEF Word, Byte
<1> QED
  BY <1>2 DEF Init, Inv, TypeOK, IpTracksOffset

LEMMA NextPreservesInv == Inv /\ [Next]_vars => Inv'
<1> SUFFICES ASSUME Inv, [Next]_vars PROVE Inv'
  OBVIOUS
<1>1. CASE Next
  BY <1>1, MovPreservesInv, AddPreservesInv, SubPreservesInv, CmpPreservesInv,
     JnePreservesInv, ControlPreservesInv DEF Next
<1>2. CASE UNCHANGED vars
  BY <1>2 DEF vars, Inv, TypeOK, IpTracksOffset
<1> QED
  BY <1>1, <1>2

-----------------------------------------------------------------------------

\* Registers stay words, cells bytes and flags bits, whatever program runs on
\* whatever decoder (8086sim.cpp:36-79 and every store after them).
THEOREM TypeCorrect == Spec => []TypeOK
<1>1. Inv => TypeOK
  BY DEF Inv
<1> QED
  BY InitEstablishesInv, NextPreservesInv, <1>1, PTL DEF Spec

\* The ip that is printed is, modulo a word, the Offset instructions are read
\* at, after any sequence of instructions and jumps (8086sim.cpp:88, 91, 526).
THEOREM CountersAgree == Spec => []IpTracksOffset
<1>1. Inv => IpTracksOffset
  BY DEF Inv
<1> QED
  BY InitEstablishesInv, NextPreservesInv, <1>1, PTL DEF Spec

-----------------------------------------------------------------------------
(***************************************************************************)
(* The abstract machine.                                                   *)
(***************************************************************************)

\* The unused register, which stands for an absent base or second register of
\* an address, is never written.
ZeroRegister == registers[0] = 0

\* What is executed now is an instruction of the abstract machine.
Faithful == Fetching /\ memory[Offset] # 0 => FaithfulInstruction(Decoded)

-----------------------------------------------------------------------------
(***************************************************************************)
(* Faithful instructions.                                                  *)
(***************************************************************************)

LEMMA DecodedFaithful ==
  ASSUME Faithful, Fetching, memory[Offset] # 0
  PROVE  FaithfulInstruction(Decoded)
BY DEF Faithful

\* The operands of a faithful instruction name existing registers, and its
\* displacements are words.
LEMMA FaithfulOperands ==
  ASSUME TypeOK, Faithful, Fetching, memory[Offset] # 0
  PROVE  /\ First.Type = "Register" => First.Index \in Registers \ {0}
         /\ Second.Type = "Register" => Second.Index \in Registers \ {0}
         /\ First.Type = "Memory" =>
              First.Index \in Registers /\ First.Term \in Registers /\ First.Displacement \in Word
         /\ Second.Type = "Memory" =>
              Second.Index \in Registers /\ Second.Term \in Registers /\ Second.Displacement \in Word
         /\ Form = MemReg => First.Displacement = 0
         /\ Form = MemImm => First.Term = 0
         /\ Second.Type = "Memory" =>
              IF Second.Index # 0 /\ Second.Term # 0 THEN Second.Displacement = 0
              ELSE Second.Term = 0
  BY DecodedFaithful
  DEF FaithfulInstruction, PlainRegister, PlainMemory, StoredInFull, First, Second, Form

\* Small sums are not reduced by uint32_t arithmetic.
LEMMA SmallSum ==
  ASSUME NEW x \in Word, NEW y \in Word
  PROVE  (x + y) % DwordMod = x + y /\ x % DwordMod = x /\ x % WordMod = x
<1>1. /\ WordMod \in Nat \ {0} /\ DwordMod \in Nat \ {0} /\ 2 * WordMod <= DwordMod
      /\ x \in 0 .. WordMod - 1 /\ y \in 0 .. WordMod - 1
  BY Moduli DEF Word
<1>2. x + y \in 0 .. DwordMod - 1 /\ x \in 0 .. DwordMod - 1
  BY <1>1
<1> QED
  BY <1>1, <1>2

\* Each branch computes the one effective address.
LEMMA EffectiveAddresses ==
  ASSUME TypeOK, ZeroRegister, Faithful, Fetching, memory[Offset] # 0
  PROVE  /\ Form = MemReg => RegisterStoreAddress(First) = ISA!EffectiveAddress(First)
         /\ Form = MemImm => ImmediateStoreAddress(First) = ISA!EffectiveAddress(First)
         /\ Form = RegMem => LoadAddress(Second) = ISA!EffectiveAddress(Second)
<1> USE DEF ISA!EffectiveAddress, ZeroRegister
<1>1. \A r \in Registers : registers[r] \in Word /\ registers[r] \in Int
  BY DEF TypeOK, Word
<1>2. Word \subseteq Int /\ 0 \in Registers
  BY DEF Word, Registers
<1>3. ASSUME Form = MemReg
      PROVE  RegisterStoreAddress(First) = ISA!EffectiveAddress(First)
  <2>1. First.Index \in Registers /\ First.Term \in Registers /\ First.Displacement = 0
    BY <1>3, FaithfulOperands DEF Form, MemReg
  <2> QED
    BY <1>1, <2>1 DEF RegisterStoreAddress, SumAddress
<1>4. ASSUME Form = MemImm
      PROVE  ImmediateStoreAddress(First) = ISA!EffectiveAddress(First)
  <2>1. First.Index \in Registers /\ First.Term = 0 /\ First.Displacement \in Word
    BY <1>4, FaithfulOperands DEF Form, MemImm
  <2>2. (First.Displacement + registers[First.Index]) % DwordMod
          = First.Displacement + registers[First.Index]
    BY <1>1, <2>1, SmallSum
  <2>3. First.Displacement % DwordMod = First.Displacement
    BY <2>1, SmallSum
  <2>4. /\ registers[First.Index] \in Int /\ registers[First.Term] = 0
        /\ First.Displacement \in Int
    BY <1>1, <1>2, <2>1
  <2>5. ImmediateStoreAddress(First) = First.Displacement + registers[First.Index]
    <3>1. CASE First.Index = 0
      BY <2>1, <2>3, <2>4, <3>1 DEF ImmediateStoreAddress
    <3>2. CASE First.Index # 0
      BY <2>2, <3>2 DEF ImmediateStoreAddress, DisplacedAddress
    <3> QED
      BY <3>1, <3>2
  <2> QED
    BY <2>4, <2>5
<1>5. ASSUME Form = RegMem
      PROVE  LoadAddress(Second) = ISA!EffectiveAddress(Second)
  <2>1. /\ Second.Index \in Registers /\ Second.Term \in Registers
        /\ Second.Displacement \in Word
        /\ IF Second.Index # 0 /\ Second.Term # 0 THEN Second.Displacement = 0
           ELSE Second.Term = 0
    BY <1>5, FaithfulOperands DEF Form, RegMem
  <2>2. (Second.Displacement + registers[Second.Index]) % DwordMod
          = Second.Displacement + registers[Second.Index]
    BY <1>1, <2>1, SmallSum
  <2>3. Second.Displacement % DwordMod = Second.Displacement
    BY <2>1, SmallSum
  <2>4. /\ registers[Second.Index] \in Int /\ registers[Second.Term] \in Int
        /\ Second.Displacement \in Int
    BY <1>1, <1>2, <2>1
  <2>5. CASE Second.Index # 0 /\ Second.Term # 0
    BY <2>1, <2>4, <2>5 DEF LoadAddress, SumAddress
  <2>6. CASE Second.Index # 0 /\ Second.Term = 0
    <3>1. LoadAddress(Second) = Second.Displacement + registers[Second.Index]
      BY <2>2, <2>6 DEF LoadAddress, DisplacedAddress
    <3> QED
      BY <2>4, <2>6, <3>1
  <2>7. CASE Second.Index = 0
    <3>1. LoadAddress(Second) = Second.Displacement
      BY <2>3, <2>7 DEF LoadAddress
    <3> QED
      BY <2>1, <2>4, <2>7, <3>1
  <2> QED
    BY <2>5, <2>6, <2>7
<1> QED
  BY <1>3, <1>4, <1>5

-----------------------------------------------------------------------------
(***************************************************************************)
(* Branches.                                                               *)
(***************************************************************************)

StrongInv == TypeOK /\ IpTracksOffset /\ ZeroRegister

\* A branch fetches what the abstract machine fetches.
LEMMA SameInstruction ==
  ASSUME TypeOK, Faithful, ~Lost, Fetching, memory[Offset] # 0
  PROVE  ISA!Executing /\ ISA!Current = Decoded
                       /\ ISA!Current.First = First /\ ISA!Current.Second = Second
<1>1. memory[Offset] \in FaithfulBytes
  BY DecodedFaithful DEF FaithfulBytes, TypeOK, Fetching, Decoded
<1> QED
  BY <1>1 DEF Fetching, Word, ISA!Executing, ISA!Fetched, ISA!Addresses, ISA!Current, Decoded,
     First, Second

\* An operation that ends in a register.
LEMMA RegisterResult ==
  ASSUME StrongInv, Faithful, ~Lost, ~Lost', NEW op \in {"mov", "add", "sub"},
         NEW form \in {RegReg, RegImm, RegMem}, Execute(op, form), Advance,
         NEW value, value = ISA!Result(op, ISA!Value(First), ISA!Value(Second)),
         SetRegister(value),
         IF op = "mov" THEN UNCHANGED <<zf, sf>>
         ELSE /\ zf' = IF value = 0 THEN 1 ELSE 0
              /\ sf' = IF value >= WordMod \div 2 THEN 1 ELSE 0,
         UNCHANGED <<status, memory>>
  PROVE  ISA!Next
<1>1. /\ ISA!Executing /\ ISA!Current = Decoded /\ Decoded.Op = op
      /\ ISA!Current.First = First /\ ISA!Current.Second = Second
  BY SameInstruction DEF Execute, StrongInv
<1>2. First.Type = "Register" /\ Form = form
  BY DEF Execute, Form, RegReg, RegImm, RegMem
<1>3. ISA!Reachable(First) /\ ISA!Reachable(Second)
  <2>1. CASE form = RegMem
    BY <1>2, <2>1, EffectiveAddresses, OperandsInBounds
    DEF Execute, StrongInv, ISA!Reachable, ISA!Addresses, Word
  <2>2. CASE form \in {RegReg, RegImm}
    BY <1>2, <2>2 DEF Form, RegReg, RegImm, ISA!Reachable
  <2> QED
    BY <2>1, <2>2
<1>4. ISA!Write(First, value)
  BY <1>2 DEF SetRegister, ISA!Write
<1>5. ISA!Operate(op)
  BY <1>1, <1>3, <1>4 DEF ISA!Operate, Advance
<1> QED
  BY <1>5 DEF ISA!Next

\* mov to memory.
LEMMA MemoryResult ==
  ASSUME StrongInv, Faithful, ~Lost, ~Lost', NEW form \in {MemReg, MemImm},
         Execute("mov", form), Advance,
         NEW value, value % ByteMod = (ISA!Value(Second) % WordMod) % ByteMod,
         SetMemory(ISA!EffectiveAddress(First), value),
         UNCHANGED <<status, registers, zf, sf>>
  PROVE  ISA!Next
<1>1. /\ ISA!Executing /\ ISA!Current = Decoded /\ Decoded.Op = "mov"
      /\ ISA!Current.First = First /\ ISA!Current.Second = Second
  BY SameInstruction DEF Execute, StrongInv
<1>2. First.Type = "Memory" /\ Second.Type # "Memory" /\ Form = form
  BY DEF Execute, Form, MemReg, MemImm
<1>3. ISA!Reachable(First) /\ ISA!Reachable(Second)
  BY <1>2, EffectiveAddresses, OperandsInBounds
  DEF Execute, StrongInv, ISA!Reachable, ISA!Addresses, Word
<1>4. ISA!Write(First, ISA!Result("mov", ISA!Value(First), ISA!Value(Second)))
  BY <1>2 DEF SetMemory, ISA!Write, ISA!Result
<1>5. ISA!Operate("mov")
  BY <1>1, <1>3, <1>4 DEF ISA!Operate, Advance
<1> QED
  BY <1>5 DEF ISA!Next

LEMMA MovRefines ==
  ASSUME StrongInv, Faithful, ~Lost, ~Lost', Mov
  PROVE  ISA!Next
<1> USE DEF StrongInv
<1>1. CASE MovRegReg
  <2>1. registers[Second.Index] \in Word /\ Second.Type = "Register"
    BY <1>1, OperandsInBounds DEF MovRegReg, Execute, TypeOK, Form, RegReg
  <2>2. registers[Second.Index] = ISA!Result("mov", ISA!Value(First), ISA!Value(Second))
    BY <2>1, SmallSum DEF ISA!Result, ISA!Value
  <2> QED
    BY <1>1, <2>2, RegisterResult DEF MovRegReg
<1>2. CASE MovRegImm
  <2>1. Second.Type = "Immediate"
    BY <1>2 DEF MovRegImm, Execute, Form, RegImm
  <2>2. Second.Index % WordMod = ISA!Result("mov", ISA!Value(First), ISA!Value(Second))
    BY <2>1 DEF ISA!Result, ISA!Value
  <2> QED
    BY <1>2, <2>2, RegisterResult DEF MovRegImm
<1>3. CASE MovMemReg
  <2>1. /\ registers[Second.Index] \in Word /\ Second.Type = "Register"
        /\ Form = MemReg /\ Fetching /\ memory[Offset] # 0
    BY <1>3, OperandsInBounds DEF MovMemReg, Execute, TypeOK, Form, MemReg
  <2>2. ISA!Value(Second) = registers[Second.Index]
    BY <2>1 DEF ISA!Value
  <2>3. registers[Second.Index] % WordMod = registers[Second.Index]
    BY <2>1, SmallSum
  <2>4. RegisterStoreAddress(First) = ISA!EffectiveAddress(First)
    BY <2>1, EffectiveAddresses
  <2> QED
    BY <1>3, <2>2, <2>3, <2>4, MemoryResult DEF MovMemReg
<1>4. CASE MovMemImm
  <2>1. Second.Type = "Immediate" /\ Form = MemImm /\ Fetching /\ memory[Offset] # 0
    BY <1>4 DEF MovMemImm, Execute, Form, MemImm
  <2>2. ISA!Value(Second) = Second.Index /\ Second.Index \in Int
    BY <2>1, DecodedType DEF ISA!Value
  <2>3. Second.Index % ByteMod = (Second.Index % WordMod) % ByteMod
    BY <2>2, Moduli, ModMod
  <2>4. ImmediateStoreAddress(First) = ISA!EffectiveAddress(First)
    BY <2>1, EffectiveAddresses
  <2> QED
    BY <1>4, <2>2, <2>3, <2>4, MemoryResult DEF MovMemImm
<1>5. CASE MovRegMem
  <2>1. /\ Second.Type = "Memory" /\ Form = RegMem /\ Fetching /\ memory[Offset] # 0
        /\ LoadAddress(Second) \in Word
    BY <1>5, OperandsInBounds DEF MovRegMem, Execute, Form, RegMem
  <2>2. LoadAddress(Second) = ISA!EffectiveAddress(Second)
    BY <2>1, EffectiveAddresses
  <2>3. memory[LoadAddress(Second)] \in Word
    BY <2>1, ByteIsWord DEF TypeOK
  <2>4. memory[LoadAddress(Second)] = ISA!Result("mov", ISA!Value(First), ISA!Value(Second))
    BY <2>1, <2>2, <2>3, SmallSum DEF ISA!Result, ISA!Value
  <2> QED
    BY <1>5, <2>4, RegisterResult DEF MovRegMem
<1> QED
  BY <1>1, <1>2, <1>3, <1>4, <1>5 DEF Mov

\* The sign bit of a word, and its being zero, are the abstract machine's.
LEMMA WordFlags ==
  ASSUME NEW value \in Word, SetFlags(value)
  PROVE  /\ zf' = IF value = 0 THEN 1 ELSE 0
         /\ sf' = IF value >= WordMod \div 2 THEN 1 ELSE 0
<1>1. value % WordMod = value
  BY SmallSum
<1> QED
  BY <1>1 DEF SetFlags, ZeroBit, SignBit

LEMMA AddRefines ==
  ASSUME StrongInv, Faithful, ~Lost, ~Lost', Add
  PROVE  ISA!Next
<1> USE DEF StrongInv
<1>1. CASE AddRegReg
  <2> DEFINE sum == (registers[First.Index] + registers[Second.Index]) % WordMod
  <2>1. /\ First.Type = "Register" /\ Second.Type = "Register"
        /\ registers[First.Index] \in Int /\ registers[Second.Index] \in Int
    BY <1>1, OperandsInBounds DEF AddRegReg, Execute, TypeOK, Form, RegReg, Word
  <2>2. sum \in Word
    BY <2>1, WordType
  <2>3. sum = ISA!Result("add", ISA!Value(First), ISA!Value(Second))
    BY <2>1 DEF ISA!Result, ISA!Value
  <2>4. SetRegister(sum) /\ SetFlags(sum)
    BY <1>1 DEF AddRegReg
  <2> HIDE DEF sum
  <2> QED
    BY <1>1, <2>2, <2>3, <2>4, WordFlags, RegisterResult DEF AddRegReg
<1>2. CASE AddRegImm
  <2> DEFINE sum == (registers[First.Index] + Second.Index) % WordMod
  <2>1. /\ First.Type = "Register" /\ Second.Type = "Immediate"
        /\ registers[First.Index] \in Int /\ Second.Index \in Int
    BY <1>2, OperandsInBounds, DecodedType
    DEF AddRegImm, Execute, TypeOK, Form, RegImm, Word
  <2>2. sum \in Word
    BY <2>1, WordType
  <2>3. sum = ISA!Result("add", ISA!Value(First), ISA!Value(Second))
    BY <2>1 DEF ISA!Result, ISA!Value
  <2>4. SetRegister(sum) /\ SetFlags(sum)
    BY <1>2 DEF AddRegImm
  <2> HIDE DEF sum
  <2> QED
    BY <1>2, <2>2, <2>3, <2>4, WordFlags, RegisterResult DEF AddRegImm
<1>3. CASE AddMemReg \/ AddMemImm \/ AddRegMem
  <2>1. FALSE
    BY <1>3, DecodedFaithful
    DEF AddMemReg, AddMemImm, AddRegMem, Execute, FaithfulInstruction, Form, First, Second,
        RegReg, RegImm, MemReg, MemImm, RegMem
  <2> QED
    BY <2>1
<1> QED
  BY <1>1, <1>2, <1>3 DEF Add

LEMMA SubRefines ==
  ASSUME StrongInv, Faithful, ~Lost, ~Lost', Sub
  PROVE  ISA!Next
<1> USE DEF StrongInv
<1>1. CASE SubRegReg
  <2> DEFINE difference == (registers[First.Index] - registers[Second.Index]) % WordMod
  <2>1. /\ First.Type = "Register" /\ Second.Type = "Register"
        /\ registers[First.Index] \in Int /\ registers[Second.Index] \in Int
    BY <1>1, OperandsInBounds DEF SubRegReg, Execute, TypeOK, Form, RegReg, Word
  <2>2. difference \in Word
    BY <2>1, WordType
  <2>3. difference = ISA!Result("sub", ISA!Value(First), ISA!Value(Second))
    BY <2>1 DEF ISA!Result, ISA!Value
  <2>4. SetRegister(difference) /\ SetFlags(difference)
    BY <1>1 DEF SubRegReg
  <2> HIDE DEF difference
  <2> QED
    BY <1>1, <2>2, <2>3, <2>4, WordFlags, RegisterResult DEF SubRegReg
<1>2. CASE SubRegImm
  <2> DEFINE difference == (registers[First.Index] - Second.Index) % WordMod
  <2>1. /\ First.Type = "Register" /\ Second.Type = "Immediate"
        /\ registers[First.Index] \in Int /\ Second.Index \in Int
    BY <1>2, OperandsInBounds, DecodedType
    DEF SubRegImm, Execute, TypeOK, Form, RegImm, Word
  <2>2. difference \in Word
    BY <2>1, WordType
  <2>3. difference = ISA!Result("sub", ISA!Value(First), ISA!Value(Second))
    BY <2>1 DEF ISA!Result, ISA!Value
  <2>4. SetRegister(difference) /\ SetFlags(difference)
    BY <1>2 DEF SubRegImm
  <2> HIDE DEF difference
  <2> QED
    BY <1>2, <2>2, <2>3, <2>4, WordFlags, RegisterResult DEF SubRegImm
<1> QED
  BY <1>1, <1>2 DEF Sub

\* The difference of two words is a multiple of a word, or of a double word,
\* only if they are equal.
LEMMA ZeroDifference ==
  ASSUME NEW x \in Word, NEW y \in Word, NEW M \in Nat \ {0}, WordMod <= M
  PROVE  (x - y) % M = 0 <=> x = y
<1>1. WordMod \in Nat /\ x \in 0 .. WordMod - 1 /\ y \in 0 .. WordMod - 1
  BY Moduli DEF Word
<1>2. CASE x >= y
  <2>1. x - y \in 0 .. M - 1
    BY <1>1, <1>2
  <2>2. (x - y) % M = x - y
    BY <2>1
  <2> QED
    BY <1>1, <2>2
<1>3. CASE x < y
  <2>1. (x - y) + M \in 1 .. M - 1 /\ x - y = ((x - y) + M) + (-1) * M
    BY <1>1, <1>3
  <2>2. (x - y) % M = (x - y) + M
    BY <1>1, <2>1, Remainder
  <2> QED
    BY <1>1, <1>3, <2>1, <2>2
<1> QED
  BY <1>1, <1>2, <1>3

\* cmp does not narrow the difference as sub does, and finds the same flags.
LEMMA DifferenceFlags ==
  ASSUME NEW x \in Word, NEW y \in Word, NEW d,
         d = x - y \/ d = (x - y) % DwordMod, SetFlags(d)
  PROVE  /\ zf' = IF (x - y) % WordMod = 0 THEN 1 ELSE 0
         /\ sf' = IF (x - y) % WordMod >= WordMod \div 2 THEN 1 ELSE 0
<1>1. /\ WordMod \in Nat \ {0} /\ DwordMod \in Nat \ {0} /\ DwordMod % WordMod = 0
      /\ WordMod <= DwordMod /\ x - y \in Int
  BY Moduli DEF Word
<1>2. d = 0 <=> x = y
  BY <1>1, ZeroDifference DEF Word
<1>3. (x - y) % WordMod = 0 <=> x = y
  BY <1>1, ZeroDifference
<1>4. d % WordMod = (x - y) % WordMod
  BY <1>1, ModMod
<1> QED
  BY <1>2, <1>3, <1>4 DEF SetFlags, ZeroBit, SignBit

LEMMA CmpRefines ==
  ASSUME StrongInv, Faithful, ~Lost, ~Lost', Cmp
  PROVE  ISA!Next
<1> USE DEF StrongInv
<1> DEFINE result == ISA!Result("cmp", ISA!Value(First), ISA!Value(Second))
<1>1. /\ Fetching /\ Form \in {RegReg, RegImm}
      /\ First.Type = "Register" /\ Second.Type \in {"Register", "Immediate"}
      /\ memory[Offset] # 0 /\ Decoded.Op = "cmp" /\ Advance
      /\ UNCHANGED <<status, memory, registers>>
  BY DEF Cmp, CmpRegReg, CmpRegImm, Execute, Form, RegReg, RegImm
<1>2. /\ zf' = IF result = 0 THEN 1 ELSE 0
      /\ sf' = IF result >= WordMod \div 2 THEN 1 ELSE 0
  <2>1. CASE CmpRegReg
    <3>1. /\ registers[First.Index] \in Word /\ registers[Second.Index] \in Word
          /\ Second.Type = "Register"
      BY <2>1, OperandsInBounds DEF CmpRegReg, Execute, TypeOK, Form, RegReg
    <3>2. result = (registers[First.Index] - registers[Second.Index]) % WordMod
      BY <1>1, <3>1 DEF ISA!Result, ISA!Value
    <3> HIDE DEF result
    <3> QED
      BY <2>1, <3>1, <3>2, DifferenceFlags DEF CmpRegReg
  <2>2. CASE CmpRegImm
    <3>1. Form = RegImm /\ Second.Type = "Immediate" /\ registers[First.Index] \in Word
      BY <2>2, OperandsInBounds DEF CmpRegImm, Execute, TypeOK, Form, RegImm
    <3>2. Second.Index \in Word
      BY <1>1, DecodedFaithful DEF FaithfulInstruction, First, Second, Form
    <3>3. result = (registers[First.Index] - Second.Index) % WordMod
      BY <1>1, <3>1 DEF ISA!Result, ISA!Value
    <3> HIDE DEF result
    <3> QED
      BY <2>2, <3>1, <3>2, <3>3, DifferenceFlags DEF CmpRegImm
  <2> QED
    BY <2>1, <2>2 DEF Cmp
<1>3. /\ ISA!Executing /\ ISA!Current = Decoded
      /\ ISA!Current.First = First /\ ISA!Current.Second = Second
  BY <1>1, SameInstruction
<1>4. ISA!Reachable(First) /\ ISA!Reachable(Second)
  BY <1>1 DEF ISA!Reachable
<1>5. ISA!Operate("cmp")
  BY <1>1, <1>2, <1>3, <1>4 DEF ISA!Operate, Advance
<1> QED
  BY <1>5 DEF ISA!Next

LEMMA JneRefines ==
  ASSUME StrongInv, Faithful, ~Lost, ~Lost', Jne
  PROVE  ISA!Next
<1> USE DEF StrongInv
<1> DEFINE displacement == First.Index
           size == Decoded.Size
<1>1. /\ ISA!Executing /\ ISA!Current = Decoded /\ ISA!Current.First = First
  BY SameInstruction DEF Jne
<1>2. size \in Int /\ displacement \in Int /\ Offset \in Int
  BY DecodedType DEF Jne, TypeOK
<1>3. zf = 0 => Offset' = (ip + size + displacement) % WordMod
  BY DEF Jne, Jump
<1>4. zf # 0 => Offset' = Offset + size
  BY DEF Jne, Advance
<1>5. ip = Offset % WordMod
  BY DEF IpTracksOffset
<1>6. ((Offset % WordMod) + (size + displacement)) % WordMod
        = (Offset + (size + displacement)) % WordMod
  <2> DEFINE y == size + displacement
  <2> HIDE DEF size, displacement
  <2>1. y \in Int /\ WordMod \in Nat \ {0}
    BY <1>2, Moduli
  <2> HIDE DEF y
  <2>2. ((Offset % WordMod) + y) % WordMod = (Offset + y) % WordMod
    BY <1>2, <2>1, ModAdd
  <2> QED
    BY <2>2 DEF y
<1>7. Offset' = IF zf = 0 THEN ((Offset + size) + displacement) % WordMod ELSE Offset + size
  <2> HIDE DEF size, displacement
  <2>1. /\ ip + size + displacement = (Offset % WordMod) + (size + displacement)
        /\ Offset + (size + displacement) = (Offset + size) + displacement
    BY <1>2, <1>5, Moduli
  <2> QED
    BY <1>3, <1>4, <1>6, <2>1
<1>8. ISA!Branch
  BY <1>1, <1>7 DEF Jne, ISA!Branch
<1> QED
  BY <1>8 DEF ISA!Next

\* What no branch of the simulator handles is what the abstract machine
\* ignores.
LEMMA SkipRefines ==
  ASSUME StrongInv, Faithful, ~Lost, ~Lost', Skip
  PROVE  ISA!Next
<1> USE DEF StrongInv
<1>1. /\ ISA!Executing /\ ISA!Current = Decoded
  BY SameInstruction DEF Skip
<1>2. Decoded.Op = "other"
  <2>1. FaithfulInstruction(Decoded) /\ Decoded.Op \in Operations
    BY DecodedFaithful, DecodedType DEF Skip, Instruction
  <2>2. Decoded.Op # "jne" /\ ~Handled
    BY DEF Skip
  <2> QED
    BY <2>1, <2>2 DEF FaithfulInstruction, Handled, Form, First, Second, Operations
<1>3. ISA!Ignore
  BY <1>1, <1>2 DEF Skip, Advance, ISA!Ignore
<1> QED
  BY <1>3 DEF ISA!Next

\* The simulator leaves memory only where an operand or the next instruction
\* is outside of it.
LEMMA OverrunRefines ==
  ASSUME StrongInv, Faithful, ~Lost, ~Lost', Overrun
  PROVE  ISA!Next
<1> USE DEF StrongInv
<1>1. CASE Offset \notin Word
  BY <1>1 DEF Overrun, ISA!GiveUp, ISA!Addresses, Word, ISA!Next
<1>2. CASE Offset \in Word
  <2>1. Fetching /\ memory[Offset] # 0 /\ Handled /\ ~InBounds
    BY <1>2 DEF Overrun, Fetching
  <2>2. /\ ISA!Executing /\ ISA!Current.First = First /\ ISA!Current.Second = Second
    BY <2>1, SameInstruction
  <2>3. ~(ISA!Reachable(First) /\ ISA!Reachable(Second))
    <3>1. Form \in {RegReg, RegImm, MemReg, MemImm, RegMem}
      BY <2>1 DEF Handled
    <3>2. /\ First.Index \in Registers
          /\ Form \in {RegReg, RegMem, MemReg} => Second.Index \in Registers
          /\ Form = MemReg => First.Term \in Registers
          /\ Form = RegMem => Second.Term \in Registers
      BY <2>1, <3>1, FaithfulOperands DEF Form, RegReg, RegImm, MemReg, MemImm, RegMem
    <3>3. \/ Form = MemReg /\ RegisterStoreAddress(First) \notin Word
          \/ Form = MemImm /\ ImmediateStoreAddress(First) \notin Word
          \/ Form = RegMem /\ LoadAddress(Second) \notin Word
      BY <2>1, <3>2 DEF InBounds
    <3>4. \/ First.Type = "Memory" /\ ISA!EffectiveAddress(First) \notin Word
          \/ Second.Type = "Memory" /\ ISA!EffectiveAddress(Second) \notin Word
      BY <2>1, <3>3, EffectiveAddresses DEF Form, MemReg, MemImm, RegMem
    <3> QED
      BY <3>4 DEF ISA!Reachable, ISA!Addresses, Word
  <2> QED
    BY <1>2, <2>2, <2>3 DEF Overrun, ISA!GiveUp, ISA!Addresses, Word, ISA!Next
<1> QED
  BY <1>1, <1>2

\* Starting and stopping.
LEMMA ControlRefines ==
  ASSUME StrongInv, ~Lost, ~Lost', NoProgram \/ (\E image \in Images : Load(image) \/ LoadOverrun(image)) \/ Halt
  PROVE  ISA!Next
<1>1. CASE NoProgram \/ Halt
  BY <1>1 DEF NoProgram, Halt, Fetching, ISA!Stop, ISA!Next, ISA!Addresses, Word
<1>2. ASSUME NEW image \in Images, Load(image)
      PROVE  ISA!Next
  BY <1>2 DEF Load, ISA!Start, ISA!Next, ISA!Addresses, Word
<1>3. ASSUME NEW image \in Images, LoadOverrun(image)
      PROVE  ISA!Next
  BY <1>3 DEF LoadOverrun, ISA!GiveUp, ISA!Next
<1> QED
  BY <1>1, <1>2, <1>3

-----------------------------------------------------------------------------
(***************************************************************************)
(* The strengthened invariant, and the implementation.                     *)
(***************************************************************************)

\* Branches write a register only through SetRegister, to their first operand.
LEMMA ZeroRegisterKept ==
  ASSUME StrongInv, Faithful, [Next]_vars
  PROVE  ZeroRegister'
<1> USE DEF StrongInv
<1>1. CASE UNCHANGED registers
  BY <1>1 DEF ZeroRegister
<1>2. ASSUME NEW op, NEW form \in {RegReg, RegImm, RegMem}, Execute(op, form),
             NEW value, SetRegister(value)
      PROVE  ZeroRegister'
  <2>1. First.Type = "Register" /\ Fetching /\ memory[Offset] # 0
    BY <1>2 DEF Execute, Form, RegReg, RegImm, RegMem
  <2>2. First.Index # 0
    BY <2>1, FaithfulOperands
  <2> QED
    BY <1>2, <2>2 DEF SetRegister, ZeroRegister, TypeOK, Registers
<1>3. CASE Mov
  BY <1>1, <1>2, <1>3 DEF Mov, MovRegReg, MovRegImm, MovMemReg, MovMemImm, MovRegMem
<1>4. CASE Add
  BY <1>1, <1>2, <1>4 DEF Add, AddRegReg, AddRegImm, AddMemReg, AddMemImm, AddRegMem
<1>5. CASE Sub
  BY <1>1, <1>2, <1>5 DEF Sub, SubRegReg, SubRegImm
<1>6. CASE Cmp \/ Jne \/ Skip \/ Halt \/ Overrun \/ NoProgram
  BY <1>1, <1>6 DEF Cmp, CmpRegReg, CmpRegImm, Jne, Skip, Halt, Overrun, NoProgram
<1>7. CASE \E image \in Images : Load(image) \/ LoadOverrun(image)
  BY <1>1, <1>7 DEF Load, LoadOverrun
<1>8. CASE UNCHANGED vars
  BY <1>1, <1>8 DEF vars
<1> QED
  BY <1>3, <1>4, <1>5, <1>6, <1>7, <1>8 DEF Next

\* An instruction that is not faithful may write the unused register.
IsaInv ==
  /\ TypeOK /\ IpTracksOffset
  /\ ~Lost => ZeroRegister

LEMMA InitRefines == Init => IsaInv /\ ISA!Init
<1>1. Init => ZeroRegister /\ ~Lost
  BY DEF Init, ZeroRegister, Registers, Lost
<1> QED
  BY <1>1, InitEstablishesInv DEF Init, IsaInv, Inv, ISA!Init, ISA!Addresses, Word, Registers

\* While no instruction has come that the machine does not know.
LEMMA StepRefines ==
  ASSUME StrongInv, Faithful, ~Lost, ~Lost', Next
  PROVE  ISA!Next
BY MovRefines, AddRefines, SubRefines, CmpRefines, JneRefines, SkipRefines, OverrunRefines,
   ControlRefines DEF Next

\* Every step but those that load a program or end it executes an instruction, or is
\* past the bounds of memory.
LEMMA Executes ==
  ASSUME Next
  PROVE  \/ executed' = executed \cup {memory[Offset]} /\ Fetching /\ memory[Offset] # 0
         \/ UNCHANGED executed /\ (~Fetching \/ memory[Offset] = 0 \/ Overrun)
<1>1. CASE Mov
  BY <1>1 DEF Mov, MovRegReg, MovRegImm, MovMemReg, MovMemImm, MovRegMem, Execute, Advance
<1>2. CASE Add
  BY <1>2 DEF Add, AddRegReg, AddRegImm, AddMemReg, AddMemImm, AddRegMem, Execute, Advance
<1>3. CASE Sub \/ Cmp
  BY <1>3 DEF Sub, SubRegReg, SubRegImm, Cmp, CmpRegReg, CmpRegImm, Execute, Advance
<1>4. CASE Jne \/ Skip
  BY <1>4 DEF Jne, Jump, Skip, Advance
<1>5. CASE Halt \/ Overrun
  BY <1>5 DEF Halt, Overrun
<1>6. CASE NoProgram \/ (\E image \in Images : Load(image) \/ LoadOverrun(image))
  BY <1>6 DEF NoProgram, Load, LoadOverrun, Fetching
<1> QED
  BY <1>1, <1>2, <1>3, <1>4, <1>5, <1>6 DEF Next

LEMMA NextRefines ==
  ASSUME IsaInv, [Next]_vars
  PROVE  IsaInv' /\ [ISA!Next]_ISA!vars
<1>1. executed \subseteq executed'
  BY Executes DEF vars
<1>2. TypeOK' /\ IpTracksOffset'
  BY NextPreservesInv DEF IsaInv, Inv
<1>3. Lost => Lost'
  BY <1>1 DEF Lost
<1>4. CASE Lost
  <2>1. ISA!Wander
    BY <1>3, <1>4 DEF ISA!Wander
  <2> QED
    BY <1>2, <1>3, <1>4, <2>1 DEF IsaInv, ISA!Next
<1>5. CASE UNCHANGED vars
  <2>1. UNCHANGED Lost
    BY <1>5 DEF vars, Lost
  <2> QED
    BY <1>2, <1>5, <2>1 DEF vars, ISA!vars, IsaInv, ZeroRegister
<1>6. CASE ~Lost /\ Next
  <2>1. StrongInv
    BY <1>6 DEF IsaInv, StrongInv
  <2>2. CASE Faithful /\ ~Lost'
    BY <1>2, <1>6, <2>1, <2>2, StepRefines, ZeroRegisterKept DEF IsaInv
  <2>3. CASE ~Faithful
    <3>1. Fetching /\ memory[Offset] # 0 /\ memory[Offset] \notin FaithfulBytes
      BY <2>3 DEF Faithful, FaithfulBytes, Decoded
    <3>2. status' = "undefined" \/ Lost'
      BY <1>6, <3>1, Executes DEF Overrun, Lost
    <3>3. ISA!Wander
      BY <1>6, <3>1, <3>2 DEF Fetching, Word, ISA!Wander, ISA!Fetched, ISA!Addresses
    <3>4. Lost' \/ UNCHANGED registers
      BY <1>6, <3>1, Executes DEF Overrun, Lost
    <3> QED
      BY <1>2, <1>6, <2>1, <3>3, <3>4 DEF IsaInv, StrongInv, ZeroRegister, ISA!Next
  <2>4. CASE Faithful /\ Lost'
    <3>1. Fetching /\ memory[Offset] # 0 /\ memory[Offset] \notin FaithfulBytes
      BY <1>6, <2>4, Executes DEF Lost
    <3>2. memory[Offset] \in FaithfulBytes
      BY <2>1, <2>4, <3>1 DEF Faithful, FaithfulBytes, Decoded, StrongInv, TypeOK, Fetching
    <3> QED
      BY <3>1, <3>2
  <2> QED
    BY <2>2, <2>3, <2>4
<1> QED
  BY <1>4, <1>5, <1>6

\* The simulator is the abstract machine until it comes to an instruction that is not
\* faithful, for every program and decoder: results, flags, addresses, jumps and the
\* bounds of memory (8086sim.cpp:79-533).
THEOREM Implementation == Spec => ImplementsIsa
<1>1. IsaInv /\ [Next]_vars => IsaInv' /\ [ISA!Next]_ISA!vars
  BY NextRefines
<1> QED
  BY <1>1, InitRefines, PTL DEF Spec, ImplementsIsa, ISA!Spec
=============================================================================
