-------------------------- MODULE Disasm86_proofs --------------------------
(***************************************************************************)
(* Proofs about the disassembler: its variables keep their types for every *)
(* file, and every line of the forms it is meant for is printed as it was  *)
(* written, for all registers, displacements and immediates.               *)
(***************************************************************************)
EXTENDS Disasm86_code, TLAPS

\* The parts of a byte are what the masks cut out of it.
LEMMA Fields ==
  ASSUME NEW b \in Byte
  PROVE  /\ b \div 64 \in 0 .. 3 /\ b \div 8 \in 0 .. 31 /\ (b \div 8) % 8 \in 0 .. 7
         /\ b % 8 \in 0 .. 7 /\ b % 2 \in {0, 1} /\ (b \div 2) % 2 \in {0, 1}
         /\ (b \div 8) % 2 \in {0, 1}
BY DEF Byte

LEMMA BytesRead ==
  ASSUME TypeOK, NEW n \in Nat \ {0}
  PROVE  /\ ByteAt(n) \in Byte
         /\ Read(n) => pos' \in 0 .. Len(file)
<1>1. file \in Seq(Byte) /\ Len(file) \in Nat /\ pos \in 0 .. Len(file)
  BY DEF TypeOK
<1>2. EOF \in Byte
  BY DEF EOF, Byte
<1>3. pos + n <= Len(file) => pos + n \in 1 .. Len(file)
  BY <1>1
<1>4. ByteAt(n) \in Byte
  BY <1>1, <1>2, <1>3 DEF ByteAt
<1> QED
  BY <1>1, <1>3, <1>4 DEF Read

LEMMA FieldTypes ==
  ASSUME TypeOK
  PROVE  /\ Mod \in 0 .. 3 /\ RegField \in 0 .. 7 /\ Rm \in 0 .. 7
         /\ D \in {0, 1} /\ W \in {0, 1}
<1>1. ByteAt(1) \in Byte /\ ByteAt(2) \in Byte
  BY BytesRead
<1> QED
  BY <1>1, Fields DEF Mod, RegField, Rm, D, W

LEMMA RegisterType ==
  ASSUME NEW w \in {0, 1}, NEW n \in 0 .. 7
  PROVE  Register(w, n) \in Operands
<1>1. Register(w, n) \in RegisterOperands
  BY DEF Register, RegisterOperands
<1> QED
  BY <1>1, Zenon DEF Operands

LEMMA ImmediateType ==
  ASSUME NEW w \in {0, 1}, NEW lo \in Byte, NEW hi \in Byte
  PROVE  Immediate(Data(w, lo, hi)) \in Operands
<1>1. Data(w, lo, hi) \in Word
  BY DEF Data, Byte, Word
<1> DEFINE v == Data(w, lo, hi)
<1> HIDE DEF v
<1>2. Immediate(v) \in ImmediateOperands
  <2>1. v \in Word
    BY <1>1, Zenon DEF v
  <2> QED
    BY <2>1 DEF Immediate, ImmediateOperands
<1> QED
  BY <1>2, Zenon DEF Operands, v

LEMMA RmOpType ==
  ASSUME TypeOK, NEW lo \in Byte, NEW hi \in Byte
  PROVE  RmOp(lo, hi) \in Operands
<1> DEFINE d == IF Mod = 0 THEN 0 ELSE IF Mod = 1 THEN lo ELSE 256 * hi + lo
<1>1. d \in Word
  <2>1. lo \in 0 .. 255 /\ hi \in 0 .. 255
    BY DEF Byte
  <2>2. CASE Mod = 0
    BY <2>2 DEF Word
  <2>3. CASE Mod = 1
    BY <2>1, <2>3 DEF Word
  <2>4. CASE Mod # 0 /\ Mod # 1
    BY <2>1, <2>4 DEF Word
  <2> QED
    BY <2>2, <2>3, <2>4, Zenon
<1>2. RmOp(lo, hi) = Memory(Rm, d)
  BY DEF RmOp
<1> HIDE DEF d
<1>3. Memory(Rm, d) \in MemoryOperands
  BY <1>1, FieldTypes DEF Memory, MemoryOperands
<1> QED
  BY <1>2, <1>3, Zenon DEF Operands

LEMMA LineType ==
  ASSUME TypeOK, NEW op \in {"mov", "add"}, NEW destination \in Operands, NEW source \in Operands,
         PrintLine(op, destination, source)
  PROVE  out' \in Seq(Lines)
<1> DEFINE line == [op |-> op, destination |-> destination, source |-> source]
<1>1. line \in Lines
  BY DEF Lines
<1>2. out \in Seq(Lines) /\ out' = Append(out, line)
  BY DEF TypeOK, PrintLine
<1> HIDE DEF line
<1> QED
  BY <1>1, <1>2

LEMMA RegisterMemoryType ==
  ASSUME TypeOK, status = "reading", NEW op \in {"mov", "add"}, RegisterMemory(op)
  PROVE  TypeOK'
<1> DEFINE fourth == IF Mod = 2 THEN ByteAt(4) ELSE byte4
           lo == IF Mod \in {1, 2} THEN ByteAt(3) ELSE 0
           hi == IF Mod \in {1, 2} THEN fourth ELSE 0
           register == Register(W, RegField)
           n == CASE Mod = 1 -> 3 [] Mod = 2 -> 4 [] OTHER -> 2
<1>1. fourth \in Byte /\ lo \in Byte /\ hi \in Byte
  BY BytesRead, 0 \in Byte DEF TypeOK, Byte
<1>2. n \in Nat \ {0}
  OBVIOUS
<1>3. /\ Read(n) /\ byte4' = fourth /\ dispLo' = lo /\ dispHi' = hi
      /\ UNCHANGED <<file, data1, data2, status>>
      /\ IF Mod = 3 THEN PrintLine(op, Register(W, Rm), register)
         ELSE IF D = 1 THEN PrintLine(op, register, RmOp(lo, hi))
         ELSE PrintLine(op, RmOp(lo, hi), register)
  BY DEF RegisterMemory
<1>4. register \in Operands /\ Register(W, Rm) \in Operands
  BY FieldTypes, RegisterType
<1> HIDE DEF fourth, lo, hi, register, n
<1>5. RmOp(lo, hi) \in Operands
  BY <1>1, RmOpType
<1>6. out' \in Seq(Lines)
  BY <1>3, <1>4, <1>5, LineType
<1>7. pos' \in 0 .. Len(file)
  BY <1>2, <1>3, BytesRead
<1> QED
  BY <1>1, <1>3, <1>6, <1>7 DEF TypeOK

LEMMA ImmediateToType ==
  ASSUME TypeOK, status = "reading", NEW register \in Operands, NEW op \in {"mov", "add"},
         NEW w \in {0, 1}, ImmediateTo(register, op, w)
  PROVE  TypeOK'
<1> DEFINE hi == IF w = 1 THEN ByteAt(3) ELSE 0
<1>1. ByteAt(2) \in Byte /\ hi \in Byte
  BY BytesRead DEF Byte
<1>2. /\ Read(2 + w) /\ data1' = ByteAt(2) /\ data2' = hi
      /\ PrintLine(op, register, Immediate(Data(w, ByteAt(2), hi)))
      /\ UNCHANGED <<file, byte4, dispLo, dispHi, status>>
  BY DEF ImmediateTo
<1> HIDE DEF hi
<1>3. out' \in Seq(Lines)
  BY <1>1, <1>2, ImmediateType, LineType
<1>4. pos' \in 0 .. Len(file)
  BY <1>2, BytesRead
<1> QED
  BY <1>1, <1>2, <1>3, <1>4 DEF TypeOK

LEMMA AddImmediateType ==
  ASSUME TypeOK, AddImmediate
  PROVE  TypeOK'
<1>1. ByteAt(3) \in Byte /\ ByteAt(4) \in Byte /\ 0 \in Byte
  BY BytesRead DEF Byte
<1>2. data1' \in Byte /\ data2' \in Byte /\ byte4' \in Byte
  BY <1>1 DEF AddImmediate, TypeOK
<1> DEFINE destination == IF Mod = 3 THEN Register(W, Rm) ELSE RmOp(dispLo, dispHi)
           source == Immediate(Data(W, data1', data2'))
<1>3. destination \in Operands
  BY FieldTypes, RegisterType, RmOpType DEF TypeOK
<1>4. source \in Operands
  BY <1>2, FieldTypes, ImmediateType
<1>5. PrintLine("add", destination, source)
  BY DEF AddImmediate
<1> HIDE DEF destination, source
<1>6. out' \in Seq(Lines)
  BY <1>3, <1>4, <1>5, LineType
<1>7. pos' \in 0 .. Len(file)
  BY FieldTypes, BytesRead DEF AddImmediate
<1> QED
  BY <1>2, <1>6, <1>7 DEF AddImmediate, TypeOK

LEMMA InitialTypes == Init => TypeOK
BY FilesAreBytes DEF Init, Open, TypeOK, Byte

LEMMA StepTypes == TypeOK /\ [Next]_vars => TypeOK'
<1> SUFFICES ASSUME TypeOK, [Next]_vars PROVE TypeOK'
  OBVIOUS
<1>1. CASE MovRegisterMemory
  BY <1>1, RegisterMemoryType DEF MovRegisterMemory, Opcode
<1>2. CASE MovImmediate
  <2> DEFINE w == (ByteAt(1) \div 8) % 2
  <2>1. w \in {0, 1} /\ ByteAt(1) % 8 \in 0 .. 7
    BY BytesRead, Fields
  <2>2. ImmediateTo(Register(w, ByteAt(1) % 8), "mov", w) /\ status = "reading"
    BY <1>2 DEF MovImmediate, Opcode
  <2> HIDE DEF w
  <2> QED
    BY <2>1, <2>2, RegisterType, ImmediateToType
<1>3. CASE AddRegisterMemory
  BY <1>3, RegisterMemoryType DEF AddRegisterMemory, Opcode
<1>4. CASE AddToAccumulator
  <2>1. ImmediateTo(Register(W, 0), "add", W) /\ status = "reading"
    BY <1>4 DEF AddToAccumulator, Opcode
  <2>2. W \in {0, 1} /\ Register(W, 0) \in Operands
    BY FieldTypes, RegisterType
  <2> QED
    BY <2>1, <2>2, ImmediateToType
<1>5. CASE AddImmediate
  BY <1>5, AddImmediateType
<1>6. CASE Skip
  BY <1>6, BytesRead DEF Skip, TypeOK
<1>7. CASE End
  BY <1>7, BytesRead DEF End, TypeOK
<1>8. CASE UNCHANGED vars
  BY <1>8 DEF vars, TypeOK
<1> QED
  BY <1>1, <1>2, <1>3, <1>4, <1>5, <1>6, <1>7, <1>8 DEF Next

\* The fields of an instruction stay within the operands they are printed as, for
\* every file (main of 8086decoder.c).
THEOREM FieldsFit == Spec => []TypeOK
BY InitialTypes, StepTypes, PTL DEF Spec

-----------------------------------------------------------------------------

LEMMA TwoBytes ==
  ASSUME TypeOK, NEW a, NEW b, ComesNext(<<a, b>>)
  PROVE  ByteAt(1) = a /\ ByteAt(2) = b /\ (Read(2) => pos' = pos + 2)
BY DEF TypeOK, ComesNext, ByteAt, Read

LEMMA ThreeBytes ==
  ASSUME TypeOK, NEW a, NEW b, NEW c, ComesNext(<<a, b, c>>)
  PROVE  /\ ByteAt(1) = a /\ ByteAt(2) = b /\ ByteAt(3) = c
         /\ Read(3) => pos' = pos + 3
BY DEF TypeOK, ComesNext, ByteAt, Read

LEMMA FourBytes ==
  ASSUME TypeOK, NEW a, NEW b, NEW c, NEW d, ComesNext(<<a, b, c, d>>)
  PROVE  /\ ByteAt(1) = a /\ ByteAt(2) = b /\ ByteAt(3) = c /\ ByteAt(4) = d
         /\ Read(4) => pos' = pos + 4
BY DEF TypeOK, ComesNext, ByteAt, Read

\* The fields of a byte that was made of them.
LEMMA ModesFields ==
  ASSUME NEW mod \in 0 .. 3, NEW reg \in 0 .. 7, NEW rm \in 0 .. 7,
         ByteAt(2) = Modes(mod, reg, rm)
  PROVE  Mod = mod /\ RegField = reg /\ Rm = rm
BY DEF Modes, Mod, RegField, Rm

LEMMA FirstFields ==
  ASSUME NEW op \in {"mov", "add"}, NEW d \in {0, 1}, NEW w \in {0, 1}, Next,
         ByteAt(1) = First(op, d, w)
  PROVE  D = d /\ W = w /\ RegisterMemory(op)
<1>1. D = d /\ W = w
  BY DEF First, RegMemBits, D, W
<1>2. CASE op = "mov"
  <2>1. ByteAt(1) = 136 + 2 * d + w
    BY <1>2 DEF First, RegMemBits
  <2>2. /\ ByteAt(1) \div 4 = 34 /\ ByteAt(1) \div 16 = 8 /\ ByteAt(1) \div 2 \in {68, 69}
        /\ ByteAt(1) # 255
    BY <2>1
  <2>3. MovRegisterMemory
    BY <2>2 DEF Next, MovImmediate, AddRegisterMemory, AddToAccumulator, AddImmediate, Skip,
      End, Opcode, EOF
  <2> QED
    BY <1>1, <1>2, <2>3 DEF MovRegisterMemory
<1>3. CASE op = "add"
  <2>1. ByteAt(1) = 2 * d + w
    BY <1>3 DEF First, RegMemBits
  <2>2. /\ ByteAt(1) \div 4 = 0 /\ ByteAt(1) \div 16 = 0 /\ ByteAt(1) \div 2 \in {0, 1}
        /\ ByteAt(1) # 255
    BY <2>1
  <2>3. AddRegisterMemory
    BY <2>2 DEF Next, MovRegisterMemory, MovImmediate, AddToAccumulator, AddImmediate, Skip,
      End, Opcode, EOF
  <2> QED
    BY <1>1, <1>3, <2>3 DEF AddRegisterMemory
<1> QED
  BY <1>2, <1>3

LEMMA RegisterToRegisterPrinted ==
  ASSUME TypeOK, Next, NEW form \in RegisterToRegister, ComesNext(form.code)
  PROVE  Printed(form)
<1>1. PICK op \in {"mov", "add"}, w \in {0, 1}, reg \in Numbers, rm \in Numbers :
        form = [code |-> <<First(op, 0, w), Modes(3, reg, rm)>>,
                line |-> Line(op, Register(w, rm), Register(w, reg))]
  BY DEF RegisterToRegister
<1>2. reg \in 0 .. 7 /\ rm \in 0 .. 7
  BY OperandValues
<1>3. ComesNext(<<First(op, 0, w), Modes(3, reg, rm)>>)
  BY <1>1
<1>4. /\ ByteAt(1) = First(op, 0, w) /\ ByteAt(2) = Modes(3, reg, rm)
      /\ Read(2) => pos' = pos + 2
  BY <1>3, TwoBytes
<1>5. W = w /\ RegisterMemory(op)
  BY <1>4, FirstFields
<1>6. Mod = 3 /\ RegField = reg /\ Rm = rm
  BY <1>2, <1>4, ModesFields
<1>7. pos' = pos + 2 /\ out' = Append(out, Line(op, Register(w, rm), Register(w, reg)))
  BY <1>4, <1>5, <1>6 DEF RegisterMemory, PrintLine, Line
<1> QED
  BY <1>1, <1>7 DEF Printed

LEMMA WithoutDisplacementPrinted ==
  ASSUME TypeOK, Next, NEW form \in WithoutDisplacement, ComesNext(form.code)
  PROVE  Printed(form)
<1>1. PICK op \in {"mov", "add"}, d \in {0, 1}, w \in {0, 1}, reg \in Numbers,
           rm \in Numbers \ {6} :
        form = [code |-> <<First(op, d, w), Modes(0, reg, rm)>>,
                line |-> Directed(op, d, Register(w, reg), Memory(rm, 0))]
  BY DEF WithoutDisplacement
<1>2. reg \in 0 .. 7 /\ rm \in 0 .. 7
  BY OperandValues
<1>3. ComesNext(<<First(op, d, w), Modes(0, reg, rm)>>)
  BY <1>1
<1>4. /\ ByteAt(1) = First(op, d, w) /\ ByteAt(2) = Modes(0, reg, rm)
      /\ Read(2) => pos' = pos + 2
  BY <1>3, TwoBytes
<1>5. Read(2) /\ out' = Append(out, Directed(op, d, Register(w, reg), Memory(rm, 0)))
  <2>1. D = d /\ W = w /\ RegisterMemory(op)
    BY <1>4, FirstFields
  <2>2. Mod = 0 /\ RegField = reg /\ Rm = rm
    BY <1>2, <1>4, ModesFields
  <2> QED
    BY <1>4, <2>1, <2>2 DEF RegisterMemory, PrintLine, RmOp, Directed, Line
<1> QED
  BY <1>1, <1>4, <1>5 DEF Printed

LEMMA WithByteDisplacementPrinted ==
  ASSUME TypeOK, Next, NEW form \in WithByteDisplacement, ComesNext(form.code)
  PROVE  Printed(form)
<1>1. PICK op \in {"mov", "add"}, d \in {0, 1}, w \in {0, 1}, reg \in Numbers,
           rm \in Numbers, b \in {b \in Bytes : b < 128} :
        form = [code |-> <<First(op, d, w), Modes(1, reg, rm), b>>,
                line |-> Directed(op, d, Register(w, reg), Memory(rm, b))]
  BY DEF WithByteDisplacement
<1>2. reg \in 0 .. 7 /\ rm \in 0 .. 7
  BY OperandValues
<1>3. ComesNext(<<First(op, d, w), Modes(1, reg, rm), b>>)
  BY <1>1
<1>4. /\ ByteAt(1) = First(op, d, w) /\ ByteAt(2) = Modes(1, reg, rm) /\ ByteAt(3) = b
      /\ Read(3) => pos' = pos + 3
  BY <1>3, ThreeBytes
<1>5. Read(3) /\ out' = Append(out, Directed(op, d, Register(w, reg), Memory(rm, b)))
  <2>1. D = d /\ W = w /\ RegisterMemory(op)
    BY <1>4, FirstFields
  <2>2. Mod = 1 /\ RegField = reg /\ Rm = rm
    BY <1>2, <1>4, ModesFields
  <2> QED
    BY <1>4, <2>1, <2>2 DEF RegisterMemory, PrintLine, RmOp, Directed, Line
<1> QED
  BY <1>1, <1>4, <1>5 DEF Printed

\* A word is put together from its bytes as it was taken apart.
LEMMA WordFromBytes ==
  ASSUME NEW n \in Word
  PROVE  256 * Hi(n) + Lo(n) = n
BY DEF Hi, Lo, Word

LEMMA WithWordDisplacementPrinted ==
  ASSUME TypeOK, Next, NEW form \in WithWordDisplacement, ComesNext(form.code)
  PROVE  Printed(form)
<1>1. PICK op \in {"mov", "add"}, d \in {0, 1}, w \in {0, 1}, reg \in Numbers,
           rm \in Numbers, n \in Words :
        form = [code |-> <<First(op, d, w), Modes(2, reg, rm), Lo(n), Hi(n)>>,
                line |-> Directed(op, d, Register(w, reg), Memory(rm, n))]
  BY DEF WithWordDisplacement
<1>2. reg \in 0 .. 7 /\ rm \in 0 .. 7 /\ n \in Word
  BY OperandValues
<1>3. ComesNext(<<First(op, d, w), Modes(2, reg, rm), Lo(n), Hi(n)>>)
  BY <1>1
<1>4. /\ ByteAt(1) = First(op, d, w) /\ ByteAt(2) = Modes(2, reg, rm)
      /\ ByteAt(3) = Lo(n) /\ ByteAt(4) = Hi(n)
      /\ Read(4) => pos' = pos + 4
  BY <1>3, FourBytes
<1>5. /\ Read(4)
      /\ out' = Append(out, Directed(op, d, Register(w, reg), Memory(rm, 256 * Hi(n) + Lo(n))))
  <2>1. D = d /\ W = w /\ RegisterMemory(op)
    BY <1>4, FirstFields
  <2>2. Mod = 2 /\ RegField = reg /\ Rm = rm
    BY <1>2, <1>4, ModesFields
  <2> QED
    BY <1>4, <2>1, <2>2 DEF RegisterMemory, PrintLine, RmOp, Directed, Line
<1>6. out' = Append(out, Directed(op, d, Register(w, reg), Memory(rm, n)))
  BY <1>2, <1>5, WordFromBytes
<1> QED
  BY <1>1, <1>4, <1>5, <1>6 DEF Printed

LEMMA MovImmediateTaken ==
  ASSUME Next, NEW w \in {0, 1}, NEW reg \in 0 .. 7, ByteAt(1) = 176 + 8 * w + reg
  PROVE  ImmediateTo(Register(w, reg), "mov", w)
<1>1. /\ ByteAt(1) \div 16 = 11 /\ ByteAt(1) \div 4 \in 44 .. 47
      /\ ByteAt(1) \div 2 \in 88 .. 95 /\ ByteAt(1) # 255
      /\ (ByteAt(1) \div 8) % 2 = w /\ ByteAt(1) % 8 = reg
  OBVIOUS
<1>2. MovImmediate
  BY <1>1 DEF Next, MovRegisterMemory, AddRegisterMemory, AddToAccumulator, AddImmediate, Skip,
    End, Opcode, EOF
<1> QED
  BY <1>1, <1>2 DEF MovImmediate

LEMMA AddToAccumulatorTaken ==
  ASSUME Next, NEW w \in {0, 1}, ByteAt(1) = 4 + w
  PROVE  ImmediateTo(Register(w, 0), "add", w)
<1>1. /\ ByteAt(1) \div 16 = 0 /\ ByteAt(1) \div 4 = 1 /\ ByteAt(1) \div 2 = 2
      /\ ByteAt(1) # 255 /\ W = w
  BY DEF W
<1>2. AddToAccumulator
  BY <1>1 DEF Next, MovRegisterMemory, MovImmediate, AddRegisterMemory, AddImmediate, Skip,
    End, Opcode, EOF
<1> QED
  BY <1>1, <1>2 DEF AddToAccumulator

LEMMA AddImmediateTaken ==
  ASSUME Next, NEW w \in {0, 1}, ByteAt(1) = 128 + w
  PROVE  AddImmediate /\ W = w
<1>1. /\ ByteAt(1) \div 16 = 8 /\ ByteAt(1) \div 4 = 32 /\ ByteAt(1) \div 2 = 64
      /\ ByteAt(1) # 255 /\ W = w
  BY DEF W
<1> QED
  BY <1>1 DEF Next, MovRegisterMemory, MovImmediate, AddRegisterMemory, AddToAccumulator, Skip,
    End, Opcode, EOF

LEMMA ByteImmediatePrinted ==
  ASSUME TypeOK, Next, NEW form \in ByteImmediate, ComesNext(form.code)
  PROVE  Printed(form)
<1>1. ASSUME NEW reg \in Numbers, NEW b \in Bytes,
             form = [code |-> <<176 + reg, b>>,
                     line |-> Line("mov", Register(0, reg), Immediate(b))]
      PROVE  Printed(form)
  <2>1. ComesNext(<<176 + reg, b>>)
    BY <1>1
  <2>2. ByteAt(1) = 176 + reg /\ ByteAt(2) = b /\ (Read(2) => pos' = pos + 2)
    BY <2>1, TwoBytes
  <2>3. reg \in 0 .. 7 /\ ByteAt(1) = 176 + 8 * 0 + reg
    BY <2>2, OperandValues
  <2>4. ImmediateTo(Register(0, reg), "mov", 0)
    BY <2>3, MovImmediateTaken
  <2> QED
    BY <1>1, <2>2, <2>4 DEF ImmediateTo, Data, PrintLine, Line, Printed
<1>2. ASSUME NEW b \in Bytes,
             form = [code |-> <<4, b>>, line |-> Line("add", Register(0, 0), Immediate(b))]
      PROVE  Printed(form)
  <2>1. ComesNext(<<4, b>>)
    BY <1>2
  <2>2. ByteAt(1) = 4 /\ ByteAt(2) = b /\ (Read(2) => pos' = pos + 2)
    BY <2>1, TwoBytes
  <2>3. ImmediateTo(Register(0, 0), "add", 0)
    BY <2>2, AddToAccumulatorTaken
  <2> QED
    BY <1>2, <2>2, <2>3 DEF ImmediateTo, Data, PrintLine, Line, Printed
<1>3. ASSUME NEW rm \in Numbers, NEW b \in Bytes,
             form = [code |-> <<128, Modes(3, 0, rm), b>>,
                     line |-> Line("add", Register(0, rm), Immediate(b))]
      PROVE  Printed(form)
  <2>1. ComesNext(<<128, Modes(3, 0, rm), b>>)
    BY <1>3
  <2>2. /\ ByteAt(1) = 128 /\ ByteAt(2) = Modes(3, 0, rm) /\ ByteAt(3) = b
        /\ Read(3) => pos' = pos + 3
    BY <2>1, ThreeBytes
  <2>3. AddImmediate /\ W = 0
    BY <2>2, AddImmediateTaken
  <2>4. Mod = 3 /\ Rm = rm
    BY <2>2, ModesFields, OperandValues
  <2> QED
    BY <1>3, <2>2, <2>3, <2>4 DEF AddImmediate, Data, PrintLine, Line, Printed
<1> QED
  BY <1>1, <1>2, <1>3 DEF ByteImmediate

LEMMA WordImmediatePrinted ==
  ASSUME TypeOK, Next, NEW form \in WordImmediate, ComesNext(form.code)
  PROVE  Printed(form)
<1>1. ASSUME NEW reg \in Numbers, NEW n \in Words,
             form = [code |-> <<184 + reg, Lo(n), Hi(n)>>,
                     line |-> Line("mov", Register(1, reg), Immediate(n))]
      PROVE  Printed(form)
  <2>1. ComesNext(<<184 + reg, Lo(n), Hi(n)>>)
    BY <1>1
  <2>2. /\ ByteAt(1) = 184 + reg /\ ByteAt(2) = Lo(n) /\ ByteAt(3) = Hi(n)
        /\ Read(3) => pos' = pos + 3
    BY <2>1, ThreeBytes
  <2>3. reg \in 0 .. 7 /\ ByteAt(1) = 176 + 8 * 1 + reg
    BY <2>2, OperandValues
  <2>4. ImmediateTo(Register(1, reg), "mov", 1)
    BY <2>3, MovImmediateTaken
  <2>5. Data(1, Lo(n), Hi(n)) = n
    BY WordFromBytes, OperandValues DEF Data
  <2> QED
    BY <1>1, <2>2, <2>4, <2>5 DEF ImmediateTo, PrintLine, Line, Printed
<1>2. ASSUME NEW n \in Words,
             form = [code |-> <<5, Lo(n), Hi(n)>>,
                     line |-> Line("add", Register(1, 0), Immediate(n))]
      PROVE  Printed(form)
  <2>1. ComesNext(<<5, Lo(n), Hi(n)>>)
    BY <1>2
  <2>2. /\ ByteAt(1) = 5 /\ ByteAt(2) = Lo(n) /\ ByteAt(3) = Hi(n)
        /\ Read(3) => pos' = pos + 3
    BY <2>1, ThreeBytes
  <2>3. ImmediateTo(Register(1, 0), "add", 1)
    BY <2>2, AddToAccumulatorTaken
  <2>4. Data(1, Lo(n), Hi(n)) = n
    BY WordFromBytes, OperandValues DEF Data
  <2> QED
    BY <1>2, <2>2, <2>3, <2>4 DEF ImmediateTo, PrintLine, Line, Printed
<1>3. ASSUME NEW rm \in Numbers, NEW n \in Words,
             form = [code |-> <<129, Modes(3, 0, rm), Lo(n), Hi(n)>>,
                     line |-> Line("add", Register(1, rm), Immediate(n))]
      PROVE  Printed(form)
  <2>1. ComesNext(<<129, Modes(3, 0, rm), Lo(n), Hi(n)>>)
    BY <1>3
  <2>2. /\ ByteAt(1) = 129 /\ ByteAt(2) = Modes(3, 0, rm)
        /\ ByteAt(3) = Lo(n) /\ ByteAt(4) = Hi(n)
        /\ Read(4) => pos' = pos + 4
    BY <2>1, FourBytes
  <2>3. AddImmediate /\ W = 1
    BY <2>2, AddImmediateTaken
  <2>4. Mod = 3 /\ Rm = rm
    BY <2>2, ModesFields, OperandValues
  <2>5. Data(1, Lo(n), Hi(n)) = n
    BY WordFromBytes, OperandValues DEF Data
  <2>6. data1' = Lo(n) /\ data2' = Hi(n) /\ Read(4)
    BY <2>2, <2>3, <2>4 DEF AddImmediate
  <2> QED
    BY <1>3, <2>2, <2>3, <2>4, <2>5, <2>6 DEF AddImmediate, PrintLine, Line, Printed
<1> QED
  BY <1>1, <1>2, <1>3 DEF WordImmediate

LEMMA FormPrinted ==
  ASSUME TypeOK, Next, NEW form \in Forms, ComesNext(form.code)
  PROVE  Printed(form)
<1>1. CASE form \in RegisterToRegister
  BY <1>1, RegisterToRegisterPrinted
<1>2. CASE form \in WithoutDisplacement
  BY <1>2, WithoutDisplacementPrinted
<1>3. CASE form \in WithByteDisplacement
  BY <1>3, WithByteDisplacementPrinted
<1>4. CASE form \in WithWordDisplacement
  BY <1>4, WithWordDisplacementPrinted
<1>5. CASE form \in ByteImmediate
  BY <1>5, ByteImmediatePrinted
<1>6. CASE form \in WordImmediate
  BY <1>6, WordImmediatePrinted
<1> QED
  BY <1>1, <1>2, <1>3, <1>4, <1>5, <1>6 DEF Forms

\* Every line of every form is printed as it was written, whatever comes before it
\* (the five branches of main's loop).
THEOREM LinesAreReproduced == Spec => AssembledIsPrinted
<1> DEFINE Faithful ==
      \A form \in Forms : status = "reading" /\ ComesNext(form.code) => Printed(form)
<1>1. TypeOK /\ [Next]_vars => [Faithful]_vars
  BY FormPrinted
<1>2. Spec => []TypeOK /\ [][Next]_vars
  BY FieldsFit DEF Spec
<1>3. Spec => [][Faithful]_vars
  BY <1>1, <1>2, PTL
<1> QED
  BY <1>3 DEF AssembledIsPrinted

-----------------------------------------------------------------------------

\* What is left of the file are the first bytes of the code.
IsLeft(code) ==
  /\ pos < Len(file) /\ Len(file) < pos + Len(code)
  /\ \A i \in 1 .. Len(code) : pos + i <= Len(file) => file[pos + i] = code[i]

\* A line is printed and the file is at its end.
PrintedLast ==
  /\ Len(out') = Len(out) + 1 /\ \A k \in 1 .. Len(out) : out'[k] = out[k]
  /\ pos' = Len(file)

LEMMA LinePrinted ==
  ASSUME TypeOK, NEW op, NEW destination, NEW source, PrintLine(op, destination, source)
  PROVE  Len(out') = Len(out) + 1 /\ (\A k \in 1 .. Len(out) : out'[k] = out[k])
BY DEF TypeOK, PrintLine

LEMMA ReadPast ==
  ASSUME TypeOK, NEW n \in Nat, Read(n), Len(file) <= pos + n
  PROVE  pos' = Len(file)
<1>1. pos \in 0 .. Len(file) /\ Len(file) \in Nat
  BY DEF TypeOK
<1> QED
  BY <1>1 DEF Read

LEMMA LeftIsThere ==
  ASSUME TypeOK, NEW code, Len(code) \in 2 .. 4, IsLeft(code), NEW i \in 1 .. Len(code)
  PROVE  ByteAt(i) = IF pos + i <= Len(file) THEN code[i] ELSE EOF
BY DEF IsLeft, ByteAt

LEMMA FirstIsThere ==
  ASSUME TypeOK, NEW code, Len(code) \in 2 .. 4, IsLeft(code)
  PROVE  ByteAt(1) = code[1]
<1>1. pos + 1 <= Len(file)
  BY DEF IsLeft, TypeOK
<1> QED
  BY <1>1, LeftIsThere

LEMMA RegisterMemoryLast ==
  ASSUME TypeOK, NEW op, RegisterMemory(op),
         \/ Len(file) <= pos + 2
         \/ Mod = 1 /\ Len(file) <= pos + 3
         \/ Mod = 2 /\ Len(file) <= pos + 4
  PROVE  PrintedLast
<1> DEFINE n == CASE Mod = 1 -> 3 [] Mod = 2 -> 4 [] OTHER -> 2
<1>1. n \in 2 .. 4 /\ (Mod = 1 => n = 3) /\ (Mod = 2 => n = 4)
  OBVIOUS
<1>2. Read(n)
  BY DEF RegisterMemory
<1>3. pos' = Len(file)
  <2> HIDE DEF n
  <2>1. Len(file) <= pos + n
    BY <1>1 DEF TypeOK
  <2> QED
    BY <1>1, <1>2, <2>1, ReadPast
<1>4. \E destination, source : PrintLine(op, destination, source)
  BY DEF RegisterMemory
<1> QED
  BY <1>3, <1>4, LinePrinted DEF PrintedLast

LEMMA ImmediateToLast ==
  ASSUME TypeOK, NEW register, NEW op, NEW w \in {0, 1}, ImmediateTo(register, op, w),
         Len(file) <= pos + 2 + w
  PROVE  PrintedLast
<1>1. Read(2 + w) /\ \E destination, source : PrintLine(op, destination, source)
  BY DEF ImmediateTo
<1>2. pos' = Len(file)
  BY <1>1, ReadPast, Len(file) <= pos + (2 + w) DEF TypeOK
<1> QED
  BY <1>1, <1>2, LinePrinted DEF PrintedLast

LEMMA AddImmediateLast ==
  ASSUME TypeOK, AddImmediate, Len(file) <= pos + 3 + W
  PROVE  PrintedLast
<1>0. W \in {0, 1}
  BY FieldTypes
<1>1. Read(3 + W) /\ \E destination, source : PrintLine("add", destination, source)
  BY DEF AddImmediate
<1>2. pos' = Len(file)
  BY <1>0, <1>1, ReadPast, Len(file) <= pos + (3 + W) DEF TypeOK
<1> QED
  BY <1>1, <1>2, LinePrinted DEF PrintedLast

\* mov and add between a register and memory, of any mod.
LEMMA DirectedLast ==
  ASSUME TypeOK, Next, NEW op \in {"mov", "add"}, NEW d \in {0, 1}, NEW w \in {0, 1},
         NEW mod \in 0 .. 3, NEW reg \in 0 .. 7, NEW rm \in 0 .. 7,
         NEW code, Len(code) \in 2 .. 4, IsLeft(code),
         code[1] = First(op, d, w), code[2] = Modes(mod, reg, rm),
         Len(code) = 2 \/ (mod = 1 /\ Len(code) = 3) \/ (mod = 2 /\ Len(code) = 4)
  PROVE  PrintedLast
<1>1. ByteAt(1) = First(op, d, w)
  BY FirstIsThere
<1>2. RegisterMemory(op)
  BY <1>1, FirstFields
<1>3. CASE Len(file) <= pos + 1
  BY <1>2, <1>3, RegisterMemoryLast DEF TypeOK
<1>4. CASE pos + 2 <= Len(file)
  <2>1. ByteAt(2) = Modes(mod, reg, rm)
    BY <1>4, LeftIsThere
  <2>2. Mod = mod
    BY <2>1, ModesFields
  <2>3. \/ Len(file) <= pos + 2
        \/ mod = 1 /\ Len(file) <= pos + 3
        \/ mod = 2 /\ Len(file) <= pos + 4
    <3>1. pos \in Nat /\ Len(file) \in Nat /\ Len(file) < pos + Len(code)
      BY DEF IsLeft, TypeOK
    <3>2. PICK p \in Nat, l \in Nat, n \in 2 .. 4 : p = pos /\ l = Len(file) /\ n = Len(code)
      BY <3>1
    <3>3. CASE n = 2
      BY <3>1, <3>2, <3>3
    <3>4. CASE mod = 1 /\ n = 3
      BY <3>1, <3>2, <3>4
    <3>5. CASE mod = 2 /\ n = 4
      BY <3>1, <3>2, <3>5
    <3> QED
      BY <3>2, <3>3, <3>4, <3>5
  <2> QED
    BY <1>2, <2>2, <2>3, RegisterMemoryLast
<1> QED
  BY <1>3, <1>4 DEF TypeOK

LEMMA ImmediateLast ==
  ASSUME TypeOK, Next, NEW form \in ByteImmediate \cup WordImmediate, IsLeft(form.code)
  PROVE  PrintedLast
<1>1. ASSUME NEW w \in {0, 1}, NEW reg \in 0 .. 7, Len(form.code) = 2 + w,
             form.code[1] = 176 + 8 * w + reg
      PROVE  PrintedLast
  <2>1. ByteAt(1) = 176 + 8 * w + reg
    BY <1>1, Len(form.code) \in 2 .. 4, FirstIsThere
  <2>2. Len(file) <= pos + 2 + w
    BY <1>1 DEF IsLeft, TypeOK
  <2> QED
    BY <2>1, <2>2, MovImmediateTaken, ImmediateToLast
<1>2. ASSUME NEW w \in {0, 1}, Len(form.code) = 2 + w, form.code[1] = 4 + w
      PROVE  PrintedLast
  <2>1. ByteAt(1) = 4 + w
    BY <1>2, Len(form.code) \in 2 .. 4, FirstIsThere
  <2>2. Len(file) <= pos + 2 + w
    BY <1>2 DEF IsLeft, TypeOK
  <2> QED
    BY <2>1, <2>2, AddToAccumulatorTaken, ImmediateToLast
<1>3. ASSUME NEW w \in {0, 1}, Len(form.code) = 3 + w, form.code[1] = 128 + w
      PROVE  PrintedLast
  <2>1. ByteAt(1) = 128 + w
    BY <1>3, Len(form.code) \in 2 .. 4, FirstIsThere
  <2>2. Len(file) <= pos + 3 + w
    BY <1>3 DEF IsLeft, TypeOK
  <2> QED
    BY <2>1, <2>2, AddImmediateTaken, AddImmediateLast
<1>4. CASE form \in ByteImmediate
  <2>1. CASE \E reg \in Numbers, b \in Bytes : form.code = <<176 + reg, b>>
    BY <2>1, <1>1, 176 + 8 * 0 = 176, OperandValues
  <2>2. CASE \E b \in Bytes : form.code = <<4, b>>
    BY <2>2, <1>2
  <2>3. CASE \E rm \in Numbers, b \in Bytes : form.code = <<128, Modes(3, 0, rm), b>>
    BY <2>3, <1>3
  <2> QED
    BY <1>4, <2>1, <2>2, <2>3 DEF ByteImmediate
<1>5. CASE form \in WordImmediate
  <2>1. CASE \E reg \in Numbers, n \in Words : form.code = <<184 + reg, Lo(n), Hi(n)>>
    BY <2>1, <1>1, 176 + 8 * 1 = 184, OperandValues
  <2>2. CASE \E n \in Words : form.code = <<5, Lo(n), Hi(n)>>
    BY <2>2, <1>2
  <2>3. CASE \E rm \in Numbers, n \in Words : form.code = <<129, Modes(3, 0, rm), Lo(n), Hi(n)>>
    BY <2>3, <1>3
  <2> QED
    BY <1>5, <2>1, <2>2, <2>3 DEF WordImmediate
<1> QED
  BY <1>4, <1>5

\* What is left of any form gives one more line, and the file is at its end.
LEMMA FormLast ==
  ASSUME TypeOK, Next, NEW form \in Forms, IsLeft(form.code)
  PROVE  PrintedLast
<1>1. CASE form \in RegisterToRegister
  <2>1. PICK op \in {"mov", "add"}, w \in {0, 1}, reg \in 0 .. 7, rm \in 0 .. 7 :
          form.code = <<First(op, 0, w), Modes(3, reg, rm)>>
    BY <1>1, OperandValues DEF RegisterToRegister
  <2>2. /\ form.code[1] = First(op, 0, w) /\ form.code[2] = Modes(3, reg, rm)
        /\ Len(form.code) = 2
    BY <2>1
  <2>3. Len(form.code) \in 2 .. 4 /\ 3 \in 0 .. 3 /\ 0 \in {0, 1}
    BY <2>2
  <2> QED
    BY <2>2, <2>3, DirectedLast, Zenon
<1>2. CASE form \in WithoutDisplacement
  <2>1. PICK op \in {"mov", "add"}, d \in {0, 1}, w \in {0, 1}, reg \in 0 .. 7, rm \in 0 .. 7 :
          form.code = <<First(op, d, w), Modes(0, reg, rm)>>
    BY <1>2, OperandValues DEF WithoutDisplacement
  <2>2. /\ form.code[1] = First(op, d, w) /\ form.code[2] = Modes(0, reg, rm)
        /\ Len(form.code) = 2
    BY <2>1
  <2>3. Len(form.code) \in 2 .. 4 /\ 0 \in 0 .. 3 /\ 0 \in {0, 1}
    BY <2>2
  <2> QED
    BY <2>2, <2>3, DirectedLast, Zenon
<1>3. CASE form \in WithByteDisplacement
  <2>1. PICK op \in {"mov", "add"}, d \in {0, 1}, w \in {0, 1}, reg \in 0 .. 7, rm \in 0 .. 7,
             b \in Bytes :
          form.code = <<First(op, d, w), Modes(1, reg, rm), b>>
    BY <1>3, OperandValues DEF WithByteDisplacement
  <2>2. /\ form.code[1] = First(op, d, w) /\ form.code[2] = Modes(1, reg, rm)
        /\ Len(form.code) = 3
    BY <2>1
  <2>3. Len(form.code) \in 2 .. 4 /\ 1 \in 0 .. 3 /\ 0 \in {0, 1}
    BY <2>2
  <2> QED
    BY <2>2, <2>3, DirectedLast, Zenon
<1>4. CASE form \in WithWordDisplacement
  <2>1. PICK op \in {"mov", "add"}, d \in {0, 1}, w \in {0, 1}, reg \in 0 .. 7, rm \in 0 .. 7,
             n \in Words :
          form.code = <<First(op, d, w), Modes(2, reg, rm), Lo(n), Hi(n)>>
    BY <1>4, OperandValues DEF WithWordDisplacement
  <2>2. /\ form.code[1] = First(op, d, w) /\ form.code[2] = Modes(2, reg, rm)
        /\ Len(form.code) = 4
    BY <2>1
  <2>3. Len(form.code) \in 2 .. 4 /\ 2 \in 0 .. 3 /\ 0 \in {0, 1}
    BY <2>2
  <2> QED
    BY <2>2, <2>3, DirectedLast, Zenon
<1>5. CASE form \in ByteImmediate \cup WordImmediate
  BY <1>5, ImmediateLast
<1> QED
  BY <1>1, <1>2, <1>3, <1>4, <1>5 DEF Forms

LEMMA FormCode ==
  ASSUME NEW form \in Forms
  PROVE  Len(form.code) \in 2 .. 4 /\ form.code[1] \in 0 .. 254
<1>1. \A op \in {"mov", "add"}, d \in {0, 1}, w \in {0, 1} : First(op, d, w) \in 0 .. 254
  BY DEF First, RegMemBits
<1>2. CASE form \in RegisterToRegister
  BY <1>1, <1>2 DEF RegisterToRegister
<1>3. CASE form \in WithoutDisplacement
  BY <1>1, <1>3 DEF WithoutDisplacement
<1>4. CASE form \in WithByteDisplacement
  BY <1>1, <1>4 DEF WithByteDisplacement
<1>5. CASE form \in WithWordDisplacement
  BY <1>1, <1>5 DEF WithWordDisplacement
<1>6. CASE form \in ByteImmediate
  BY <1>6, OperandValues DEF ByteImmediate
<1>7. CASE form \in WordImmediate
  BY <1>7, OperandValues DEF WordImmediate
<1> QED
  BY <1>2, <1>3, <1>4, <1>5, <1>6, <1>7 DEF Forms

-----------------------------------------------------------------------------

OfForms(source) == \A k \in 1 .. Len(source) : source[k].form \in Forms

\* Where the form after the first n begins, or the file ends.
PlaceAfter(source, n) == IF n = Len(source) THEN Len(file) ELSE source[n + 1].before

\* The lines printed are those of the forms the file has been read up to.
PrintedUpToHere(source) ==
  /\ Len(out) <= Len(source) /\ pos = PlaceAfter(source, Len(out))
  /\ \A k \in 1 .. Len(out) : IsWhole(source[k], file) => out[k] = source[k].form.line
  /\ status = "done" => Len(out) = Len(source)

PrintedSoFar ==
  file \in DOMAIN Sources /\ OfForms(Sources[file]) => PrintedUpToHere(Sources[file])

LEMMA InitiallyPrinted == Init => PrintedSoFar
<1> SUFFICES ASSUME Init, file \in DOMAIN Sources, NEW s, s = Sources[file]
             PROVE  PrintedUpToHere(s)
  BY DEF PrintedSoFar
<1>1. Len(s) \in Nat /\ (Len(s) = 0 => file = <<>>) /\ (Len(s) # 0 => s[1].before = 0)
  BY FilesHaveSources DEF IsSource
<1>2. pos = 0 /\ out = <<>> /\ status = "reading"
  BY DEF Init, Open
<1> QED
  BY <1>1, <1>2 DEF PrintedUpToHere, PlaceAfter

\* At the end of the file the loop ends.
LEMMA EndsAtTheEnd ==
  ASSUME TypeOK, Next, pos = Len(file)
  PROVE  out' = out /\ pos' = Len(file) /\ file' = file
<1>1. ByteAt(1) = EOF
  BY DEF TypeOK, ByteAt
<1>2. End
  BY <1>1 DEF Next, MovRegisterMemory, MovImmediate, AddRegisterMemory, AddToAccumulator,
    AddImmediate, Skip, Opcode
<1> QED
  BY <1>2 DEF End, Read, TypeOK

LEMMA FileKept == Next => file' = file /\ status = "reading"
BY DEF Next, MovRegisterMemory, MovImmediate, AddRegisterMemory, AddToAccumulator, AddImmediate,
  Skip, End, Opcode, RegisterMemory, ImmediateTo

LEMMA FormGoesOn ==
  ASSUME TypeOK, Next, NEW form \in Forms, IsLeft(form.code) \/ ComesNext(form.code)
  PROVE  status' = "reading"
<1>1. ByteAt(1) = form.code[1]
  <2>1. Len(form.code) \in 2 .. 4
    BY FormCode
  <2>2. CASE ComesNext(form.code)
    BY <2>1, <2>2 DEF ComesNext, ByteAt, TypeOK
  <2> QED
    BY <2>1, <2>2, FirstIsThere
<1>2. ByteAt(1) # EOF
  BY <1>1, FormCode DEF EOF
<1> QED
  BY <1>2 DEF Next, MovRegisterMemory, MovImmediate, AddRegisterMemory, AddToAccumulator,
    AddImmediate, Skip, End, Opcode, RegisterMemory, ImmediateTo

\* A turn prints the line of the next form and stands at the one after it.
LEMMA NextLinePrinted ==
  ASSUME TypeOK, Next, file \in DOMAIN Sources, NEW s, s = Sources[file], OfForms(s),
         PrintedUpToHere(s)
  PROVE  PrintedUpToHere(s)'
<1>1. /\ Len(s) \in Nat /\ Len(out) \in Nat /\ Len(file) \in Nat /\ Len(out) <= Len(s)
      /\ file' = file /\ status = "reading" /\ pos = PlaceAfter(s, Len(out))
      /\ \A k \in 1 .. Len(out) : IsWhole(s[k], file) => out[k] = s[k].form.line
  BY FilesHaveSources, FileKept DEF IsSource, TypeOK, PrintedUpToHere
<1>2. CASE Len(out) = Len(s)
  <2>1. pos = Len(file)
    BY <1>1, <1>2 DEF PlaceAfter
  <2>2. out' = out /\ pos' = Len(file)
    BY <2>1, EndsAtTheEnd
  <2> QED
    BY <1>1, <1>2, <2>2 DEF PrintedUpToHere, PlaceAfter, IsWhole
<1>3. CASE Len(out) < Len(s)
  <2> DEFINE n == Len(out) + 1
  <2>1. n \in 1 .. Len(s) /\ pos = s[n].before /\ s[n].form \in Forms
    BY <1>1, <1>3 DEF PlaceAfter, OfForms
  <2>2. /\ pos \in 0 .. Len(file) - 1
        /\ \A i \in 1 .. Len(s[n].form.code) :
             pos + i <= Len(file) => file[pos + i] = s[n].form.code[i]
        /\ n = Len(s) => Len(file) <= pos + Len(s[n].form.code)
    BY <2>1, FilesHaveSources DEF IsSource
  <2>3. n < Len(s) => /\ s[n + 1].before = pos + Len(s[n].form.code)
                      /\ s[n + 1].before <= Len(file) - 1
    <3> SUFFICES ASSUME n < Len(s)
                 PROVE  /\ s[n + 1].before = pos + Len(s[n].form.code)
                        /\ s[n + 1].before <= Len(file) - 1
      OBVIOUS
    <3>1. n + 1 \in 1 .. Len(s) /\ n + 1 # 1 /\ (n + 1) - 1 = n
      BY <1>1, <2>1
    <3>2. \A k \in 1 .. Len(s) :
            /\ k # 1 => s[k].before = s[k - 1].before + Len(s[k - 1].form.code)
            /\ s[k].before \in 0 .. Len(file) - 1
      BY FilesHaveSources DEF IsSource
    <3> QED
      BY <1>1, <2>1, <3>1, <3>2
  <2>4. Len(s[n].form.code) \in 2 .. 4
    BY <2>1, FormCode
  <2>5. CASE pos + Len(s[n].form.code) <= Len(file)
    <3>1. ComesNext(s[n].form.code)
      <4>1. PICK code : code = s[n].form.code
        OBVIOUS
      <4>2. PICK length \in 2 .. 4, at \in Nat, size \in Nat :
              length = Len(code) /\ at = pos /\ size = Len(file)
        BY <1>1, <2>2, <2>4, <4>1
      <4>3. \A k \in 1 .. length : at + k <= size
        BY <2>5, <4>1, <4>2
      <4> QED
        BY <2>2, <2>5, <4>1, <4>2, <4>3 DEF ComesNext
    <3>2. out' = Append(out, s[n].form.line) /\ pos' = pos + Len(s[n].form.code)
      BY <2>1, <3>1, FormPrinted DEF Printed
    <3>3. status' = "reading"
      BY <2>1, <3>1, FormGoesOn
    <3>4. Len(out') = n /\ out'[n] = s[n].form.line /\ \A k \in 1 .. Len(out) : out'[k] = out[k]
      BY <3>2 DEF TypeOK
    <3>5. pos' = IF n = Len(s) THEN Len(file) ELSE s[n + 1].before
      BY <1>1, <2>1, <2>2, <2>3, <2>4, <2>5, <3>2
    <3>6. \A k \in 1 .. n : IsWhole(s[k], file) => out'[k] = s[k].form.line
      BY <1>1, <3>4
    <3> QED
      BY <1>1, <2>1, <3>3, <3>4, <3>5, <3>6 DEF PrintedUpToHere, PlaceAfter, IsWhole
  <2>6. CASE Len(file) < pos + Len(s[n].form.code)
    <3>1. IsLeft(s[n].form.code)
      BY <1>1, <2>2, <2>4, <2>6 DEF IsLeft
    <3>2. PrintedLast
      BY <2>1, <3>1, FormLast
    <3>3. status' = "reading"
      BY <2>1, <3>1, FormGoesOn
    <3>4. n = Len(s)
      BY <1>1, <2>1, <2>2, <2>3, <2>4, <2>6
    <3>5. ~IsWhole(s[n], file)
      BY <1>1, <2>1, <2>2, <2>4, <2>6 DEF IsWhole
    <3>6. \A k \in 1 .. n : IsWhole(s[k], file) => out'[k] = s[k].form.line
      BY <1>1, <3>2, <3>5 DEF PrintedLast
    <3> QED
      BY <1>1, <3>2, <3>3, <3>4, <3>6 DEF PrintedUpToHere, PlaceAfter, IsWhole, PrintedLast
  <2>7. \/ pos + Len(s[n].form.code) <= Len(file)
        \/ Len(file) < pos + Len(s[n].form.code)
    <3>1. PICK length \in 2 .. 4, at \in Nat, size \in Nat :
            length = Len(s[n].form.code) /\ at = pos /\ size = Len(file)
      BY <1>1, <2>2, <2>4
    <3> QED
      BY <3>1
  <2> QED
    BY <2>5, <2>6, <2>7
<1> QED
  BY <1>1, <1>2, <1>3

LEMMA PrintedSoFarKept == TypeOK /\ PrintedSoFar /\ [Next]_vars => PrintedSoFar'
<1> SUFFICES ASSUME TypeOK, PrintedSoFar, [Next]_vars PROVE PrintedSoFar'
  OBVIOUS
<1>1. CASE Next
  <2>1. file' = file
    BY <1>1, FileKept
  <2>2. PICK s : s = Sources[file]
    OBVIOUS
  <2>3. SUFFICES ASSUME file \in DOMAIN Sources, OfForms(s) PROVE PrintedUpToHere(s)'
    BY <2>1, <2>2 DEF PrintedSoFar
  <2> QED
    BY <1>1, <2>2, <2>3, NextLinePrinted DEF PrintedSoFar
<1>2. CASE UNCHANGED vars
  BY <1>2 DEF vars, PrintedSoFar, PrintedUpToHere, PlaceAfter, IsWhole
<1> QED
  BY <1>1, <1>2

\* A program of the forms gives its source, line by line, and one that is cut off within
\* a line all the lines before it and one more (the loop of main, for every program of
\* any length).
THEOREM ProgramsAreReproduced == Spec => [](OfForms(Sources[file]) => SourceReproduced)
<1>1. TypeOK /\ PrintedSoFar => (OfForms(Sources[file]) => SourceReproduced)
  BY DEF PrintedSoFar, PrintedUpToHere, SourceReproduced
<1>2. Spec => []PrintedSoFar
  BY InitiallyPrinted, PrintedSoFarKept, FieldsFit, PTL DEF Spec
<1> QED
  BY <1>1, <1>2, FieldsFit, PTL
=============================================================================
