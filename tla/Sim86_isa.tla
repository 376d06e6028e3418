----------------------------- MODULE Sim86_isa -----------------------------
(***************************************************************************)
(* The simulator implements the abstract machine, which knows the          *)
(* instructions that its branches execute in full, in any program and up   *)
(* to the first instruction that is not one of them.                       *)
(***************************************************************************)
EXTENDS Sim86

PlainRegister(o) == o.Type = "Register" => o.Index \in Registers \ {0}
PlainMemory(o) ==
  o.Type = "Memory" => /\ o.Index \in Registers /\ o.Term \in Registers
                       /\ o.Displacement \in Word

\* A store from a register has no displacement, a store of an immediate no
\* second register, and a load either a second register or a displacement.
StoredInFull(i) ==
  /\ <<i.First.Type, i.Second.Type>> = MemReg => i.First.Displacement = 0
  /\ <<i.First.Type, i.Second.Type>> = MemImm => i.First.Term = 0
  /\ i.Second.Type = "Memory" =>
       IF i.Second.Index # 0 /\ i.Second.Term # 0 THEN i.Second.Displacement = 0
       ELSE i.Second.Term = 0

\* Of the arithmetic, what works on registers; of cmp, an immediate that was
\* not sign extended beyond a word.
FaithfulInstruction(i) ==
  /\ PlainRegister(i.First) /\ PlainRegister(i.Second)
  /\ PlainMemory(i.First) /\ PlainMemory(i.Second)
  /\ StoredInFull(i)
  /\ LET form == <<i.First.Type, i.Second.Type>> IN
     CASE i.Op = "mov" -> form \in {RegReg, RegImm, MemReg, MemImm, RegMem}
       [] i.Op = "cmp" -> form \in {RegReg, RegImm} /\ i.Second.Index \in Word
       [] i.Op \in {"add", "sub"} -> form \in {RegReg, RegImm}
       [] i.Op = "jne" -> i.First.Type = "Immediate" /\ i.Second.Type = "None"
       [] OTHER -> i.First.Type = "None" /\ i.Second.Type = "None"

FaithfulBytes == {b \in Byte : FaithfulInstruction(Decode[b])}

\* An instruction was executed that the abstract machine does not know.
Lost == ~(executed \subseteq FaithfulBytes)

\* Addresses are read from Offset; ip is the simulator's own.
ISA == INSTANCE Isa86 WITH
  pc <- Offset,
  Known <- FaithfulBytes,
  status <- IF Lost THEN "undefined" ELSE status

\* Whatever the program and the decoder, as long as it comes to faithful instructions:
\* results, flags, addresses and jumps are those of one uniform machine although every
\* operation and form of its operands has a branch of its own, and the simulator goes
\* on past an access only if that stays in memory.
ImplementsIsa == ISA!Spec
=============================================================================
