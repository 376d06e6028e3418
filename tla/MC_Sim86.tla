------------------------------ MODULE MC_Sim86 ------------------------------
(***************************************************************************)
(* Small programs over every operation and operand form, on a machine of   *)
(* 64 cells: two instructions of set up, then every choice of the next.    *)
(***************************************************************************)
EXTENDS Sim86_isa, Sim86_assembler

Table == <<
  Ins("mov", 3, Reg(ax), Imm(40)),
  Ins("mov", 3, Reg(bp), Imm(20)),
  Ins("mov", 2, Reg(bx), Reg(ax)),
  Ins("mov", 3, Reg(bp), Imm(63)),
  Ins("mov", 2, Mem(bp, si, 0), Reg(ax)),
  Ins("mov", 4, Mem(bp, 0, 3), Imm(33)),
  Ins("mov", 5, Mem(0, 0, 9), Imm(3)),
  Ins("mov", 3, Reg(bx), Mem(bp, 0, 3)),
  Ins("mov", 2, Reg(bx), Mem(bp, ax, 0)),
  Ins("mov", 4, Reg(si), Mem(0, 0, 23)),
  Ins("mov", 5, Mem(0, 0, 63), Imm(3)),
  Ins("add", 2, Reg(ax), Reg(ax)),
  Ins("add", 3, Reg(ax), Imm(-1)),
  Ins("sub", 2, Reg(ax), Reg(bx)),
  Ins("sub", 3, Reg(ax), Imm(1)),
  Ins("cmp", 2, Reg(bx), Reg(ax)),
  Ins("cmp", 3, Reg(ax), Imm(39)),
  Ins("jne", 2, Imm(-5), Nothing),
  Ins("jne", 2, Imm(50), Nothing),
  \* From here on, what the abstract machine does not know or ignores.
  Ins("mov", 3, Mem(bp, 0, 1), Reg(ax)),
  Ins("mov", 4, Reg(bx), Mem(0, 0, -1)),
  Ins("mov", 2, Reg(9), Reg(ax)),
  Ins("add", 2, Mem(bp, 0, 0), Reg(ax)),
  Ins("add", 4, Mem(bp, 0, 1), Imm(31)),
  Ins("add", 3, Reg(bx), Mem(bp, 0, 1)),
  Ins("cmp", 3, Reg(ax), Imm(-24)),
  Ins("sub", 2, Mem(bp, 0, 0), Reg(ax)),
  Ins("other", 0, Nothing, Nothing) >>

SetUp == <<1, 2>>
Free == 3 .. 28

ProgramsOf(numbers) ==
  {SetUp \o <<n>> : n \in numbers}
    \cup {SetUp \o <<n[1], n[2]>> : n \in numbers \X numbers}
    \cup {SetUp \o <<n[1], n[2], n[3]>> : n \in numbers \X numbers \X {15, 18, 19}}

TooLong == [k \in 1 .. WordMod + 1 |-> Filler]

MC_Decode == DecodeWith(Table, 1 .. 28)
MC_Images == {Assemble(Table, p) : p \in ProgramsOf(Free)} \cup {TooLong}
=============================================================================
