-------------------------- MODULE Sim86_assembler --------------------------
(***************************************************************************)
(* Programs for the simulator.  The first byte of an instruction is its    *)
(* number in a table and stands for all its bytes; its other bytes are one *)
(* that decodes to nothing.                                                *)
(***************************************************************************)
EXTENDS Sim86

Filler == ByteMod - 1
Nothing == [Type |-> "None", Index |-> 0, Term |-> 0, Displacement |-> 0]
Reg(r) == [Nothing EXCEPT !.Type = "Register", !.Index = r]
Imm(n) == [Nothing EXCEPT !.Type = "Immediate", !.Index = n % DwordMod]
Mem(base, term, displacement) ==
  [Type |-> "Memory", Index |-> base, Term |-> term, Displacement |-> displacement]
Ins(op, size, first, second) ==
  [Op |-> op, Size |-> size, First |-> first, Second |-> second]

DecodeWith(table, numbers) ==
  [b \in Byte |-> IF b \in numbers THEN table[b] ELSE Ins("other", 1, Nothing, Nothing)]

Bytes(table, number) == [k \in 1 .. table[number].Size |-> IF k = 1 THEN number ELSE Filler]

RECURSIVE Assemble(_, _)
Assemble(table, program) ==
  IF program = <<>> THEN <<>>
  ELSE Bytes(table, Head(program)) \o Assemble(table, Tail(program))

ax == 1
bx == 2
cx == 3
dx == 4
bp == 6
si == 7
=============================================================================
