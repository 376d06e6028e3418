---------------------------- MODULE MC_Listings ----------------------------
(***************************************************************************)
(* The programs of 8086sim/listings whose output 8086sim/snapshots holds,  *)
(* with their real encoded sizes.  The image of listing 54 is 4 by 4       *)
(* pixels, not 64 by 64.                                                   *)
(***************************************************************************)
EXTENDS Sim86_assembler, FiniteSets

Table == <<
  Ins("mov", 3, Reg(cx), Imm(3)),            \* 1
  Ins("mov", 3, Reg(bx), Imm(1000)),
  Ins("add", 3, Reg(bx), Imm(10)),
  Ins("sub", 3, Reg(cx), Imm(1)),
  Ins("jne", 2, Imm(-8), Nothing),           \* 5
  Ins("mov", 6, Mem(0, 0, 1000), Imm(1)),
  Ins("mov", 6, Mem(0, 0, 1002), Imm(2)),
  Ins("mov", 6, Mem(0, 0, 1004), Imm(3)),
  Ins("mov", 6, Mem(0, 0, 1006), Imm(4)),
  Ins("mov", 5, Mem(bx, 0, 4), Imm(10)),     \* 10
  Ins("mov", 4, Reg(bx), Mem(0, 0, 1000)),
  Ins("mov", 4, Reg(cx), Mem(0, 0, 1002)),
  Ins("mov", 4, Reg(dx), Mem(0, 0, 1004)),
  Ins("mov", 4, Reg(bp), Mem(0, 0, 1006)),
  Ins("mov", 3, Reg(dx), Imm(6)),            \* 15
  Ins("mov", 3, Reg(bp), Imm(1000)),
  Ins("mov", 3, Reg(si), Imm(0)),
  Ins("mov", 2, Mem(bp, si, 0), Reg(si)),
  Ins("add", 3, Reg(si), Imm(2)),
  Ins("cmp", 2, Reg(si), Reg(dx)),           \* 20
  Ins("jne", 2, Imm(-9), Nothing),
  Ins("mov", 3, Reg(bx), Imm(0)),
  Ins("mov", 2, Reg(cx), Mem(bp, si, 0)),
  Ins("add", 2, Reg(bx), Reg(cx)),
  Ins("jne", 2, Imm(-11), Nothing),          \* 25
  Ins("mov", 2, Reg(si), Reg(dx)),
  Ins("sub", 3, Reg(bp), Imm(2)),
  Ins("add", 2, Reg(bx), Mem(bp, si, 0)),
  Ins("sub", 3, Reg(si), Imm(2)),
  Ins("jne", 2, Imm(-7), Nothing),           \* 30
  Ins("mov", 3, Reg(bp), Imm(256)),
  Ins("mov", 3, Reg(dx), Imm(0)),
  Ins("mov", 3, Reg(cx), Imm(0)),
  Ins("mov", 3, Mem(bp, 0, 0), Reg(cx)),
  Ins("mov", 3, Mem(bp, 0, 2), Reg(dx)),     \* 35
  Ins("mov", 4, Mem(bp, 0, 3), Imm(255)),
  Ins("add", 3, Reg(bp), Imm(4)),
  Ins("add", 3, Reg(cx), Imm(1)),
  Ins("cmp", 3, Reg(cx), Imm(4)),
  Ins("jne", 2, Imm(-21), Nothing),          \* 40
  Ins("add", 3, Reg(dx), Imm(1)),
  Ins("cmp", 3, Reg(dx), Imm(4)),
  Ins("jne", 2, Imm(-32), Nothing),
  Ins("mov", 3, Reg(si), Imm(300)),
  Ins("mov", 3, Reg(dx), Imm(300)) >>        \* 45

Listing49 == Assemble(Table, <<1, 2, 3, 4, 5>>)
Listing51 == Assemble(Table, <<6, 7, 8, 9, 2, 10, 11, 12, 13, 14>>)
Listing52 == Assemble(Table, <<15, 16, 17, 18, 19, 20, 21, 22, 17, 23, 24, 19, 20, 25>>)
Listing53 == Assemble(Table, <<15, 16, 17, 18, 19, 20, 21, 22, 26, 27, 28, 29, 30>>)
Listing54 == Assemble(Table, <<31, 32, 33, 34, 35, 36, 37, 38, 39, 40, 41, 42, 43>>)

\* The store of listing 54 and the store and the loads of listing 52, of a word that
\* does not fit a byte: the one is loaded and added to bx, the other loaded to cx.
StoresAndLoads == Assemble(Table, <<22, 16, 45, 35, 17, 19, 23, 24, 44, 18, 23>>)

MC_Decode == DecodeWith(Table, 1 .. 45)
MC_Images == {Listing49, Listing51, Listing52, Listing53, Listing54}
MC_StoresAndLoads == {StoresAndLoads}

InMemory(image) == \A k \in 1 .. Len(image) : memory[k - 1] = image[k]

\* The registers after ax (bx, cx, dx, sp, bp, si, di), zf, sf and ip.
FinalState == <<[r \in 1 .. 7 |-> registers[r + 1]], zf, sf, ip>>

Snapshots == {
  <<Listing49, <<<<1030, 0, 0, 0, 0, 0, 0>>, 1, 0, 14>>>>,
  <<Listing51, <<<<1, 2, 10, 0, 4, 0, 0>>, 0, 0, 48>>>>,
  <<Listing52, <<<<6, 4, 6, 0, 1000, 6, 0>>, 1, 0, 35>>>>,
  <<Listing53, <<<<6, 0, 6, 0, 998, 0, 0>>, 1, 0, 33>>>>,
  <<Listing54, <<<<0, 4, 4, 0, 320, 0, 0>>, 1, 0, 38>>>> }

\* What the tests compare: the final registers and flags of every listing are
\* those of its snapshot (snapshots/49, 51, 52, 53 and 54; run-sim.sh:17).
SnapshotsReproduced ==
  status = "halted" =>
    \A s \in Snapshots : InMemory(s[1]) => FinalState = s[2]

\* "Start image after one row, to avoid overwriting our code!" (54.asm:7): the
\* stores of a listing never reach its instructions, so that what is decoded
\* is what was loaded and the zero that ends the program stays where it is.
ProgramIntact ==
  status \in {"running", "halted"} /\ Offset # 0 =>
    \E image \in Images : InMemory(image) /\ memory[Len(image)] = 0

\* The loops of the listings end: no jump is taken for ever.
Terminates == <>(status = "halted")

\* A word that is stored is the word that is loaded from there: 54.asm:17 is "mov word
\* [bp + 2], dx ; Blue", 52.asm:12 and 20 are "mov word [bp + si], si" and "mov cx,
\* word [bp + si]", and 8086sim.cpp:155 prints a store as "mov word [...]".
WordsAreStored ==
  status = "halted" /\ InMemory(StoresAndLoads) =>
    registers[bx] = registers[dx] /\ registers[cx] = registers[si]
=============================================================================
