---------------------------- MODULE MC_Disasm86 ----------------------------
(***************************************************************************)
(* The disassembler on programs of the forms it decodes, whole or cut off  *)
(* at any byte, on short files of any bytes, and on listings of            *)
(* 8086sim/listings.                                                       *)
(***************************************************************************)
EXTENDS Disasm86_code, SequencesExt

CONSTANTS
  Listing,   \* lines of a listing with their bytes, or none
  MaxLines,  \* of the programs
  MaxBytes   \* of the other files

\* Listing 39, from its mov dh, al on: the lines of 39.asm:9 to 39.asm:35.
Listing39 ==
  <<[code |-> <<136, 198>>,          line |-> Line("mov", Register(0, 6), Register(0, 0))],
    [code |-> <<177, 12>>,           line |-> Line("mov", Register(0, 1), Immediate(12))],
    [code |-> <<181, 244>>,          line |-> Line("mov", Register(0, 5), Immediate(244))],
    [code |-> <<185, 12, 0>>,        line |-> Line("mov", Register(1, 1), Immediate(12))],
    [code |-> <<185, 244, 0>>,       line |-> Line("mov", Register(1, 1), Immediate(244))],
    [code |-> <<186, 108, 15>>,      line |-> Line("mov", Register(1, 2), Immediate(3948))],
    [code |-> <<186, 148, 240>>,     line |-> Line("mov", Register(1, 2), Immediate(61588))],
    [code |-> <<138, 0>>,            line |-> Line("mov", Register(0, 0), Memory(0, 0))],
    [code |-> <<139, 27>>,           line |-> Line("mov", Register(1, 3), Memory(3, 0))],
    [code |-> <<139, 86, 0>>,        line |-> Line("mov", Register(1, 2), Memory(6, 0))],
    [code |-> <<138, 96, 4>>,        line |-> Line("mov", Register(0, 4), Memory(0, 4))],
    [code |-> <<138, 128, 135, 19>>, line |-> Line("mov", Register(0, 0), Memory(0, 4999))],
    [code |-> <<137, 9>>,            line |-> Line("mov", Memory(1, 0), Register(1, 1))],
    [code |-> <<136, 10>>,           line |-> Line("mov", Memory(2, 0), Register(0, 1))],
    [code |-> <<136, 110, 0>>,       line |-> Line("mov", Memory(6, 0), Register(0, 5))]>>

\* 40.asm:8 is mov ax, [bx + di - 37].
NegativeDisplacement ==
  [code |-> <<139, 65, 219>>, line |-> Line("mov", Register(1, 0), Memory(1, 65536 - 37))]

\* 40.asm:17 is mov bp, [5]: a memory operand with no register, which is none of rm.
DirectAddress ==
  [code |-> <<139, 46, 5, 0>>,
   line |-> Line("mov", Register(1, 5), [kind |-> "direct", address |-> 5])]

\* 41.asm:9 is add si, 2: the assembler takes the form with one byte to extend.
ExtendedImmediate ==
  [code |-> <<131, 198, 2>>, line |-> Line("add", Register(1, 6), Immediate(2))]

\* The three, with a line of 39.asm that the bytes of the address have been read over
\* when the last begins.
Misread == <<NegativeDisplacement, DirectAddress, Listing39[2], ExtendedImmediate>>

-----------------------------------------------------------------------------

Code(lines) == FlattenSeq([i \in 1 .. Len(lines) |-> lines[i].code])

Listed == {Code(Listing)}

\* An opcode of each branch and of none, second bytes of each mod, and 255.
Alphabet == {0, 4, 5, 65, 116, 129, 131, 134, 137, 138, 177, 185, 255}

\* The bytes of a line, all or the first of them.
Beginnings ==
  UNION {{SubSeq(form.code, 1, n) : n \in 0 .. Len(form.code)} : form \in Forms}

\* Programs, whole and ending too soon.
Programs ==
  {code \o last : code \in {Code(lines) : lines \in BoundedSeq(Forms, MaxLines - 1)},
                  last \in Beginnings}
    \cup {SubSeq(Code(Listing), 1, n) : n \in 0 .. Len(Code(Listing))}

MCFiles == Programs \cup BoundedSeq(Alphabet, MaxBytes)

MCNumbers == {1, 6}
MCBytes == {0, 4, 244}
MCWords == {12, 61588}

KnownLines == Forms \cup Range(Listing)

\* The one of the forms that the bytes begin with, or are the beginning of.
FirstForm(bytes, forms) ==
  CHOOSE form \in forms : IsPrefix(form.code, bytes) \/ IsPrefix(bytes, form.code)

\* From a program, or what is left of one, back to its forms: no form begins another.
RECURSIVE SourceFrom(_, _, _)
SourceFrom(bytes, before, forms) ==
  IF before >= Len(bytes) THEN <<>>
  ELSE LET form == FirstForm(SubSeq(bytes, before + 1, Len(bytes)), forms)
       IN <<[form |-> form, before |-> before]>>
            \o SourceFrom(bytes, before + Len(form.code), forms)

FileSources ==
  LET forms == KnownLines
  IN [bytes \in Programs |-> SourceFrom(bytes, 0, forms)]

\* A name for it, which TLC evaluates once.
MCSources == FileSources
=============================================================================
