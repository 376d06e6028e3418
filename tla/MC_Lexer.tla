------------------------------ MODULE MC_Lexer ------------------------------
(***************************************************************************)
(* Files spelled from a few lexemes, well formed and broken, so that what  *)
(* the lexer should find in them is known.                                 *)
(***************************************************************************)
EXTENDS Lexemes, SequencesExt

CONSTANT MaxLexemes

Lexeme(type, text) == [type |-> type, text |-> text]

Blank == Lexeme("BLANK", <<" ">>)
Numbers == {Lexeme("NUMBER", <<"1">>), Lexeme("NUMBER", <<"0", ".", "1">>)}
Strings == {Lexeme("STRING", <<"\"", "x", "\"">>), Lexeme("STRING", <<"\"", "t", "-", "\"">>)}
Marks == {Lexeme("LBRACE", <<"{">>), Lexeme("COMMA", <<",">>)}
Keywords == {Lexeme("TRUE", Spelling("TRUE")), Lexeme("NULL", Spelling("NULL"))}
Broken ==
  {Lexeme("broken", text) : text \in
     {<<"\"", "x">>, <<"\"", "~">>, <<"t", "r">>, <<"r", "u", "e">>, <<"-">>, <<"1", ".">>}}

Minus == Lexeme("broken", <<"-">>)

Regular == {Blank} \cup Numbers \cup Strings \cup Marks

Spell(lexemes) == FlattenSeq([k \in DOMAIN lexemes |-> lexemes[k].text])

MC_Files == {Spell(s) : s \in SeqOf(Regular \cup Keywords \cup Broken, MaxLexemes)}

\* Numbers are kept apart, and a number is not the end of the file.
RegularSources ==
  {s \in SeqOf(Regular \cup {Minus}, MaxLexemes) :
     \A k \in DOMAIN s : s[k] \in Numbers => k < Len(s) /\ s[k + 1] \notin Numbers}

\* From a regular file back to the lexemes it is spelled from, up to a minus sign: no
\* lexeme begins another.
RECURSIVE CutFrom(_, _)
CutFrom(f, from) ==
  IF from = Len(f) \/ f[from + 1] = "-" THEN <<>>
  ELSE LET rest == SubSeq(f, from + 1, Len(f))
           lexeme == CHOOSE l \in Regular : IsPrefix(l.text, rest)
           to == from + Len(lexeme.text)
       IN <<[type |-> lexeme.type, from |-> from, to |-> to]>> \o CutFrom(f, to)

FileLexemes == [f \in {Spell(s) : s \in RegularSources} |-> CutFrom(f, 0)]

\* A name for it, which TLC evaluates once.
MC_Lexemes == FileLexemes
=============================================================================
