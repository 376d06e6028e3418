------------------------------ MODULE Lexemes ------------------------------
(***************************************************************************)
(* What the tokenizer promises: a file that is cut into the lexemes it     *)
(* knows, but for the keywords, is read lexeme by lexeme, to its end or to *)
(* a character that the tokenizer does not know.                           *)
(***************************************************************************)
EXTENDS Lexer

CONSTANT
  Lexemes  \* what files are made of: from a file to its lexemes, in order

\* A lexeme is the characters of its file after the first from, up to the first to.
Place == [type : TokenTypes \cup {"BLANK"}, from : Nat, to : Nat]

NumberChars == Digits \cup {"."}

IsBlank(lexeme, f) ==
  /\ lexeme.type = "BLANK" /\ lexeme.to = lexeme.from + 1
  /\ f[lexeme.to] \in Spaces

IsMark(lexeme, f) ==
  /\ lexeme.to = lexeme.from + 1
  /\ f[lexeme.to] \in PunctuationMarks /\ lexeme.type = MarkType(f[lexeme.to])

\* A number is followed by something that is not of a number, and is not the end.
IsNumber(lexeme, f) ==
  /\ lexeme.type = "NUMBER" /\ lexeme.from < lexeme.to
  /\ f[lexeme.from + 1] \in Digits
  /\ \A k \in lexeme.from + 1 .. lexeme.to : f[k] \in NumberChars
  /\ lexeme.to < Len(f) /\ f[lexeme.to + 1] \notin NumberChars

IsString(lexeme, f) ==
  /\ lexeme.type = "STRING" /\ lexeme.from + 2 <= lexeme.to
  /\ f[lexeme.from + 1] = "\"" /\ f[lexeme.to] = "\""
  /\ \A k \in lexeme.from + 2 .. lexeme.to - 1 : f[k] \in InString

\* Where the first n lexemes end.
Boundary(lexemes, n) == IF n = 0 THEN 0 ELSE lexemes[n].to

\* Where no lexeme begins: lexer() is left there.
Unknown == Char \ (PunctuationMarks \cup Digits \cup Spaces \cup {"t", "f", "n", "\""})

IsWhole(lexemes, f) == Boundary(lexemes, Len(lexemes)) = Len(f)

\* The lexemes are the file, one after the other, or all of it up to an unknown character.
IsCut(lexemes, f) ==
  /\ lexemes \in Seq(Place)
  /\ \A k \in 1 .. Len(lexemes) :
       LET lexeme == lexemes[k] IN
       /\ lexeme.from = Boundary(lexemes, k - 1) /\ lexeme.to <= Len(f)
       /\ IsBlank(lexeme, f) \/ IsMark(lexeme, f) \/ IsNumber(lexeme, f) \/ IsString(lexeme, f)
  /\ IsWhole(lexemes, f) \/ f[Boundary(lexemes, Len(lexemes)) + 1] \in Unknown

ASSUME FilesAreCut == \A f \in DOMAIN Lexemes : f \in Seq(Char) /\ IsCut(Lexemes[f], f)

-----------------------------------------------------------------------------

TextOf(lexeme, f) == [k \in 1 .. lexeme.to - lexeme.from |-> f[lexeme.from + k]]

AsToken(lexeme) == [type |-> lexeme.type, text |-> TextOf(lexeme, file)]

Significant(lexemes, n) == {k \in 1 .. n : lexemes[k].type # "BLANK"}

\* How many tokens the first n lexemes make.
Count(lexemes, n) == Cardinality(Significant(lexemes, n))

\* The first n lexemes are the tokens, and the stream, while it is read, is right behind.
ReadUpTo(lexemes, n) ==
  /\ status = "lexing" => pos = Boundary(lexemes, n) /\ unread = NoChar
  /\ Len(tokens) = Count(lexemes, n)
  /\ \A k \in Significant(lexemes, n) : tokens[Count(lexemes, k)] = AsToken(lexemes[k])

\* A file without keywords is read lexeme by lexeme whatever the stream does
\* meanwhile, and read to its end or to an unknown character (220): no character is
\* lost or read twice where matchNumber and matchString move back (77, 234, 253).
TokensAreTheLexemes ==
  file \in DOMAIN Lexemes =>
    LET lexemes == Lexemes[file] IN
    /\ \E n \in 0 .. Len(lexemes) :
         ReadUpTo(lexemes, n) /\ (status = "done" => n = Len(lexemes))
    /\ ~AtDeadEnd
=============================================================================
