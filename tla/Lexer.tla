------------------------------- MODULE Lexer -------------------------------
(***************************************************************************)
(* The tokenizer of haversine-distance/json_parser/tokenizer: one action   *)
(* per branch of the loop of lexer(), which reads the file through a stdio *)
(* stream that it moves backwards with ungetc and fseek.                   *)
(*                                                                         *)
(* A file is a sequence of characters: the punctuation, letters and digits *)
(* that the loop tells apart, "x" for any other ASCII character that may   *)
(* be part of a string, and "~" for a byte above 127.                      *)
(***************************************************************************)
EXTENDS Integers, Sequences, FiniteSets

CONSTANTS
  Files,            \* the contents of the file, as sequences of characters
  InitialCapacity,  \* 100 in the code
  GrowBy,           \* 100 in the code
  MaxTokens         \* bound on the tokens of a run: some files yield no end of them

Digits == {"0", "1"}
Spaces == {" "}
PunctuationMarks == {"{", "}", "[", "]", ",", ":"}
Letters == {"t", "r", "u", "e", "f", "a", "l", "s", "n"}
Ascii == Digits \cup Spaces \cup PunctuationMarks \cup Letters \cup {".", "-", "x", "\""}
Char == Ascii \cup {"~"}

\* What getc returns at the end of the file; stored in a char it is byte 255.
EOF == "EOF"

NoChar == "none"

KeywordTypes == {"TRUE", "FALSE", "NULL"}
Spelling(type) ==
  CASE type = "TRUE" -> <<"t", "r", "u", "e">>
    [] type = "FALSE" -> <<"f", "a", "l", "s", "e">>
    [] type = "NULL" -> <<"n", "u", "l", "l">>

MarkType(c) ==
  CASE c = "{" -> "LBRACE"
    [] c = "}" -> "RBRACE"
    [] c = "[" -> "LBRACKET"
    [] c = "]" -> "RBRACKET"
    [] c = ":" -> "COLON"
    [] c = "," -> "COMMA"

TokenTypes ==
  {"LBRACE", "RBRACE", "LBRACKET", "RBRACKET", "COLON", "COMMA", "STRING", "NUMBER"}
    \cup KeywordTypes

Token == [type: TokenTypes, text: Seq(Char \cup {EOF})]

ASSUME Capacities ==
  InitialCapacity \in Nat \ {0} /\ GrowBy \in Nat \ {0} /\ MaxTokens \in Nat

ASSUME FilesType == Files \subseteq Seq(Char)

VARIABLES
  file,      \* the contents of fileDescriptor
  pos,       \* ftell(fileDescriptor)
  unread,    \* a character that ungetc put in the place of file[pos + 1], or NoChar
  tokens,    \* lexer->tokens up to lexer->count
  capacity,  \* lexer->capacity
  status     \* "lexing", or "done": the loop has ended

vars == <<file, pos, unread, tokens, capacity, status>>

Start(contents) ==
  /\ file = contents
  /\ pos = 0
  /\ unread = NoChar
  /\ tokens = <<>>
  /\ capacity = InitialCapacity
  /\ status = "lexing"

Init == \E contents \in Files : Start(contents)

-----------------------------------------------------------------------------
(***************************************************************************)
(* The stream.                                                             *)
(***************************************************************************)

CharAt(p) == IF p < Len(file) THEN file[p + 1] ELSE EOF

\* c = getc(fileDescriptor), at the head of the loop.
Next1 == IF unread # NoChar THEN unread ELSE CharAt(pos)

\* fseek(fileDescriptor, delta, SEEK_CUR) from p: it fails, and leaves the
\* position alone, when the target is before the beginning.
Seek(p, delta) == IF p + delta >= 0 THEN p + delta ELSE p

\* Where getc leaves a stream that was at p.
After(p) == IF p < Len(file) THEN p + 1 ELSE p

\* The characters that n calls of getc return from p.
Read(p, n) == [k \in 1 .. n |-> CharAt(p + k - 1)]

\* How many characters from p are in S, up to the first that is not: every
\* n such that the n characters from p are in S counts for one.
Run(p, S) ==
  Cardinality({n \in 1 .. Len(file) : \A k \in 0 .. n - 1 : CharAt(p + k) \in S})

-----------------------------------------------------------------------------
(***************************************************************************)
(* The loop.                                                               *)
(***************************************************************************)

\* Slip: the buffer is grown once it is overfull.
LateGrown == IF Len(tokens) > capacity THEN capacity + GrowBy ELSE capacity

\* increaseTokensBuffer, called before every branch.
Grown == IF Len(tokens) = capacity THEN capacity + GrowBy ELSE capacity

Reading(c) ==
  /\ status = "lexing"
  /\ Next1 = c
  /\ capacity' = Grown
  /\ UNCHANGED <<file, status>>

AddToken(type, text) ==
  /\ Len(tokens) < MaxTokens
  /\ tokens' = Append(tokens, [type |-> type, text |-> text])

Goto(p) == pos' = p /\ unread' = NoChar

Mark(c) ==
  /\ Reading(c)
  /\ AddToken(MarkType(c), <<c>>)
  /\ Goto(pos + 1)

\* How much of a keyword is at pos: its first letter has been put back, and may
\* be there in the place of another character.
Matched(type) ==
  LET word == Spelling(type) IN
  Cardinality({m \in 1 .. Len(word) : \A k \in 2 .. m : CharAt(pos + k - 1) = word[k]})

\* Slip, of a change to the tokenizer alone that takes the keyword's letters from
\* the stream: what follows a keyword is read, and the collection finds keywords
\* in the union it does not look at.
ConsumedKeyword(type) ==
  LET word == Spelling(type) IN
  /\ Reading(Head(word))
  /\ Matched(type) = Len(word)
  /\ AddToken(type, word)
  /\ Goto(pos + Len(word))

\* After the keyword its first letter is put back once more, over the last one.
Keyword(type) ==
  LET word == Spelling(type) IN
  /\ Reading(Head(word))
  /\ Matched(type) = Len(word)
  /\ AddToken(type, word)
  /\ pos' = pos + Len(word) - 1
  /\ unread' = Head(word)

\* Slip: the position is worked out, without the check fseek makes.
UncheckedNotKeyword(type) ==
  LET matched == Matched(type) IN
  /\ Reading(Head(Spelling(type)))
  /\ matched < Len(Spelling(type))
  /\ Goto(After(pos + matched) - (matched + 1))
  /\ UNCHANGED tokens

\* The character that differs is counted in the way back, the end of the file
\* too, which getc does not step over.
NotKeyword(type) ==
  LET matched == Matched(type) IN
  /\ Reading(Head(Spelling(type)))
  /\ matched < Len(Spelling(type))
  /\ Goto(Seek(After(pos + matched), -(matched + 1)))
  /\ UNCHANGED tokens

\* Slip: the space is put back.
StuckSpace ==
  /\ \E c \in Spaces : Reading(c)
  /\ Goto(pos)
  /\ UNCHANGED tokens

Space ==
  /\ \E c \in Spaces : Reading(c)
  /\ Goto(pos + 1)
  /\ UNCHANGED tokens

\* Slip: the character after the number is not given back.
LongNumber ==
  LET length == Run(pos, Digits \cup {"."})
      start == Seek(After(pos + length), -length)
  IN
  /\ \E c \in Digits : Reading(c)
  /\ AddToken("NUMBER", Read(start, length))
  /\ Goto(IF start + length < Len(file) THEN start + length ELSE Len(file))

\* matchNumber steps over the character after the number and one back, lexer()
\* goes back by the length of the number and reads that many characters.
Number ==
  LET length == Run(pos, Digits \cup {"."})
      end == Seek(After(pos + length), -1)
      start == Seek(end, -length)
  IN
  /\ \E c \in Digits : Reading(c)
  /\ AddToken("NUMBER", Read(start, length))
  /\ Goto(IF start + length < Len(file) THEN start + length ELSE Len(file))

InString == Ascii \ {"\""}
Quoted == Run(pos + 1, InString)

String ==
  /\ Reading("\"")
  /\ CharAt(pos + 1 + Quoted) = "\""
  /\ AddToken("STRING", Read(pos, Quoted + 2))
  /\ Goto(pos + Quoted + 2)

\* Slip: the way back is one character short.
ShortWayBackNotString ==
  /\ Reading("\"")
  /\ CharAt(pos + 1 + Quoted) # "\""
  /\ Goto(Seek(After(pos + 1 + Quoted), -Quoted))
  /\ UNCHANGED tokens

\* A byte above 127, or the end of the file, before the closing quote: the way
\* back counts it, and the end of the file was not stepped over.
NotString ==
  /\ Reading("\"")
  /\ CharAt(pos + 1 + Quoted) # "\""
  /\ Goto(Seek(After(pos + 1 + Quoted), -(Quoted + 1)))
  /\ UNCHANGED tokens

\* "Invalid character": one more character is read for the message, and the
\* loop is left.
Invalid ==
  /\ status = "lexing"
  /\ Next1 \in Char \ (PunctuationMarks \cup Digits \cup Spaces \cup {"t", "f", "n", "\""})
  /\ capacity' = Grown
  /\ status' = "done"
  /\ Goto(After(pos + 1))
  /\ UNCHANGED <<file, tokens>>

EndOfFile ==
  /\ status = "lexing"
  /\ Next1 = EOF
  /\ status' = "done"
  /\ UNCHANGED <<file, pos, unread, tokens, capacity>>

Next ==
  \/ \E c \in PunctuationMarks : Mark(c)
  \/ \E type \in KeywordTypes : Keyword(type) \/ NotKeyword(type)
  \/ Space \/ Number \/ String \/ NotString \/ Invalid \/ EndOfFile

Spec == Init /\ [][Next]_vars

\* One thread runs the loop and nothing blocks it.
FairSpec == Spec /\ WF_vars(Next)

-----------------------------------------------------------------------------
(***************************************************************************)
(* Properties.                                                             *)
(***************************************************************************)

TypeOK ==
  /\ file \in Seq(Char)
  /\ pos \in Nat
  /\ unread \in Char \cup {NoChar}
  /\ tokens \in Seq(Token)
  /\ capacity \in Nat
  /\ status \in {"lexing", "done"}

\* addToken writes lexer->tokens[lexer->count] without a check: the buffer has
\* been grown in time, once for every turn of the loop (tokenizer.cpp:137-145).
WithinCapacity == Len(tokens) <= capacity

\* The points of a file where a match fails and the stream goes back to where
\* it was: an unterminated string, a word that begins like a keyword, and what
\* getc at the end of the file leaves one character short.
AtDeadEnd ==
  /\ status = "lexing" /\ unread = NoChar
  /\ \/ CharAt(pos) = "\"" /\ CharAt(pos + 1 + Quoted) = EOF
     \/ \E type \in KeywordTypes :
          /\ CharAt(pos) = Head(Spelling(type))
          /\ Matched(type) < Len(Spelling(type))
          /\ CharAt(pos + Matched(type)) = EOF => pos > 0 /\ file[pos] # "."
     \/ /\ CharAt(pos) \in Digits /\ pos > 0
        /\ CharAt(pos + Run(pos, Digits \cup {"."})) = EOF
        /\ file[Len(file)] \in Digits

\* From a dead end the loop never ends (92, 77 and 105).
DeadEndsAreForever == [](AtDeadEnd => [](status # "done"))

\* And there is no other way not to end: every file is either read to its end,
\* or to its first invalid character, or to a dead end.
EndsOrDeadEnd == <>(status = "done" \/ AtDeadEnd)
=============================================================================
