---------------------------- MODULE MC_Haversine ----------------------------
(***************************************************************************)
(* The program over files in the format it is for, with and without        *)
(* blanks, and over files that differ from it in one place.                *)
(***************************************************************************)
EXTENDS Haversine, SequencesExt

CONSTANTS MaxElements  \* of the files in the format

Gap(n) == [k \in 1 .. n |-> " "]

\* The texts, with a comma and n blanks between them.
Joined(texts, n) ==
  FlattenSeq([i \in 1 .. 2 * Len(texts) - 1 |->
    IF i % 2 = 0 THEN <<",">> \o Gap(n) ELSE texts[(i + 1) \div 2]])

Keyed(name, text, n) == <<"\"">> \o name \o <<"\"", ":">> \o Gap(n) \o text

\* An element whose keys are all called name.
ElementText(name, texts, n) ==
  <<"{">> \o Joined([k \in DOMAIN texts |-> Keyed(name, texts[k], n)], n) \o <<"}">>

Document(text, n) == <<"{">> \o Keyed(<<"x", "s">>, text, n) \o <<"}">>

Listed(texts, n) ==
  IF texts = <<>> THEN <<"[">> \o Gap(n) \o <<"]">> ELSE <<"[">> \o Gap(n) \o Joined(texts, n) \o <<"]">>

East == <<<<"0">>, <<"1">>, <<"1", "0">>, <<"1", ".", "1">>>>
West == <<<<"1", "1">>, <<"0", ".", "1">>, <<"0">>, <<"1">>>>

FormatText(elements, n) ==
  Document(Listed([i \in DOMAIN elements |-> ElementText(<<"x", "0">>, elements[i], n)], n), n)

Sources == SeqOf({East, West}, MaxElements)
FormatFiles == {FormatText(elements, n) : elements \in Sources, n \in 0 .. 1}

\* From a file in the format back to its elements.
FormatElements ==
  [f \in FormatFiles |->
    CHOOSE elements \in Sources : \E n \in 0 .. 1 : f = FormatText(elements, n)]

\* What the tokenizer knows, apart from what its files are made of.
C == INSTANCE Lexer WITH
  tokens <- lexed, status <- lexing, InitialCapacity <- TokensCapacity, GrowBy <- TokensGrowBy

\* And to its lexemes.  A lexeme begins outside of strings, and not within a number.
Outside(f, p) == Cardinality({k \in 1 .. p : f[k] = "\""}) % 2 = 0

Beginnings(f) ==
  {p \in 0 .. Len(f) - 1 :
     Outside(f, p) /\ ~(p > 0 /\ {f[p], f[p + 1]} \subseteq C!Digits \cup {"."})}

TypeOf(c) ==
  CASE c = "\"" -> "STRING"
    [] c \in C!Digits -> "NUMBER"
    [] c \in C!Spaces -> "BLANK"
    [] OTHER -> C!MarkType(c)

Cut(f) ==
  LET starts == Beginnings(f) \cup {Len(f)}
      rank == [p \in starts |-> Cardinality({q \in starts : q < p})]
      start == [n \in 0 .. Cardinality(starts) - 1 |-> CHOOSE p \in starts : rank[p] = n]
  IN [n \in 1 .. Cardinality(starts) - 1 |->
        [type |-> TypeOf(f[start[n - 1] + 1]), from |-> start[n - 1], to |-> start[n]]]

FormatLexemes == [f \in FormatFiles |-> Cut(f)]

\* Names for them, which TLC evaluates once.
MC_Elements == FormatElements
MC_Lexemes == FormatLexemes

-----------------------------------------------------------------------------

Quote(text) == <<"\"">> \o text \o <<"\"">>
Null == <<"n", "u", "l", "l">>
False == <<"f", "a", "l", "s", "e">>
Plain == ElementText(<<"x", "0">>, East, 0)

\* Pairs that are no array.
OtherPairs ==
  {Document(text \o Gap(24), 0) :
     text \in {<<"0">>, <<"0", ".", "0">>, <<"1">>, Quote(<<"x">>), Plain, Null, False}}

\* An element that is no object of four numbers.
OtherElement ==
  {<<"1">>, Quote(<<"x">>), <<"[", "]">>, Null,
   ElementText(<<"x">>, SubSeq(East, 1, 3), 0),
   ElementText(<<"x">>, Append(East, <<"1">>), 0),
   ElementText(<<"x">>, [East EXCEPT ![2] = Quote(<<"x">>)], 0),
   ElementText(<<"x">>, [East EXCEPT ![2] = <<"1", ".", "1", ".", "0">>], 0),
   ElementText(<<"x">>, [East EXCEPT ![2] = <<"-", "1">>], 0),
   ElementText(<<"x">>, [East EXCEPT ![4] = Null], 0)}

OtherElements == {Document(Listed(<<Plain, text, Plain>>, 0), 0) : text \in OtherElement}

\* Elements of 21 bytes.
Short == ElementText(<<>>, [k \in 1 .. 4 |-> <<"1">>], 0)
ShortElements == {Document(Listed([i \in 1 .. n |-> Short], 0), 0) : n \in {1, 5}}

OtherDocuments ==
  {Listed(<<Plain>>, 0), Gap(24), Quote(<<"x">>) \o Gap(24), Null \o Gap(24),
   Document(Listed(<<Plain>>, 0), 0) \o Null,
   Front(Document(Listed(<<Plain>>, 0), 0)),
   <<"{">> \o Keyed(<<"x">>, False, 0) \o <<",">> \o Tail(Document(Listed(<<Plain>>, 0), 0)),
   <<"{", "}">> \o Gap(24)}

MC_Files == FormatFiles \cup OtherPairs \cup OtherElements \cup ShortElements \cup OtherDocuments
=============================================================================
