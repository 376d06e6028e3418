------------------------------ MODULE Haversine ------------------------------
(***************************************************************************)
(* The program of haversine-distance/haversine_distance.cpp: main and the  *)
(* functions it calls, over the tokenizer (Lexer) and the parser (Parser), *)
(* which run one after the other and hand over lexer->tokens.              *)
(*                                                                         *)
(* Numbers stay texts: the distances and their sum are functions of the    *)
(* pairs, and are not computed.  The input is opened twice: its size is    *)
(* taken from the first file, and its pairs from the second.               *)
(***************************************************************************)
EXTENDS Integers, Sequences, FiniteSets

CONSTANTS
  Files,                    \* the contents of the input file, as sequences of characters
  OtherSizes,               \* what its size may have been before, other than it is
  AnswersSizes,             \* the sizes of the answers file, in bytes
  MinimumJSONPairEncoding,  \* 24 in the code: bytes of the input for one pair
  TokensCapacity, TokensGrowBy, ContainerCapacity, MaxTokens,
  Lexemes,                  \* what files are made of: from a file to its lexemes, in order
  Elements                  \* of each file in the format, its elements: four texts each

ASSUME Sizes ==
  MinimumJSONPairEncoding \in Nat \ {0} /\ AnswersSizes \subseteq Nat /\ OtherSizes \subseteq Nat

VARIABLES
  file, pos, unread, lexed, capacity, lexing,               \* Lexer
  current, values, stack, key, result, point, parsing,      \* Parser
  phase,      \* what main is doing
  input,      \* InputJSON.Count
  room,       \* ParsedValues.Count
  pairs,      \* Pairs up to PairCount, each a sequence of X0, Y0, X1, Y1
  answers,    \* AnswersF64.Count, or 0: there is no usable answers file
  validation  \* "none", or "matched" or "failed" with the answer taken for RefSum

lexerVars == <<file, pos, unread, lexed, capacity, lexing>>
parserVars == <<current, values, stack, key, result, point, parsing>>
buffers == <<input, room>>
mainVars == <<phase, buffers, pairs, answers, validation>>
vars == <<lexerVars, parserVars, mainVars>>

\* The tokenizer, with what is proved of it.
L == INSTANCE Lexer_proofs WITH
  tokens <- lexed, status <- lexing, InitialCapacity <- TokensCapacity, GrowBy <- TokensGrowBy

ASSUME Capacities ==
  /\ TokensCapacity \in Nat \ {0} /\ TokensGrowBy \in Nat \ {0}
  /\ ContainerCapacity \in Nat \ {0} /\ MaxTokens \in Nat

ASSUME FilesType == Files \subseteq Seq(L!Char)

ASSUME FilesAreCut == \A f \in DOMAIN Lexemes : f \in Seq(L!Char) /\ L!IsCut(Lexemes[f], f)

-----------------------------------------------------------------------------
(***************************************************************************)
(* The format of the input: an object of one entry, an array of objects of *)
(* four numbers.  What the keys are is of no account.                      *)
(***************************************************************************)

\* Of the lexemes of a file: token p is of the type, and is a number with the text.
Has(lexemes, p, type) ==
  \E k \in 1 .. Len(lexemes) : lexemes[k].type = type /\ L!Count(lexemes, k) = p

HasNumber(lexemes, f, p, text) ==
  \E k \in 1 .. Len(lexemes) :
    /\ lexemes[k].type = "NUMBER" /\ L!Count(lexemes, k) = p
    /\ L!TextOf(lexemes[k], f) = text

\* Where the n-th element begins, the array ends behind n, and the four numbers are.
ElementAt(n) == 18 * n - 13
ArrayEnd(n) == IF n = 0 THEN 5 ELSE 18 * n + 4
NumberAt(n, k) == ElementAt(n) + 4 * k - 1

HasElement(lexemes, f, n, element) ==
  /\ Has(lexemes, ElementAt(n), "LBRACE")
  /\ \A k \in 1 .. 4 :
       /\ Has(lexemes, NumberAt(n, k) - 2, "STRING") /\ Has(lexemes, NumberAt(n, k) - 1, "COLON")
       /\ HasNumber(lexemes, f, NumberAt(n, k), element[k])
       /\ Has(lexemes, NumberAt(n, k) + 1, IF k = 4 THEN "RBRACE" ELSE "COMMA")

\* All but the end.
HasBeginning(lexemes, f, elements) ==
  /\ Has(lexemes, 1, "LBRACE") /\ Has(lexemes, 2, "STRING")
  /\ Has(lexemes, 3, "COLON") /\ Has(lexemes, 4, "LBRACKET")
  /\ \A n \in 1 .. Len(elements) :
       HasElement(lexemes, f, n, elements[n]) /\ (n > 1 => Has(lexemes, ElementAt(n) - 1, "COMMA"))

HasFormat(lexemes, f, elements) ==
  /\ HasBeginning(lexemes, f, elements)
  /\ Has(lexemes, ArrayEnd(Len(elements)), "RBRACKET")
  /\ Has(lexemes, ArrayEnd(Len(elements)) + 1, "RBRACE")

\* The first i characters of a number hold at most one point.
OnePoint(text, i) == \A j, k \in 1 .. i : text[j] = "." /\ text[k] = "." => j = k

Element ==
  {element \in [1 .. 4 -> Seq(L!Char)] : \A k \in 1 .. 4 : OnePoint(element[k], Len(element[k]))}

ASSUME Format ==
  \A f \in DOMAIN Elements :
    f \in DOMAIN Lexemes /\ Elements[f] \in Seq(Element) /\ HasFormat(Lexemes[f], f, Elements[f])

\* Where the value that begins at a token of such a file of so many elements ends.
EndOf(size, at) ==
  IF at = 1 THEN ArrayEnd(size) + 1
  ELSE IF at = 4 THEN ArrayEnd(size)
  ELSE IF \E n \in 1 .. size : at = ElementAt(n) THEN at + 16
  ELSE at

-----------------------------------------------------------------------------

\* The tokens as the parser looks at them.
Types == [k \in 1 .. Len(lexed) |-> lexed[k].type]

\* How many elements such a file has: the first bracket where the array may end tells.
Size ==
  CHOOSE n \in 0 .. Len(Types) :
    Types[ArrayEnd(n)] = "RBRACKET" /\ \A m \in 0 .. n - 1 : Types[ArrayEnd(m)] # "RBRACKET"

\* The values that have been returned.
Returned == DOMAIN values \ {stack[i].at : i \in 1 .. Len(stack)}

\* The parser, with what is proved of it; in the format it is known where values end.
P == INSTANCE Parser_proofs WITH
  tokens <- Types, status <- parsing, Documents <- {}, InitialCapacity <- ContainerCapacity,
  last <- [at \in Returned |-> EndOf(Size, at)]

Init ==
  /\ L!Init
  /\ P!Begin(Types)
  /\ phase = "opening"
  /\ input = 0 /\ room = 0
  /\ pairs = <<>>
  /\ answers = 0
  /\ validation = [verdict |-> "none", reference |-> 0]

-----------------------------------------------------------------------------
(***************************************************************************)
(* Reading the input.                                                      *)
(***************************************************************************)

\* A buffer is its Count, which is zero when its Data is NULL.
FreeBuffer == 0

\* There may be no memory.
AllocateBuffer(Count) == {Count, FreeBuffer}

\* What may be had of a file of one of the sizes: nothing if it cannot be opened or
\* held, or if fewer bytes come than stat has told; of no bytes, nothing ever comes.
ReadEntireFile(sizes) == UNION {AllocateBuffer(size) : size \in sizes}

ReadInput ==
  /\ phase = "opening"
  /\ input' \in ReadEntireFile({Len(file)} \cup OtherSizes)
  /\ phase' = "read"
  /\ UNCHANGED <<lexerVars, parserVars, room, pairs, answers, validation>>

\* Slip: a pair is taken to be as long as the generator writes it, not as short as it may be.
LongPairCount == input \div (2 * MinimumJSONPairEncoding)

\* Pairs is given room for this many.
MaxPairCount == input \div MinimumJSONPairEncoding

PairSize == 32

Frees == input' = FreeBuffer /\ room' = FreeBuffer

\* The input was too short or nothing, or there is no memory for Pairs: nothing is
\* parsed, and main returns 0 all the same.
NoInput ==
  /\ phase = "read"
  /\ MaxPairCount = 0 \/ FreeBuffer \in AllocateBuffer(MaxPairCount * PairSize)
  /\ phase' = "ended"
  /\ Frees
  /\ UNCHANGED <<lexerVars, parserVars, pairs, answers, validation>>

\* The second fopen is not looked at: fgetc may be called of NULL.
TakeInput ==
  /\ phase = "read" /\ MaxPairCount # 0
  /\ room' = MaxPairCount * PairSize
  /\ phase' \in {"lexing", "unopened"}
  /\ UNCHANGED <<lexerVars, parserVars, input, pairs, answers, validation>>

Lex ==
  /\ phase = "lexing"
  /\ L!Next
  /\ UNCHANGED <<parserVars, mainVars>>

\* lexer() returns, whatever ended its loop.
Lexed ==
  /\ phase = "lexing" /\ lexing = "done"
  /\ phase' = "parsing"
  /\ UNCHANGED <<lexerVars, parserVars, buffers, pairs, answers, validation>>

Parse ==
  /\ phase = "parsing"
  /\ UNCHANGED <<lexerVars, mainVars>>
  /\ P!Next

\* The parser has called exit, or has left its buffers.
ParserStops ==
  /\ phase = "parsing" /\ parsing \in {"exited", "undefined"}
  /\ phase' = parsing
  /\ UNCHANGED <<lexerVars, parserVars, buffers, pairs, answers, validation>>

-----------------------------------------------------------------------------
(***************************************************************************)
(* ParseHaversinePairs, once there is a document.                          *)
(***************************************************************************)

EntryValue(container, i) == container.entries[i].value

JSON == values[result]

\* JSON->as.object->entries[0]->value
Pairs == EntryValue(JSON, 1)

HasPairs == JSON.type = "object" /\ values[Pairs].type = "array"

Indeterminate == <<"indeterminate">>

\* What strtod takes of a number: all that comes before a second point.
Strtod(text) == SubSeq(text, 1, Cardinality({i \in 1 .. Len(text) : OnePoint(text, i)}))

IsZero(text) == \A i \in 1 .. Len(Strtod(text)) : Strtod(text)[i] \in {"0", "."}

\* The union's members share their bytes: null writes none of them, false one,
\* and all those of the number zero are zero.
MayBeNULL(at) ==
  \/ values[at].type \in {"NULL", "FALSE"}
  \/ values[at].type = "NUMBER" /\ IsZero(lexed[at].text)

Parsed == phase = "parsing" /\ parsing = "accepted"

\* PairsArray is an array, whose elements are read one by one.
TakePairs ==
  /\ Parsed /\ HasPairs
  /\ phase' = "collecting"
  /\ UNCHANGED <<lexerVars, parserVars, buffers, pairs, answers, validation>>

\* PairsArray is NULL.
NoPairs ==
  /\ Parsed
  /\ JSON.type = "object" /\ MayBeNULL(Pairs)
  /\ phase' = "summing"
  /\ UNCHANGED <<lexerVars, parserVars, buffers, pairs, answers, validation>>

\* Something else is used as an object or as an array.
Misread ==
  /\ Parsed /\ ~HasPairs
  /\ JSON.type = "object" /\ values[Pairs].type = "NUMBER" => ~IsZero(lexed[Pairs].text)
  /\ phase' = "undefined"
  /\ UNCHANGED <<lexerVars, parserVars, buffers, pairs, answers, validation>>

Items == values[Pairs].entries
NextItem == values[EntryValue(values[Pairs], Len(pairs) + 1)]

\* as.number of a value: of anything but a number, its bytes as a double.
Number(at) == IF values[at].type = "NUMBER" THEN Strtod(lexed[at].text) ELSE Indeterminate

\* Slip: the coordinates are taken in the order of their names, not of the file.
NamedCoordinates(e) ==
  [k \in 1 .. 4 |-> Number(EntryValue(e, IF k = 2 THEN 3 ELSE IF k = 3 THEN 2 ELSE k))]

\* The first four entries, whatever their keys.
Coordinates(e) == [k \in 1 .. 4 |-> Number(EntryValue(e, k))]

\* PairCount is not held against the room, nor the element against a pair.
Readable ==
  /\ (Len(pairs) + 1) * PairSize <= room
  /\ NextItem.type = "object" /\ Len(NextItem.entries) >= 4

CollectPair ==
  /\ phase = "collecting" /\ Len(pairs) < Len(Items) /\ Readable
  /\ pairs' = Append(pairs, Coordinates(NextItem))
  /\ UNCHANGED <<lexerVars, parserVars, phase, buffers, answers, validation>>

CollectWrongly ==
  /\ phase = "collecting" /\ Len(pairs) < Len(Items) /\ ~Readable
  /\ phase' = "undefined"
  /\ UNCHANGED <<lexerVars, parserVars, buffers, pairs, answers, validation>>

Collected ==
  /\ phase = "collecting" /\ Len(pairs) = Len(Items)
  /\ phase' = "summing"
  /\ UNCHANGED <<lexerVars, parserVars, buffers, pairs, answers, validation>>

-----------------------------------------------------------------------------
(***************************************************************************)
(* The sum and its validation.                                             *)
(***************************************************************************)

\* SumHaversineDistances; there is no second argument, or no answer in the file.
\* AnswersF64 is never freed.
Sum ==
  /\ phase = "summing"
  /\ phase' = "summed"
  /\ Frees
  /\ UNCHANGED <<lexerVars, parserVars, pairs, answers, validation>>

DoubleSize == 8

\* Slip: an answer that is cut short counts for a whole one.
RoundedAnswerCount(size) == (size - 1) \div DoubleSize

\* The answers before the last, which is the sum.
RefAnswerCount(size) == (size - DoubleSize) \div DoubleSize

SumAndValidate ==
  /\ phase = "summing"
  /\ \E size \in ReadEntireFile(AnswersSizes) :
       LET count == RefAnswerCount(size) IN
       /\ size >= DoubleSize
       /\ answers' = size
       /\ validation' = [verdict   |-> IF Len(pairs) = count THEN "matched" ELSE "failed",
                         reference |-> count]
  /\ phase' = "summed"
  /\ Frees
  /\ UNCHANGED <<lexerVars, parserVars, pairs>>

Next ==
  \/ ReadInput \/ NoInput \/ TakeInput \/ Lex \/ Lexed \/ Parse \/ ParserStops
  \/ TakePairs \/ NoPairs \/ Misread
  \/ CollectPair \/ CollectWrongly \/ Collected
  \/ Sum \/ SumAndValidate

Spec == Init /\ [][Next]_vars

\* One thread runs main and nothing blocks it.
FairSpec == Spec /\ WF_vars(Next)

-----------------------------------------------------------------------------
(***************************************************************************)
(* Properties.                                                             *)
(***************************************************************************)

\* The pairs are the elements of the file, their four numbers in the order of the
\* file, none skipped and none twice (ParseHaversinePairs, over all that lexer and
\* parser do to the file before).
PairsAreTheElements ==
  file \in DOMAIN Elements =>
    /\ Len(pairs) <= Len(Elements[file])
    /\ \A n \in 1 .. Len(pairs) : pairs[n] = Elements[file][n]
    /\ phase = "summed" => pairs = Elements[file]

\* A file in the format is always within the buffers of all three: the tokens, the
\* entries and the pairs, whose number is a guess from the size of the file.  Had the
\* file another size when that was taken, it needs to have been large enough for the
\* pairs there are now (main, lines 98 and 99).
FormatIsWithinBounds ==
  file \in DOMAIN Elements /\ phase \in {"exited", "undefined"} =>
    input < MinimumJSONPairEncoding * Len(Elements[file])

\* Nothing is summed from a document with a keyword anywhere in it, a pair or not:
\* the tokenizer reads nothing after a keyword (tokenizer.cpp:192, 203, 212), so the
\* containers around it are never closed, and alone it is no object.
NoSumAroundKeywords ==
  phase \in {"collecting", "summing", "summed"} =>
    \A k \in 1 .. current : lexed[k].type \notin L!KeywordTypes

\* A verdict is about the answers file that has been read, and the reference sum
\* is its last whole double (RefAnswerCount, line 130).
ReferenceIsTheLastAnswer ==
  validation.verdict # "none" =>
    /\ DoubleSize * (validation.reference + 1) <= answers
    /\ answers < DoubleSize * (validation.reference + 2)

\* main comes to an end, or the tokenizer never does.
Stops == <>(phase \in {"summed", "ended", "exited", "unopened", "undefined"} \/ L!AtDeadEnd)
=============================================================================
