-------------------------- MODULE Haversine_proofs --------------------------
(***************************************************************************)
(* Proofs about the program, for every file: the tokenizer and the parser  *)
(* do inside it what they do on their own, nothing is summed from a        *)
(* document with a keyword, and the reference sum is the last answer.      *)
(* And for every file in the format, however many elements it has: the     *)
(* pairs are the elements, and no buffer is left or is too small.          *)
(***************************************************************************)
EXTENDS Haversine, FiniteSetTheorems, TLAPS

\* Only Lex touches what belongs to the tokenizer.
LEMMA LexerSteps == [Next]_vars => [L!Next]_lexerVars
<1> SUFFICES ASSUME [Next]_vars, UNCHANGED lexerVars => FALSE
             PROVE  L!Next
  OBVIOUS
<1>1. CASE Next
  BY <1>1 DEF Next, ReadInput, NoInput, TakeInput, Lex, Lexed, Parse, ParserStops, TakePairs, NoPairs,
    Misread, CollectPair, CollectWrongly, Collected, Sum, SumAndValidate
<1>2. CASE UNCHANGED vars
  BY <1>2 DEF vars
<1> QED
  BY <1>1, <1>2

\* main hands the tokenizer a file and leaves it alone: whatever is shown of every
\* run of the tokenizer holds of the program (lexer, ParseHaversinePairs).
THEOREM TokenizerInside == Spec => L!Spec
<1>1. Init => L!Init
  BY DEF Init
<1>2. lexerVars = L!vars
  BY DEF lexerVars, L!vars
<1>3. [Next]_vars => [L!Next]_(L!vars)
  BY LexerSteps, <1>2 DEF lexerVars, L!vars
<1> QED
  BY <1>1, <1>3, PTL DEF Spec, L!Spec

\* The tokens of the program are typed and fit, and nothing but the same keyword
\* follows a keyword.
TokensInv == L!KeywordInv

LEMMA TokensInvKept == TokensInv /\ [Next]_vars => TokensInv'
<1>1. lexerVars = L!vars
  BY DEF lexerVars, L!vars
<1>2. [Next]_vars => [L!Next]_(L!vars)
  BY LexerSteps, <1>1 DEF lexerVars, L!vars
<1> QED
  BY <1>2, L!KeywordInvKept, Capacities, FilesType, FilesAreCut DEF TokensInv

-----------------------------------------------------------------------------

\* The parser's tokens, as those of the tokenizer.
LEMMA TypesType ==
  ASSUME L!Inv
  PROVE  /\ Types \in Seq(P!TokenTypes)
         /\ Len(Types) = Len(lexed) /\ Len(lexed) \in Nat
         /\ \A k \in 1 .. Len(lexed) : Types[k] = lexed[k].type
<1>1. lexed \in Seq(L!Token)
  BY DEF L!Inv, L!TypeOK
<1>2. Len(lexed) \in Nat /\ \A k \in 1 .. Len(lexed) : lexed[k] \in L!Token
  BY <1>1
<1>3. \A k \in 1 .. Len(lexed) : lexed[k].type \in P!TokenTypes
  BY <1>2 DEF L!Token, L!TokenTypes, L!KeywordTypes, P!TokenTypes
<1>4. Types \in [1 .. Len(lexed) -> P!TokenTypes]
  BY <1>3 DEF Types
<1>5. Types \in Seq(P!TokenTypes) /\ Len(Types) = Len(lexed)
  BY <1>2, <1>4
<1> QED
  BY <1>2, <1>5 DEF Types

\* Until main calls the parser it is where it begins.
Idle == phase \in {"opening", "read", "lexing"} => P!Begin(Types)

ParserInv == P!Inv /\ Idle

LEMMA AtTheBeginning == L!Inv /\ P!Begin(Types) => P!Inv
<1> SUFFICES ASSUME L!Inv, P!Begin(Types) PROVE P!Inv
  OBVIOUS
<1>1. Types \in Seq(P!TokenTypes)
  BY TypesType
<1>2. values \in [DOMAIN values -> P!ValueTypes] /\ DOMAIN values = {}
  BY DEF P!Begin
<1> QED
  BY <1>1, <1>2 DEF P!Begin, P!Inv, P!TypeOK, P!RoomForTheEntry, P!OnlyTokensRunOut, P!Points

\* What is before any step, whatever the file.
AtRest ==
  /\ L!Start(file) /\ file \in Seq(L!Char)
  /\ P!Begin(Types)
  /\ phase = "opening" /\ input = 0 /\ room = 0 /\ pairs = <<>> /\ answers = 0
  /\ validation = [verdict |-> "none", reference |-> 0]

LEMMA InitAtRest == Init => AtRest
BY L!InitStarts, Capacities, FilesType, FilesAreCut DEF Init, AtRest

\* Parse is the only step of the parser, and it comes after the last of the tokenizer.
LEMMA ParserInvKept ==
  ASSUME L!Inv, L!Inv', ParserInv, [Next]_vars
  PROVE  ParserInv'
<1>1. CASE Lex
  <2>1. P!Begin(Types)'
    BY <1>1 DEF Lex, ParserInv, Idle, P!Begin, parserVars
  <2>2. P!Inv'
    BY <2>1, AtTheBeginning, PTL
  <2> QED
    BY <2>1, <2>2 DEF ParserInv, Idle
<1>2. CASE Parse
  <2>1. P!Next /\ phase = "parsing" /\ phase' = "parsing"
    BY <1>2 DEF Parse, mainVars
  <2>2. P!Inv'
    BY <2>1, P!Inductive, Capacities DEF ParserInv
  <2> QED
    BY <2>1, <2>2 DEF ParserInv, Idle
<1>3. CASE /\ UNCHANGED <<lexerVars, parserVars>>
           /\ phase' \in {"opening", "read", "lexing"} => phase \in {"opening", "read", "lexing"}
  <2>1. UNCHANGED P!vars
    BY <1>3 DEF lexerVars, parserVars, P!vars, Types
  <2>2. P!Inv'
    BY <2>1, P!Inductive, Capacities DEF ParserInv
  <2>3. Idle'
    BY <1>3, <2>1 DEF ParserInv, Idle, P!Begin, P!vars, lexerVars, parserVars, Types
  <2> QED
    BY <2>2, <2>3 DEF ParserInv
<1>4. CASE UNCHANGED vars
  BY <1>3, <1>4 DEF vars, mainVars
<1>5. CASE Next /\ ~Lex /\ ~Parse
  BY <1>3, <1>5 DEF Next, ReadInput, NoInput, TakeInput, Lexed, ParserStops, TakePairs, NoPairs,
    Misread, CollectPair, CollectWrongly, Collected, Sum, SumAndValidate
<1> QED
  BY <1>1, <1>2, <1>4, <1>5

-----------------------------------------------------------------------------

KeywordAt(k) == lexed[k].type \in L!KeywordTypes

NoKeyword == \A k \in 1 .. current : ~KeywordAt(k)

\* A keyword the parser has taken is the last token it can take.
KeywordsLast ==
  \A k \in 1 .. current : KeywordAt(k) =>
    k = current /\ point = "returned" /\ result = k /\ values[k].type \in L!KeywordTypes

AfterParsing == phase \in {"collecting", "summing", "summed"} => NoKeyword

DocumentInv == TokensInv /\ ParserInv /\ KeywordsLast /\ AfterParsing

\* After a keyword every token is the same keyword, and no container takes one.
LEMMA NothingAfterKeywords ==
  ASSUME DocumentInv, point = "returned", NEW type \in P!TokenTypes \ L!KeywordTypes,
         P!Match(type)
  PROVE  NoKeyword
<1>1. current \in Nat /\ current < Len(Types) /\ Types[current + 1] = type
  BY DEF DocumentInv, ParserInv, P!Inv, P!TypeOK, P!Match
<1>2. Len(lexed) \in Nat /\ current + 1 \in 1 .. Len(lexed) /\ lexed[current + 1].type = type
  BY <1>1, TypesType DEF DocumentInv, TokensInv, L!KeywordInv
<1>3. SUFFICES ASSUME current \in 1 .. current, KeywordAt(current) PROVE FALSE
  BY DEF DocumentInv, KeywordsLast, NoKeyword
<1>4. lexed[current + 1].type = lexed[current].type
  BY <1>1, <1>2, <1>3 DEF DocumentInv, TokensInv, L!KeywordInv, L!KeywordIsTerminal, KeywordAt
<1> QED
  BY <1>2, <1>3, <1>4 DEF KeywordAt

\* A token that is no keyword is taken while none has been.
LEMMA MarkTaken ==
  ASSUME DocumentInv, NoKeyword, current < Len(Types), current' = current + 1,
         Types[current + 1] \notin L!KeywordTypes, UNCHANGED lexed
  PROVE  KeywordsLast'
<1>1. current \in Nat /\ Len(lexed) \in Nat /\ current + 1 \in 1 .. Len(lexed)
  BY TypesType DEF DocumentInv, TokensInv, L!KeywordInv, ParserInv, P!Inv, P!TypeOK
<1>2. lexed[current + 1].type \notin L!KeywordTypes
  BY <1>1, TypesType DEF DocumentInv, TokensInv, L!KeywordInv
<1>3. \A k \in 1 .. current + 1 : k \in 1 .. current \/ k = current + 1
  BY <1>1
<1> QED
  BY <1>2, <1>3 DEF KeywordsLast, NoKeyword, KeywordAt, L!KeywordTypes

LEMMA ScalarTaken ==
  ASSUME DocumentInv, P!ReadScalar, UNCHANGED lexed
  PROVE  KeywordsLast'
<1>1. PICK type \in P!ScalarTypes :
        P!Match(type) /\ values' = P!With(current + 1, P!Value(type, <<>>, 0))
  BY DEF P!ReadScalar
<1>2. /\ current' = current + 1 /\ result' = current + 1
      /\ point = "value" /\ point' = "returned"
  BY DEF P!ReadScalar, P!Advance, P!At
<1>3. NoKeyword
  BY <1>2 DEF DocumentInv, KeywordsLast, NoKeyword
<1>4. current \in Nat /\ current < Len(Types) /\ Types[current + 1] = type
  BY <1>1 DEF DocumentInv, ParserInv, P!Inv, P!TypeOK, P!Match
<1>5. lexed[current + 1].type = type
  BY <1>4, TypesType DEF DocumentInv, TokensInv, L!KeywordInv
<1>6. values'[current + 1].type = type
  BY <1>1 DEF P!With, P!Value
<1>7. \A k \in 1 .. current + 1 : k \in 1 .. current \/ k = current + 1
  BY <1>4
<1> QED
  BY <1>2, <1>3, <1>5, <1>6, <1>7 DEF KeywordsLast, NoKeyword, KeywordAt, L!KeywordTypes

LEMMA ParseKeeps ==
  ASSUME DocumentInv, P!Next, UNCHANGED lexed
  PROVE  KeywordsLast'
<1>0. /\ {"LBRACE", "LBRACKET", "RBRACE", "RBRACKET", "STRING", "COLON", "COMMA"}
           \subseteq P!TokenTypes \ L!KeywordTypes
      /\ \A type : P!Match(type) => current < Len(Types) /\ Types[current + 1] = type
      /\ point # "returned" => NoKeyword
  BY DEF P!TokenTypes, L!KeywordTypes, P!Match, DocumentInv, KeywordsLast, NoKeyword
<1>1. CASE P!OpenObject \/ P!OpenArray
  BY <1>0, <1>1, MarkTaken DEF P!OpenObject, P!OpenArray, P!Open, P!Advance, P!At, L!KeywordTypes
<1>2. CASE P!ReadScalar
  BY <1>2, ScalarTaken
<1>3. CASE P!EmptyArray
  BY <1>0, <1>3, MarkTaken DEF P!EmptyArray, P!Finish, P!Advance, P!At, L!KeywordTypes
<1>4. CASE P!ReadKey \/ P!ReadColon
  BY <1>0, <1>4, MarkTaken DEF P!ReadKey, P!ReadColon, P!Advance, P!At, L!KeywordTypes
<1>5. CASE P!Comma
  <2>1. NoKeyword
    BY <1>0, <1>5, NothingAfterKeywords DEF P!Comma, P!InContainer, P!At
  <2> QED
    BY <1>0, <1>5, <2>1, MarkTaken DEF P!Comma, P!Advance, L!KeywordTypes
<1>6. CASE P!Close
  <2>1. PICK type \in {"RBRACE", "RBRACKET"} : P!Match(type)
    BY <1>6 DEF P!Close, P!ClosingOf
  <2>2. NoKeyword
    BY <1>0, <1>6, <2>1, NothingAfterKeywords DEF P!Close, P!InContainer, P!At
  <2> QED
    BY <1>0, <1>6, <2>1, <2>2, MarkTaken DEF P!Close, P!Finish, P!Advance, L!KeywordTypes
<1>7. CASE P!FirstElement
  <2>1. NoKeyword /\ UNCHANGED current
    BY <1>0, <1>7 DEF P!FirstElement, P!At
  <2> QED
    BY <2>1 DEF NoKeyword, KeywordsLast, KeywordAt, L!KeywordTypes
<1>8. CASE P!Accept \/ P!Unexpected \/ P!OutOfBounds
  BY <1>8 DEF P!Accept, P!Unexpected, P!OutOfBounds, DocumentInv, KeywordsLast, KeywordAt,
    L!KeywordTypes
<1> QED
  BY <1>1, <1>2, <1>3, <1>4, <1>5, <1>6, <1>7, <1>8 DEF P!Next

LEMMA DocumentInvKept == DocumentInv /\ [Next]_vars => DocumentInv'
<1> SUFFICES ASSUME DocumentInv, [Next]_vars PROVE DocumentInv'
  OBVIOUS
<1>0. TokensInv'
  BY TokensInvKept DEF DocumentInv
<1>1. TokensInv' /\ ParserInv'
  BY <1>0, ParserInvKept DEF DocumentInv, TokensInv, L!KeywordInv
<1>2. CASE Lex
  <2>1. current = 0 /\ current' = 0 /\ phase' = "lexing"
    BY <1>2 DEF Lex, DocumentInv, ParserInv, Idle, P!Begin, parserVars, mainVars
  <2> QED
    BY <1>1, <2>1 DEF DocumentInv, KeywordsLast, AfterParsing
<1>3. CASE Parse
  <2>1. KeywordsLast' /\ phase' = "parsing"
    BY <1>3, ParseKeeps DEF Parse, lexerVars, mainVars
  <2> QED
    BY <1>1, <2>1 DEF DocumentInv, AfterParsing
<1>4. CASE UNCHANGED <<lexerVars, parserVars>>
  <2>1. KeywordsLast' /\ (NoKeyword' <=> NoKeyword)
    BY <1>4 DEF DocumentInv, KeywordsLast, NoKeyword, KeywordAt, lexerVars, parserVars,
      L!KeywordTypes
  <2>2. CASE TakePairs \/ NoPairs
    <3>1. values[result].type = "object"
      BY <2>2 DEF TakePairs, NoPairs, HasPairs, JSON
    <3>2. NoKeyword
      BY <3>1 DEF DocumentInv, KeywordsLast, NoKeyword, L!KeywordTypes
    <3> QED
      BY <1>1, <2>1, <3>2 DEF DocumentInv, AfterParsing
  <2>3. CASE AfterParsing'
    BY <1>1, <2>1, <2>3 DEF DocumentInv
  <2>4. TakePairs \/ NoPairs \/ AfterParsing'
    BY <1>4, <2>1 DEF DocumentInv, AfterParsing, Next, vars, mainVars, ReadInput, NoInput, TakeInput, Lex,
      Lexed, Parse, ParserStops, Misread, CollectPair, CollectWrongly, Collected, Sum, SumAndValidate
  <2> QED
    BY <2>2, <2>3, <2>4
<1>5. Lex \/ Parse \/ UNCHANGED <<lexerVars, parserVars>>
  BY DEF Next, vars, ReadInput, NoInput, TakeInput, Lexed, ParserStops, TakePairs, NoPairs, Misread,
    CollectPair, CollectWrongly, Collected, Sum, SumAndValidate
<1> QED
  BY <1>2, <1>3, <1>4, <1>5

LEMMA AtRestEstablishesDocument == AtRest => DocumentInv
<1> SUFFICES ASSUME AtRest PROVE DocumentInv
  OBVIOUS
<1>1. TokensInv /\ L!Inv
  BY L!StartEstablishesInv, L!StartEstablishesKeywordInv, Capacities, FilesType, FilesAreCut
    DEF AtRest, TokensInv
<1>2. ParserInv /\ current = 0 /\ phase = "opening"
  BY <1>1, AtTheBeginning DEF AtRest, ParserInv, Idle, P!Begin
<1> QED
  BY <1>1, <1>2 DEF DocumentInv, KeywordsLast, AfterParsing

LEMMA DocumentAlways == Spec => []DocumentInv
BY InitAtRest, AtRestEstablishesDocument, DocumentInvKept, PTL DEF Spec

\* true, false and null: a document that has one, in a pair or anywhere else in the
\* value that is read, never gives a sum, for any file (main, ParseHaversinePairs
\* over lexer and parser).
THEOREM KeywordsAreNeverSummed == Spec => []NoSumAroundKeywords
<1>1. DocumentInv => NoSumAroundKeywords
  BY DEF DocumentInv, AfterParsing, NoKeyword, KeywordAt, NoSumAroundKeywords
<1> QED
  BY <1>1, DocumentAlways, PTL

\* Inside the program, too, every token has room in lexer->tokens and every entry in
\* its container, whatever the file: of the buffers between the file and the sum only
\* that of the pairs can be too small.
THEOREM TokensAndEntriesFit == Spec => [](L!WithinCapacity /\ P!RoomForTheEntry)
<1>1. DocumentInv => L!WithinCapacity /\ P!RoomForTheEntry
  BY DEF DocumentInv, TokensInv, L!KeywordInv, ParserInv, L!Inv, P!Inv
<1> QED
  BY <1>1, DocumentAlways, PTL

-----------------------------------------------------------------------------

\* The division rounds down, so the answer taken is whole and none follows it.
LEMMA LastAnswer ==
  ASSUME NEW size \in Nat, size >= DoubleSize
  PROVE  /\ RefAnswerCount(size) \in Nat
         /\ DoubleSize * (RefAnswerCount(size) + 1) <= size
         /\ size < DoubleSize * (RefAnswerCount(size) + 2)
BY DEF RefAnswerCount, DoubleSize

\* RefSum is the last whole double of the answers file, inside what was read, for
\* every size of the file, whole number of doubles or not (main, lines 124 to 136).
THEOREM ReferenceIsLast == Spec => []ReferenceIsTheLastAnswer
<1>1. Init => ReferenceIsTheLastAnswer
  BY DEF Init, ReferenceIsTheLastAnswer
<1>2. ReferenceIsTheLastAnswer /\ [Next]_vars => ReferenceIsTheLastAnswer'
  <2> SUFFICES ASSUME ReferenceIsTheLastAnswer, [Next]_vars
               PROVE  ReferenceIsTheLastAnswer'
    OBVIOUS
  <2>1. CASE SumAndValidate
    <3>1. PICK size \in ReadEntireFile(AnswersSizes) :
            /\ size >= DoubleSize
            /\ answers' = size
            /\ validation'.reference = RefAnswerCount(size)
      BY <2>1 DEF SumAndValidate
    <3>2. size \in Nat
      BY Sizes DEF ReadEntireFile, AllocateBuffer, FreeBuffer
    <3> QED
      BY <3>1, <3>2, LastAnswer DEF ReferenceIsTheLastAnswer
  <2>2. CASE UNCHANGED <<answers, validation>>
    BY <2>2 DEF ReferenceIsTheLastAnswer
  <2>3. SumAndValidate \/ UNCHANGED <<answers, validation>>
    BY DEF Next, vars, mainVars, ReadInput, NoInput, TakeInput, Lex, Lexed, Parse, ParserStops, TakePairs,
      NoPairs, Misread, CollectPair, CollectWrongly, Collected, Sum
  <2> QED
    BY <2>1, <2>2, <2>3
<1> QED
  BY <1>1, <1>2, PTL DEF Spec

-----------------------------------------------------------------------------
(***************************************************************************)
(* Files in the format: what the parser gets to see of one.                *)
(***************************************************************************)

\* The file is one in the format, of these lexemes and with these elements.
InFile(lexemes, elements) ==
  /\ L!IsCut(lexemes, file) /\ HasFormat(lexemes, file, elements)
  /\ elements \in Seq(Element)

\* A lexeme of the file is, once the file has been read, the token it is said to be.
LEMMA TokenIs ==
  ASSUME NEW lexemes, L!IsCut(lexemes, file), L!Inv, L!ReadAs(lexemes), lexing = "done",
         NEW k \in 1 .. Len(lexemes), lexemes[k].type # "BLANK"
  PROVE  LET p == L!Count(lexemes, k) IN
         /\ p \in 1 .. Len(Types)
         /\ Types[p] = lexemes[k].type
         /\ lexed[p].text = L!TextOf(lexemes[k], file)
<1> DEFINE p == L!Count(lexemes, k)
<1>1. Len(lexemes) \in Nat
  BY DEF L!IsCut
<1>2. L!ReadUpTo(lexemes, Len(lexemes))
  BY DEF L!ReadAs
<1>3. k \in L!Significant(lexemes, Len(lexemes))
  BY DEF L!Significant
<1>4. p \in 1 .. L!Count(lexemes, Len(lexemes))
  BY <1>1, <1>3, L!CountWithin, Capacities, FilesType, FilesAreCut
<1>5. lexed[p] = L!AsToken(lexemes[k]) /\ Len(lexed) = L!Count(lexemes, Len(lexemes))
  BY <1>2, <1>3 DEF L!ReadUpTo
<1>6. p \in 1 .. Len(lexed)
  BY <1>4, <1>5
<1> QED
  BY <1>5, <1>6, TypesType DEF L!AsToken

\* A file in the format, once it has been read, as the parser looks at it.
TypesAre(n) ==
  /\ n \in Nat /\ ArrayEnd(n) + 1 \in 1 .. Len(Types)
  /\ Types[1] = "LBRACE" /\ Types[2] = "STRING" /\ Types[3] = "COLON" /\ Types[4] = "LBRACKET"
  /\ Types[ArrayEnd(n)] = "RBRACKET" /\ Types[ArrayEnd(n) + 1] = "RBRACE"
  /\ \A i \in 1 .. n :
       /\ Types[ElementAt(i)] = "LBRACE"
       /\ \A k \in 1 .. 4 :
            /\ Types[NumberAt(i, k) - 2] = "STRING" /\ Types[NumberAt(i, k) - 1] = "COLON"
            /\ Types[NumberAt(i, k)] = "NUMBER"
            /\ Types[NumberAt(i, k) + 1] = IF k = 4 THEN "RBRACE" ELSE "COMMA"
       /\ i > 1 => Types[ElementAt(i) - 1] = "COMMA"

\* The array is closed where it ends, and not before.
LEMMA SizeIs ==
  ASSUME NEW n, TypesAre(n)
  PROVE  Size = n
<1> DEFINE IsSize(m) ==
      Types[ArrayEnd(m)] = "RBRACKET" /\ \A k \in 0 .. m - 1 : Types[ArrayEnd(k)] # "RBRACKET"
<1>1. n \in Nat /\ Types[ArrayEnd(n)] = "RBRACKET" /\ ArrayEnd(n) + 1 \in 1 .. Len(Types)
  BY DEF TypesAre
<1>2. ASSUME NEW k \in 0 .. n - 1 PROVE Types[ArrayEnd(k)] # "RBRACKET"
  <2>1. PICK i \in 1 .. n : i = k + 1
    BY <1>1
  <2>2. CASE k = 0
    <3>1. ArrayEnd(k) = ElementAt(i)
      BY <2>1, <2>2 DEF ArrayEnd, ElementAt
    <3> QED
      BY <3>1 DEF TypesAre
  <2>3. CASE k # 0
    <3>1. ArrayEnd(k) = ElementAt(i) - 1 /\ i > 1
      BY <1>1, <2>1, <2>3 DEF ArrayEnd, ElementAt
    <3> QED
      BY <3>1 DEF TypesAre
  <2> QED
    BY <2>2, <2>3
<1>3. n \in 0 .. Len(Types) /\ IsSize(n)
  <2>1. CASE n = 0
    BY <1>1, <1>2, <2>1 DEF ArrayEnd
  <2>2. CASE n # 0
    <3>1. Len(Types) \in Int
      BY <1>1 DEF ArrayEnd
    <3> QED
      BY <1>1, <1>2, <2>2, <3>1 DEF ArrayEnd
  <2> QED
    BY <2>1, <2>2
<1>4. ASSUME NEW m \in 0 .. Len(Types), IsSize(m)
      PROVE  m = n
  <2>1. ~(n \in 0 .. m - 1) /\ ~(m \in 0 .. n - 1)
    BY <1>3, <1>4
  <2> QED
    BY <1>1, <1>4, <2>1
<1>5. Size = CHOOSE m \in 0 .. Len(Types) : IsSize(m)
  BY DEF Size
<1> HIDE DEF IsSize
<1> QED
  BY <1>3, <1>4, <1>5

\* The tokens of a file in the format have the types, and its numbers the texts, that the
\* format says.
LEMMA FormatTypes ==
  ASSUME NEW lexemes, NEW elements, InFile(lexemes, elements), L!Inv, L!ReadAs(lexemes),
         lexing = "done"
  PROVE  /\ Size = Len(elements) /\ TypesAre(Size)
         /\ \A i \in 1 .. Len(elements), k \in 1 .. 4 :
              lexed[NumberAt(i, k)].text = elements[i][k]
<1> DEFINE n == Len(elements)
<1>1. HasFormat(lexemes, file, elements) /\ n \in Nat /\ L!IsCut(lexemes, file)
  BY DEF InFile
<1>2. ASSUME NEW p, NEW type, type # "BLANK", Has(lexemes, p, type)
      PROVE  p \in 1 .. Len(Types) /\ Types[p] = type
  BY <1>1, <1>2, TokenIs DEF Has
<1>3. ASSUME NEW p, NEW text, HasNumber(lexemes, file, p, text)
      PROVE  Types[p] = "NUMBER" /\ lexed[p].text = text
  BY <1>1, <1>3, TokenIs DEF HasNumber
<1>4. ASSUME NEW i \in 1 .. n
      PROVE  /\ Types[ElementAt(i)] = "LBRACE"
             /\ \A k \in 1 .. 4 :
                  /\ Types[NumberAt(i, k) - 2] = "STRING" /\ Types[NumberAt(i, k) - 1] = "COLON"
                  /\ Types[NumberAt(i, k)] = "NUMBER"
                  /\ lexed[NumberAt(i, k)].text = elements[i][k]
                  /\ Types[NumberAt(i, k) + 1] = IF k = 4 THEN "RBRACE" ELSE "COMMA"
             /\ i > 1 => Types[ElementAt(i) - 1] = "COMMA"
  <2>1. HasElement(lexemes, file, i, elements[i]) /\ (i > 1 => Has(lexemes, ElementAt(i) - 1, "COMMA"))
    BY <1>1 DEF HasFormat, HasBeginning
  <2>2. Types[ElementAt(i)] = "LBRACE" /\ (i > 1 => Types[ElementAt(i) - 1] = "COMMA")
    BY <1>2, <2>1 DEF HasElement
  <2>3. ASSUME NEW k \in 1 .. 4
        PROVE  /\ Types[NumberAt(i, k) - 2] = "STRING" /\ Types[NumberAt(i, k) - 1] = "COLON"
               /\ Types[NumberAt(i, k)] = "NUMBER"
               /\ lexed[NumberAt(i, k)].text = elements[i][k]
               /\ Types[NumberAt(i, k) + 1] = IF k = 4 THEN "RBRACE" ELSE "COMMA"
    <3>1. /\ Has(lexemes, NumberAt(i, k) - 2, "STRING") /\ Has(lexemes, NumberAt(i, k) - 1, "COLON")
          /\ HasNumber(lexemes, file, NumberAt(i, k), elements[i][k])
          /\ Has(lexemes, NumberAt(i, k) + 1, IF k = 4 THEN "RBRACE" ELSE "COMMA")
      BY <2>1 DEF HasElement
    <3>2. (IF k = 4 THEN "RBRACE" ELSE "COMMA") # "BLANK"
      OBVIOUS
    <3> QED
      BY <1>2, <1>3, <3>1, <3>2
  <2> QED
    BY <2>2, <2>3
<1>5. /\ Types[1] = "LBRACE" /\ Types[2] = "STRING" /\ Types[3] = "COLON" /\ Types[4] = "LBRACKET"
      /\ Types[ArrayEnd(n)] = "RBRACKET" /\ Types[ArrayEnd(n) + 1] = "RBRACE"
      /\ ArrayEnd(n) + 1 \in 1 .. Len(Types)
  BY <1>1, <1>2 DEF HasFormat, HasBeginning
<1>6. TypesAre(n)
  BY <1>1, <1>4, <1>5 DEF TypesAre
<1>7. Size = n
  BY <1>6, SizeIs
<1> QED
  BY <1>4, <1>6, <1>7

-----------------------------------------------------------------------------
(***************************************************************************)
(* The containers of a file in the format, and their entries.              *)
(***************************************************************************)

\* The parser in a file in the format.
InFormat == TypesAre(Size) /\ P!SpellingInv

\* A container that holds its entries began at its opening mark.
LEMMA Opening ==
  ASSUME InFormat, NEW at \in DOMAIN values, P!HoldsItsEntries(at)
  PROVE  /\ \/ values[at].type = "object" /\ Types[at] = "LBRACE"
            \/ values[at].type = "array" /\ Types[at] = "LBRACKET"
         /\ Len(values[at].entries) \in Nat
<1>1. values[at] \in P!ValueTypes /\ Len(values[at].entries) \in Nat
  BY P!EntryTypes, Capacities DEF InFormat
<1> QED
  BY <1>1 DEF P!HoldsItsEntries, P!OpeningOf, P!ValueTypes

\* Where an entry of a container is, and what comes behind it.
LEMMA Place ==
  ASSUME InFormat, NEW at \in DOMAIN values, P!HoldsItsEntries(at),
         NEW k \in 1 .. Len(values[at].entries)
  PROVE  LET entry == values[at].entries[k] IN
         /\ entry.value \in Returned
         /\ values[at].type = "object" => entry.value = P!EntryAt(at, k) + 2
         /\ values[at].type = "array" => entry.value = P!EntryAt(at, k)
         /\ P!EntryAt(at, k + 1) = EndOf(Size, entry.value) + 2
         /\ P!IsSeparated(at, k + 1) => Types[EndOf(Size, entry.value) + 1] = "COMMA"
         /\ k > 1 => P!IsSeparated(at, k)
<1> DEFINE entry == values[at].entries[k]
<1>1. k \in Nat /\ k # 0 /\ (k + 1) - 1 = k /\ k + 1 # 1
  BY Opening
<1>2. entry.value \in Returned /\ P!IsEntry(at, entry.key, entry.value, P!EntryAt(at, k)) /\ P!IsSeparated(at, k)
  BY DEF P!HoldsItsEntries
<1>3. /\ values[at].type = "object" => entry.key = P!EntryAt(at, k) /\ entry.value = entry.key + 2
      /\ values[at].type = "array" => entry.value = P!EntryAt(at, k)
  BY <1>2 DEF P!IsEntry
<1>4. P!EntryAt(at, k + 1) = EndOf(Size, entry.value) + 2
  BY <1>1, <1>2 DEF P!EntryAt
<1>5. EndOf(Size, entry.value) \in Int
  <2>1. entry.value \in DOMAIN values /\ Size \in Nat
    BY <1>2 DEF Returned, InFormat, TypesAre
  <2>2. entry.value \in Nat
    BY <2>1 DEF InFormat, P!SpellingInv, P!Inv, P!TypeOK
  <2> QED
    BY <2>1, <2>2 DEF EndOf, ArrayEnd
<1>6. P!EntryAt(at, k + 1) - 1 = EndOf(Size, entry.value) + 1
  BY <1>4, <1>5
<1>7. P!IsSeparated(at, k + 1) => Types[EndOf(Size, entry.value) + 1] = "COMMA"
  BY <1>1, <1>6 DEF P!IsSeparated
<1> QED
  BY <1>2, <1>3, <1>4, <1>7

\* The places of the format, as numbers.
LEMMA Ends ==
  ASSUME InFormat
  PROVE  /\ Size \in Nat /\ ArrayEnd(Size) \in Nat /\ ElementAt(1) = 5
         /\ Size = 0 => ArrayEnd(Size) = 5
         /\ Size # 0 => ArrayEnd(Size) = ElementAt(Size) + 17
         /\ EndOf(Size, 1) = ArrayEnd(Size) + 1
         /\ EndOf(Size, 4) = ArrayEnd(Size)
         /\ \A i \in 1 .. Size :
              /\ ElementAt(i) \in Nat /\ ElementAt(i) >= 5 /\ ElementAt(i + 1) = ElementAt(i) + 18
              /\ EndOf(Size, ElementAt(i)) = ElementAt(i) + 16
              /\ \A k \in 1 .. 4 : /\ NumberAt(i, k) = ElementAt(i) + 4 * k - 1
                                   /\ EndOf(Size, NumberAt(i, k)) = NumberAt(i, k)
<1>1. Size \in Nat
  BY DEF InFormat, TypesAre
<1>2. ASSUME NEW i \in 1 .. Size, NEW k \in 1 .. 4
      PROVE  EndOf(Size, NumberAt(i, k)) = NumberAt(i, k)
  <2>1. \A m \in 1 .. Size : NumberAt(i, k) # ElementAt(m)
    BY <1>1 DEF NumberAt, ElementAt
  <2>2. NumberAt(i, k) > 4
    BY <1>1 DEF NumberAt, ElementAt
  <2> QED
    BY <2>1, <2>2 DEF EndOf
<1>3. ASSUME NEW i \in 1 .. Size
      PROVE  EndOf(Size, ElementAt(i)) = ElementAt(i) + 16
  <2>1. ElementAt(i) > 4
    BY <1>1 DEF ElementAt
  <2> QED
    BY <2>1 DEF EndOf
<1>4. \A i \in 1 .. Size, k \in 1 .. 4 : NumberAt(i, k) = ElementAt(i) + 4 * k - 1
  BY DEF NumberAt
<1>5. \A i \in 1 .. Size : ElementAt(i) \in Nat /\ ElementAt(i) >= 5 /\ ElementAt(i + 1) = ElementAt(i) + 18
  BY <1>1 DEF ElementAt
<1>6. /\ ArrayEnd(Size) \in Nat /\ ElementAt(1) = 5
      /\ Size = 0 => ArrayEnd(Size) = 5
      /\ Size # 0 => ArrayEnd(Size) = ElementAt(Size) + 17
  BY <1>1 DEF ArrayEnd, ElementAt
<1>7. EndOf(Size, 1) = ArrayEnd(Size) + 1 /\ EndOf(Size, 4) = ArrayEnd(Size)
  BY DEF EndOf
<1> QED
  BY <1>1, <1>2, <1>3, <1>4, <1>5, <1>6, <1>7

\* The document has one entry, and the value of that is where the array is.
LEMMA DocumentHeld ==
  ASSUME InFormat, 1 \in DOMAIN values, P!HoldsItsEntries(1)
  PROVE  LET entries == values[1].entries IN
         /\ values[1].type = "object" /\ Len(entries) \in {0, 1}
         /\ Len(entries) = 1 => entries[1].value = 4 /\ 4 \in Returned
         /\ P!IsBegun(1) => Len(entries) = 0
<1> DEFINE entries == values[1].entries
<1>1. values[1].type = "object" /\ Len(entries) \in Nat
  BY Opening DEF InFormat, TypesAre
<1>2. ASSUME Len(entries) > 0
      PROVE  /\ entries[1].value = 4 /\ 4 \in Returned
             /\ ~P!IsSeparated(1, 2)
  <2>1. 1 \in 1 .. Len(entries) /\ 1 + 1 = 2
    BY <1>1, <1>2
  <2>2. P!EntryAt(1, 1) = 2
    BY DEF P!EntryAt
  <2>3. entries[1].value = 4 /\ 4 \in Returned
    BY <1>1, <2>1, <2>2, Place
  <2>4. P!IsSeparated(1, 2) => Types[ArrayEnd(Size) + 1] = "COMMA"
    BY <2>1, <2>3, Place, Ends
  <2> QED
    BY <2>3, <2>4 DEF InFormat, TypesAre
<1>3. Len(entries) < 2
  <2> SUFFICES ASSUME Len(entries) >= 2 PROVE FALSE
    BY <1>1
  <2>1. 2 \in 1 .. Len(entries) /\ 2 > 1
    BY <1>1
  <2> QED
    BY <1>1, <1>2, <2>1, Place
<1>4. ASSUME P!IsBegun(1), Len(entries) = 1
      PROVE  FALSE
  BY <1>2, <1>4 DEF P!IsBegun
<1>5. Len(entries) \in {0, 1}
  <2>1. PICK m \in Nat : m = Len(entries)
    BY <1>1
  <2>2. m < 2
    BY <1>3, <2>1
  <2>3. m = 0 \/ m = 1
    BY <2>2
  <2> QED
    BY <2>1, <2>3
<1>6. P!IsBegun(1) => Len(entries) = 0
  BY <1>4, <1>5
<1> QED
  BY <1>1, <1>2, <1>5, <1>6

\* The entries of the array are the elements, up to one of them.
LEMMA ArrayHeld ==
  ASSUME InFormat, 4 \in DOMAIN values, P!HoldsItsEntries(4)
  PROVE  LET entries == values[4].entries IN
         /\ values[4].type = "array" /\ Len(entries) \in 0 .. Size
         /\ \A i \in 1 .. Len(entries) :
              entries[i].value = ElementAt(i) /\ ElementAt(i) \in Returned
         /\ P!NextEntryAt(4) = ElementAt(Len(entries) + 1)
         /\ P!IsBegun(4) => Len(entries) = 0 \/ Len(entries) < Size
<1> DEFINE entries == values[4].entries
           m == Len(entries)
           Held(i) == /\ i <= Size /\ entries[i].value = ElementAt(i) /\ ElementAt(i) \in Returned
                      /\ P!EntryAt(4, i + 1) = ElementAt(i + 1)
                      /\ P!IsSeparated(4, i + 1) => i < Size
<1>1. values[4].type = "array" /\ m \in Nat
  BY Opening DEF InFormat, TypesAre
<1>2. Size \in Nat /\ ElementAt(1) = 5
  BY Ends
<1>3. ASSUME NEW i \in 1 .. m, P!EntryAt(4, i) = ElementAt(i), i > 1 => i <= Size
      PROVE  Held(i)
  <2>1. /\ entries[i].value = ElementAt(i) /\ ElementAt(i) \in Returned
        /\ P!EntryAt(4, i + 1) = EndOf(Size, ElementAt(i)) + 2
        /\ P!IsSeparated(4, i + 1) => Types[EndOf(Size, ElementAt(i)) + 1] = "COMMA"
    BY <1>1, <1>3, Place
  <2>2. i <= Size
    <3> SUFFICES ASSUME i = 1, Size = 0 PROVE FALSE
      BY <1>2, <1>3
    <3>1. Types[5] = "RBRACKET" /\ 5 \in Returned
      BY <1>2, <2>1, Ends DEF InFormat, TypesAre
    <3>2. P!IsSpelled(5)
      BY <3>1 DEF InFormat, P!SpellingInv, P!TreeSpellsTheTokens
    <3>3. 5 \in DOMAIN values
      BY <3>1 DEF Returned
    <3>4. Types[5] \in P!ScalarTypes \/ P!HoldsItsEntries(5)
      BY <3>2 DEF P!IsSpelled
    <3> QED
      BY <3>1, <3>3, <3>4, Opening DEF P!ScalarTypes
  <2>3. i \in 1 .. Size
    BY <2>2
  <2>4. /\ ElementAt(i) \in Nat /\ ElementAt(i + 1) = ElementAt(i) + 18
        /\ EndOf(Size, ElementAt(i)) = ElementAt(i) + 16
    BY <2>3, Ends
  <2>5. P!EntryAt(4, i + 1) = ElementAt(i + 1)
    BY <2>1, <2>4
  <2>6. P!IsSeparated(4, i + 1) => i < Size
    <3> SUFFICES ASSUME P!IsSeparated(4, i + 1), i = Size PROVE FALSE
      BY <1>2, <2>3
    <3>1. ArrayEnd(Size) = ElementAt(i) + 17
      BY <2>3, Ends
    <3>2. Types[ElementAt(i) + 17] = "COMMA"
      BY <2>1, <2>4
    <3> QED
      BY <3>1, <3>2 DEF InFormat, TypesAre
  <2> QED
    BY <2>1, <2>2, <2>5, <2>6
<1>4. \A i \in 1 .. m : Held(i)
  <2> DEFINE Bad == {i \in 1 .. m : ~Held(i)}
  <2> SUFFICES ASSUME Bad # {} PROVE FALSE
    OBVIOUS
  <2>0. Bad \in SUBSET Nat
    OBVIOUS
  <2> HIDE DEF Held
  <2>1. PICK i \in Bad : \A j \in Bad : i <= j
    <3> HIDE DEF Bad
    <3> QED
      BY <2>0, L!LeastNumber, Capacities, FilesType, FilesAreCut
  <2>2. i \in 1 .. m /\ ~Held(i)
    BY <2>1
  <2>3. CASE i = 1
    <3>1. P!EntryAt(4, i) = ElementAt(i)
      BY <1>2, <2>3 DEF P!EntryAt
    <3> QED
      BY <1>3, <2>2, <2>3, <3>1
  <2>4. CASE i # 1
    <3>1. i - 1 \in 1 .. m /\ (i - 1) + 1 = i /\ i > 1
      BY <1>1, <2>2, <2>4
    <3>2. Held(i - 1)
      BY <2>1, <2>2, <3>1
    <3>3. P!IsSeparated(4, i)
      BY <1>1, <2>2, <3>1, Place
    <3>4. P!EntryAt(4, i) = ElementAt(i) /\ i - 1 < Size
      BY <3>1, <3>2, <3>3 DEF Held
    <3> QED
      BY <1>2, <1>3, <2>2, <3>1, <3>4
  <2> QED
    BY <2>3, <2>4
<1>5. m \in 0 .. Size /\ P!NextEntryAt(4) = ElementAt(m + 1)
  <2>1. CASE m = 0
    BY <1>2, <2>1 DEF P!NextEntryAt, P!EntryAt
  <2>2. CASE m # 0
    <3>1. m \in 1 .. m
      BY <1>1, <2>2
    <3>2. Held(m)
      BY <1>4, <3>1
    <3> QED
      BY <1>1, <1>2, <3>2 DEF P!NextEntryAt
  <2> QED
    BY <2>1, <2>2
<1>6. ASSUME P!IsBegun(4), m # 0
      PROVE  m < Size
  <2>1. m \in 1 .. m
    BY <1>1, <1>6
  <2>2. Held(m)
    BY <1>4, <2>1
  <2> QED
    BY <1>6, <2>2 DEF P!IsBegun
<1> QED
  BY <1>1, <1>4, <1>5, <1>6

\* The entries of an element are its numbers, up to one of them.
LEMMA ElementHeld ==
  ASSUME InFormat, NEW i \in 1 .. Size, NEW at \in DOMAIN values, at = ElementAt(i),
         P!HoldsItsEntries(at)
  PROVE  LET entries == values[at].entries IN
         /\ values[at].type = "object" /\ Len(entries) \in 0 .. 4
         /\ \A k \in 1 .. Len(entries) :
              entries[k].value = NumberAt(i, k) /\ NumberAt(i, k) \in Returned
         /\ P!NextEntryAt(at) = at + 4 * Len(entries) + 1
         /\ P!IsBegun(at) => Len(entries) < 4
<1> DEFINE entries == values[at].entries
           Held(k) == /\ entries[k].value = NumberAt(i, k) /\ NumberAt(i, k) \in Returned
                      /\ P!EntryAt(at, k + 1) = at + 4 * k + 1
                      /\ P!IsSeparated(at, k + 1) => k < 4
<1>1. values[at].type = "object" /\ Len(entries) \in Nat /\ Types[at] = "LBRACE"
  BY Opening DEF InFormat, TypesAre
<1>2. PICK m \in Nat : m = Len(entries)
  BY <1>1
<1>3. at \in Nat
  BY Ends
<1>4. ASSUME NEW k \in 1 .. 4, k <= m, P!EntryAt(at, k) = at + 4 * k - 3
      PROVE  Held(k)
  <2>1. /\ entries[k].value = P!EntryAt(at, k) + 2 /\ entries[k].value \in Returned
        /\ P!EntryAt(at, k + 1) = EndOf(Size, entries[k].value) + 2
        /\ P!IsSeparated(at, k + 1) => Types[EndOf(Size, entries[k].value) + 1] = "COMMA"
    BY <1>1, <1>2, <1>4, Place
  <2>2. /\ NumberAt(i, k) = at + 4 * k - 1
        /\ EndOf(Size, NumberAt(i, k)) = NumberAt(i, k)
    BY Ends
  <2>3. entries[k].value = NumberAt(i, k)
    BY <1>3, <1>4, <2>1, <2>2
  <2>4. P!EntryAt(at, k + 1) = at + 4 * k + 1
    BY <1>3, <2>1, <2>2, <2>3
  <2>5. Types[NumberAt(i, k) + 1] = IF k = 4 THEN "RBRACE" ELSE "COMMA"
    BY DEF InFormat, TypesAre
  <2> QED
    BY <2>1, <2>2, <2>3, <2>4, <2>5
<1>5. P!EntryAt(at, 1) = at + 1
  BY DEF P!EntryAt
<1> HIDE DEF Held
<1>6. ASSUME NEW k \in 1 .. 3, Held(k), k + 1 <= m
      PROVE  Held(k + 1)
  <2>1. P!EntryAt(at, k + 1) = at + 4 * (k + 1) - 3
    BY <1>3, <1>6 DEF Held
  <2> QED
    BY <1>4, <1>6, <2>1
<1>7. m >= 1 => Held(1)
  BY <1>3, <1>4, <1>5
<1>8. (m >= 2 => Held(2)) /\ (m >= 3 => Held(3)) /\ (m >= 4 => Held(4))
  <2>1. m >= 2 => Held(2)
    BY <1>6, <1>7
  <2>2. m >= 3 => Held(3)
    BY <1>6, <2>1
  <2>3. m >= 4 => Held(4)
    BY <1>6, <2>2
  <2> QED
    BY <2>1, <2>2, <2>3
<1>9. m <= 4
  <2> SUFFICES ASSUME m >= 5 PROVE FALSE
    OBVIOUS
  <2>1. Held(4) /\ 5 \in 1 .. Len(entries) /\ 5 > 1
    BY <1>2, <1>8
  <2>2. P!IsSeparated(at, 5)
    BY <2>1, Place
  <2> QED
    BY <2>1, <2>2 DEF Held
<1>10. \A k \in 1 .. m : Held(k)
  BY <1>7, <1>8, <1>9
<1>11. P!NextEntryAt(at) = at + 4 * m + 1
  <2>1. CASE m = 0
    BY <1>2, <1>3, <2>1 DEF P!NextEntryAt, P!EntryAt
  <2>2. CASE m # 0
    BY <1>2, <1>10, <2>2 DEF P!NextEntryAt, Held
  <2> QED
    BY <2>1, <2>2
<1>12. ASSUME P!IsBegun(at) PROVE m < 4
  <2>1. P!IsSeparated(at, m + 1)
    BY <1>2, <1>12 DEF P!IsBegun
  <2>2. CASE m = 0
    BY <2>2
  <2>3. CASE m # 0
    BY <1>10, <2>1, <2>3 DEF Held
  <2> QED
    BY <2>2, <2>3
<1> QED
  <2>1. m \in 0 .. 4
    BY <1>9
  <2>2. \A k \in 1 .. m : entries[k].value = NumberAt(i, k) /\ NumberAt(i, k) \in Returned
    BY <1>10 DEF Held
  <2> QED
    BY <1>1, <1>2, <1>11, <1>12, <2>1, <2>2

-----------------------------------------------------------------------------
(***************************************************************************)
(* Where the parser can be: in the document, in its array, in an element   *)
(* of that, or past the end.                                               *)
(***************************************************************************)

\* An array is known to have an element before the first is read.
Peeked ==
  point = "value" /\ stack # <<>> /\ P!Inner.type = "array" /\ P!Inner.entries = <<>> =>
    ~P!Match("RBRACKET")

AtEnds ==
  /\ stack = <<>>
  /\ \/ point = "value" /\ current = 0
     \/ point = "returned" /\ result = 1 /\ current = ArrayEnd(Size) + 1

InDocument ==
  /\ Len(stack) = 1 /\ stack[1].at = 1 /\ values[1].type = "object"
  /\ \/ point = "key" /\ current = 1
     \/ point = "colon" /\ current = 2
     \/ point = "value" /\ current = 3
     \/ point = "returned" /\ result = 4 /\ current = ArrayEnd(Size)

\* In the array, at its i-th element.
InArray(i) ==
  /\ Len(stack) = 2 /\ stack[2].at = 4 /\ values[4].type = "array"
  /\ \/ point = "value" /\ i \in 1 .. Size /\ current = ElementAt(i) - 1
     \/ point = "bracket" /\ current = 4
     \/ point = "returned" /\ i \in 1 .. Size /\ result = ElementAt(i) /\ current = ElementAt(i) + 16

\* In that element, at its k-th number.
InElement(i, k) ==
  /\ i \in 1 .. Size /\ k \in 1 .. 4
  /\ Len(stack) = 3 /\ stack[3].at = ElementAt(i) /\ values[ElementAt(i)].type = "object"
  /\ \/ point = "key" /\ current = NumberAt(i, k) - 3
     \/ point = "colon" /\ current = NumberAt(i, k) - 2
     \/ point = "value" /\ current = NumberAt(i, k) - 1
     \/ point = "returned" /\ result = NumberAt(i, k) /\ current = NumberAt(i, k)

\* No element begins at the bracket of an empty array.
LEMMA EmptyHasNone ==
  ASSUME InFormat, Size = 0
  PROVE  5 \notin Returned /\ ~(5 \in DOMAIN values /\ P!HoldsItsEntries(5))
<1>1. Types[5] = "RBRACKET"
  BY Ends DEF InFormat, TypesAre
<1>2. ~(5 \in DOMAIN values /\ P!HoldsItsEntries(5))
  BY <1>1, Opening
<1>3. 5 \in Returned => P!IsSpelled(5) /\ 5 \in DOMAIN values
  BY DEF InFormat, P!SpellingInv, P!TreeSpellsTheTokens, Returned
<1>4. P!IsSpelled(5) => Types[5] \in P!ScalarTypes \/ P!HoldsItsEntries(5)
  BY DEF P!IsSpelled
<1> QED
  BY <1>1, <1>2, <1>3, <1>4 DEF P!ScalarTypes

\* Every container on the stack has been begun, and is an entry of the one below.
LEMMA Open ==
  ASSUME InFormat, NEW d \in 1 .. Len(stack)
  PROVE  /\ stack[d].at \in DOMAIN values /\ P!IsBegun(stack[d].at) /\ P!HoldsItsEntries(stack[d].at)
         /\ P!IsNested(d)
<1>1. stack[d].at \in DOMAIN values
  BY P!Frames, Capacities DEF InFormat, P!SpellingInv
<1>2. P!IsBegun(stack[d].at) /\ P!IsNested(d)
  BY DEF InFormat, P!SpellingInv, P!TreeSpellsTheTokens, P!OpenContainers
<1> QED
  BY <1>1, <1>2 DEF P!IsBegun

\* What has just been returned.
LEMMA JustReturned ==
  ASSUME InFormat, point = "returned"
  PROVE  result \in Returned /\ current = EndOf(Size, result)
BY DEF InFormat, P!SpellingInv, P!TreeSpellsTheTokens

\* Which containers are open, and where the innermost stands.
LEMMA FirstOpen ==
  ASSUME InFormat, Len(stack) >= 1
  PROVE  stack[1].at = 1 /\ values[1].type = "object" /\ P!NextEntryAt(1) = 2
<1>1. 1 \in 1 .. Len(stack)
  BY DEF InFormat, P!SpellingInv, P!Inv, P!TypeOK
<1>2. stack[1].at = 1
  BY <1>1, Open DEF P!IsNested
<1>3. 1 \in DOMAIN values /\ P!IsBegun(1) /\ P!HoldsItsEntries(1)
  BY <1>1, <1>2, Open
<1>4. values[1].type = "object" /\ Len(values[1].entries) = 0
  BY <1>3, DocumentHeld
<1> QED
  BY <1>2, <1>4 DEF P!NextEntryAt, P!EntryAt

LEMMA SecondOpen ==
  ASSUME InFormat, Len(stack) >= 2
  PROVE  /\ stack[2].at = 4 /\ values[4].type = "array"
         /\ \E m \in 0 .. Size : /\ Len(values[4].entries) = m /\ (m = 0 \/ m < Size)
                                 /\ P!NextEntryAt(4) = ElementAt(m + 1)
<1>1. 2 \in 1 .. Len(stack) /\ 2 - 1 = 1 /\ Len(stack) >= 1
  BY DEF InFormat, P!SpellingInv, P!Inv, P!TypeOK
<1>2. stack[2].at = 4
  <2>1. P!IsEntry(stack[1].at, stack[2].key, stack[2].at, P!NextEntryAt(stack[1].at))
    BY <1>1, Open DEF P!IsNested
  <2> QED
    BY <1>1, <2>1, FirstOpen DEF P!IsEntry
<1>3. 4 \in DOMAIN values /\ P!IsBegun(4) /\ P!HoldsItsEntries(4)
  BY <1>1, <1>2, Open
<1> QED
  BY <1>2, <1>3, ArrayHeld

LEMMA ThirdOpen ==
  ASSUME InFormat, Len(stack) >= 3
  PROVE  \E i \in 1 .. Size, k \in 1 .. 4 :
           /\ stack[3].at = ElementAt(i) /\ values[ElementAt(i)].type = "object"
           /\ P!NextEntryAt(ElementAt(i)) = NumberAt(i, k) - 2
<1>1. 3 \in 1 .. Len(stack) /\ 3 - 1 = 2 /\ Len(stack) >= 2
  BY DEF InFormat, P!SpellingInv, P!Inv, P!TypeOK
<1>2. PICK m \in 0 .. Size : (m = 0 \/ m < Size) /\ P!NextEntryAt(4) = ElementAt(m + 1)
  BY <1>1, SecondOpen
<1>3. stack[2].at = 4 /\ values[4].type = "array"
  BY <1>1, SecondOpen
<1>4. stack[3].at = ElementAt(m + 1)
  BY <1>1, <1>2, <1>3, Open DEF P!IsNested, P!IsEntry
<1>5. PICK at : at = ElementAt(m + 1)
  OBVIOUS
<1>6. at \in DOMAIN values /\ P!IsBegun(at) /\ P!HoldsItsEntries(at)
  BY <1>1, <1>4, <1>5, Open
<1>7. m + 1 \in 1 .. Size
  <2>1. Size # 0
    BY <1>2, <1>5, <1>6, Ends, EmptyHasNone
  <2> QED
    BY <1>2, <2>1, Ends
<1>8. PICK j \in 0 .. 4 : /\ values[at].type = "object" /\ j = Len(values[at].entries)
                          /\ P!NextEntryAt(at) = at + 4 * j + 1 /\ j < 4
  BY <1>5, <1>6, <1>7, ElementHeld
<1>9. PICK i \in 1 .. Size : i = m + 1
  BY <1>7
<1>10. PICK k \in 1 .. 4 : k = j + 1
  <2>1. j + 1 \in 1 .. 4
    BY <1>8
  <2> QED
    BY <2>1
<1>11. at \in Nat /\ NumberAt(i, k) = at + 4 * k - 1
  BY <1>5, <1>9, Ends
<1>12. P!NextEntryAt(at) = NumberAt(i, k) - 2
  BY <1>8, <1>10, <1>11
<1> QED
  BY <1>4, <1>5, <1>8, <1>9, <1>12

LEMMA NoFourthOpen ==
  ASSUME InFormat
  PROVE  Len(stack) \in 0 .. 3
<1>1. PICK n \in Nat : n = Len(stack)
  BY DEF InFormat, P!SpellingInv, P!Inv, P!TypeOK
<1>2. SUFFICES ASSUME n >= 4 PROVE FALSE
  BY <1>1
<1>3. 4 \in 1 .. Len(stack) /\ 4 - 1 = 3 /\ Len(stack) >= 3
  BY <1>1, <1>2
<1>4. PICK i \in 1 .. Size, k \in 1 .. 4 :
        /\ stack[3].at = ElementAt(i) /\ values[ElementAt(i)].type = "object"
        /\ P!NextEntryAt(ElementAt(i)) = NumberAt(i, k) - 2
  BY <1>3, ThirdOpen
<1>5. stack[4].at = NumberAt(i, k) - 2 + 2
  BY <1>3, <1>4, Open DEF P!IsNested, P!IsEntry
<1>6. NumberAt(i, k) \in Int
  BY Ends
<1>7. stack[4].at = NumberAt(i, k)
  BY <1>5, <1>6
<1>8. Types[NumberAt(i, k)] = "NUMBER"
  BY DEF InFormat, TypesAre
<1> QED
  BY <1>3, <1>7, <1>8, Open, Opening

LEMMA Whereabouts ==
  ASSUME InFormat, Peeked
  PROVE  AtEnds \/ InDocument \/ (\E i : InArray(i)) \/ (\E i, k : InElement(i, k))
<1>1. /\ stack \in Seq(P!FrameTypes) /\ current \in Nat /\ point \in P!Points /\ result \in Nat
      /\ point \in {"bracket", "key", "colon"} => stack # <<>>
      /\ DOMAIN values \subseteq Nat
  BY DEF InFormat, P!SpellingInv, P!Inv, P!TypeOK
<1>2. Len(stack) \in Nat /\ (stack = <<>> <=> Len(stack) = 0)
  BY <1>1
<1>3. stack # <<>> => P!IsWithin(stack[Len(stack)].at)
  BY DEF InFormat, P!SpellingInv, P!TreeSpellsTheTokens, P!Top
<1>4. CASE Len(stack) = 0
  <2>1. IF point = "value" THEN current = 0 ELSE result = 1
    BY <1>2, <1>4 DEF InFormat, P!SpellingInv, P!TreeSpellsTheTokens
  <2> QED
    BY <1>1, <1>2, <1>4, <2>1, JustReturned, Ends DEF AtEnds, P!Points
<1>5. CASE Len(stack) = 1
  <2>1. P!IsWithin(1) /\ stack[1].at = 1 /\ values[1].type = "object" /\ P!NextEntryAt(1) = 2
    BY <1>2, <1>3, <1>5, FirstOpen
  <2>2. CASE point = "value"
    BY <1>1, <1>5, <2>1, <2>2 DEF InDocument, P!IsWithin, P!IsEntry
  <2>3. CASE point = "returned"
    <3>1. result = 4
      BY <2>1, <2>3 DEF P!IsWithin, P!IsEntry
    <3> QED
      BY <1>5, <2>1, <2>3, <3>1, JustReturned, Ends DEF InDocument
  <2>4. CASE point \in {"key", "colon", "bracket"}
    BY <1>1, <1>5, <2>1, <2>4 DEF InDocument, P!IsWithin
  <2> QED
    BY <1>1, <2>2, <2>3, <2>4 DEF P!Points
<1>6. CASE Len(stack) = 2
  <2>1. P!IsWithin(4) /\ stack[2].at = 4 /\ values[4].type = "array"
    BY <1>2, <1>3, <1>6, SecondOpen
  <2>2. PICK m \in 0 .. Size : /\ Len(values[4].entries) = m /\ (m = 0 \/ m < Size)
                               /\ P!NextEntryAt(4) = ElementAt(m + 1)
    BY <1>6, SecondOpen
  <2>3. ASSUME m < Size
        PROVE  /\ m + 1 \in 1 .. Size /\ ElementAt(m + 1) \in Nat
               /\ EndOf(Size, ElementAt(m + 1)) = ElementAt(m + 1) + 16
    <3>1. m + 1 \in 1 .. Size
      BY <2>2, <2>3, Ends
    <3> QED
      BY <3>1, Ends
  <2>4. m < Size \/ (m = 0 /\ Size = 0)
    BY <2>2, Ends
  <2>5. CASE point = "value"
    <3>1. current + 1 = ElementAt(m + 1)
      BY <2>1, <2>2, <2>5 DEF P!IsWithin, P!IsEntry
    <3>2. m < Size
      <4> SUFFICES ASSUME m = 0, Size = 0 PROVE FALSE
        BY <2>4
      <4>1. current + 1 = 5 /\ Types[5] = "RBRACKET" /\ current + 1 \in 1 .. Len(Types) /\ Len(Types) \in Nat
        <5>1. ArrayEnd(Size) = 5 /\ Types[5] = "RBRACKET" /\ 5 + 1 \in 1 .. Len(Types)
          BY Ends DEF InFormat, TypesAre
        <5>2. current + 1 = 5
          BY <3>1, Ends
        <5>3. Len(Types) \in Nat
          BY DEF InFormat, P!SpellingInv, P!Inv, P!TypeOK
        <5> QED
          BY <5>1, <5>2, <5>3
      <4>2. P!Match("RBRACKET")
        BY <1>1, <4>1 DEF P!Match
      <4>3. P!Inner = values[4] /\ stack # <<>>
        BY <1>2, <1>6, <2>1 DEF P!Inner, P!Top
      <4>4. values[4].entries = <<>>
        <5>1. 4 \in DOMAIN values
          BY <1>6, <2>1, Open
        <5>2. values[4] \in P!ValueTypes
          BY <5>1 DEF InFormat, P!SpellingInv, P!Inv, P!TypeOK
        <5> QED
          BY <2>2, <5>2 DEF P!ValueTypes
      <4> QED
        BY <2>1, <2>5, <4>2, <4>3, <4>4 DEF Peeked
    <3>3. current = ElementAt(m + 1) - 1
      BY <1>1, <2>3, <3>1, <3>2
    <3> QED
      BY <1>6, <2>1, <2>3, <2>5, <3>2, <3>3 DEF InArray
  <2>6. CASE point = "bracket"
    <3>1. Len(values[4].entries) = 0 /\ current + 1 = P!NextEntryAt(4)
      BY <2>1, <2>6 DEF P!IsWithin, P!IsEntry
    <3>2. current + 1 = 5
      BY <2>2, <3>1, Ends
    <3> QED
      BY <1>1, <1>6, <2>1, <2>6, <3>2 DEF InArray
  <2>7. CASE point = "returned"
    <3>1. result = ElementAt(m + 1) /\ result \in Returned
      BY <2>1, <2>2, <2>7, JustReturned DEF P!IsWithin, P!IsEntry
    <3>2. m < Size
      BY <2>4, <3>1, Ends, EmptyHasNone
    <3>3. current = ElementAt(m + 1) + 16
      BY <2>3, <2>7, <3>1, <3>2, JustReturned
    <3> QED
      BY <1>6, <2>1, <2>3, <2>7, <3>1, <3>2, <3>3 DEF InArray
  <2>8. ~(point \in {"key", "colon"})
    BY <2>1 DEF P!IsWithin
  <2> QED
    BY <1>1, <2>5, <2>6, <2>7, <2>8 DEF P!Points
<1>7. CASE Len(stack) = 3
  <2>1. PICK i \in 1 .. Size, k \in 1 .. 4 :
          /\ stack[3].at = ElementAt(i) /\ values[ElementAt(i)].type = "object"
          /\ P!NextEntryAt(ElementAt(i)) = NumberAt(i, k) - 2
    BY <1>7, ThirdOpen
  <2>2. P!IsWithin(ElementAt(i))
    BY <1>2, <1>3, <1>7, <2>1
  <2>3. NumberAt(i, k) \in Nat /\ EndOf(Size, NumberAt(i, k)) = NumberAt(i, k)
    BY Ends
  <2>4. CASE point = "value"
    BY <1>1, <1>7, <2>1, <2>2, <2>3, <2>4 DEF InElement, P!IsWithin, P!IsEntry
  <2>5. CASE point = "returned"
    <3>1. result = NumberAt(i, k)
      BY <2>1, <2>2, <2>3, <2>5 DEF P!IsWithin, P!IsEntry
    <3> QED
      BY <1>7, <2>1, <2>3, <2>5, <3>1, JustReturned DEF InElement
  <2>6. CASE point = "bracket"
    BY <2>1, <2>2, <2>6 DEF P!IsWithin
  <2>7. CASE point \in {"key", "colon"}
    <3>1. point = "key" => current + 1 = NumberAt(i, k) - 2
      BY <2>1, <2>2, <2>7 DEF P!IsWithin
    <3>2. point = "colon" => current = NumberAt(i, k) - 2
      BY <2>1, <2>2, <2>7 DEF P!IsWithin
    <3> QED
      BY <1>1, <1>7, <2>1, <2>3, <2>7, <3>1, <3>2 DEF InElement
  <2> QED
    BY <1>1, <2>4, <2>5, <2>6, <2>7 DEF P!Points
<1> QED
  BY <1>4, <1>5, <1>6, <1>7, NoFourthOpen

\* The tokens of an element, and the one behind it.
LEMMA Around ==
  ASSUME InFormat, NEW i \in 1 .. Size
  PROVE  /\ ElementAt(i) \in Nat /\ ElementAt(i) >= 5 /\ ElementAt(i) + 17 <= ArrayEnd(Size)
         /\ Types[ElementAt(i)] = "LBRACE"
         /\ i = Size => Types[ElementAt(i) + 17] = "RBRACKET" /\ ElementAt(i) + 17 = ArrayEnd(Size)
         /\ i # Size => Types[ElementAt(i) + 17] = "COMMA"
         /\ \A k \in 1 .. 4 :
              /\ NumberAt(i, k) \in Nat /\ NumberAt(i, k) + 1 <= ArrayEnd(Size)
              /\ NumberAt(i, k) >= 3
              /\ Types[NumberAt(i, k) - 2] = "STRING" /\ Types[NumberAt(i, k) - 1] = "COLON"
              /\ Types[NumberAt(i, k)] = "NUMBER"
              /\ k < 4 => Types[NumberAt(i, k) + 1] = "COMMA"
              /\ k = 4 => /\ Types[NumberAt(i, k) + 1] = "RBRACE"
                          /\ NumberAt(i, k) + 1 = ElementAt(i) + 16
<1>1. Size \in Nat
  BY Ends
<1>2. /\ ElementAt(i) \in Nat /\ ElementAt(i) >= 5 /\ ElementAt(i) + 17 <= ArrayEnd(Size)
      /\ i = Size => ElementAt(i) + 17 = ArrayEnd(Size)
      /\ i # Size => i + 1 \in 1 .. Size /\ ElementAt(i + 1) - 1 = ElementAt(i) + 17 /\ i + 1 > 1
      /\ \A k \in 1 .. 4 :
           /\ NumberAt(i, k) \in Nat /\ NumberAt(i, k) + 1 <= ArrayEnd(Size) /\ NumberAt(i, k) >= 3
           /\ k = 4 => NumberAt(i, k) + 1 = ElementAt(i) + 16
  BY <1>1 DEF ElementAt, ArrayEnd, NumberAt
<1>3. /\ Types[ElementAt(i)] = "LBRACE"
      /\ i = Size => Types[ElementAt(i) + 17] = "RBRACKET"
      /\ i # Size => Types[ElementAt(i) + 17] = "COMMA"
  BY <1>2 DEF InFormat, TypesAre
<1>4. ASSUME NEW k \in 1 .. 4
      PROVE  /\ Types[NumberAt(i, k) - 2] = "STRING" /\ Types[NumberAt(i, k) - 1] = "COLON"
             /\ Types[NumberAt(i, k)] = "NUMBER"
             /\ k < 4 => Types[NumberAt(i, k) + 1] = "COMMA"
             /\ k = 4 => Types[NumberAt(i, k) + 1] = "RBRACE"
  BY DEF InFormat, TypesAre
<1> QED
  BY <1>2, <1>3, <1>4

\* Nothing the parser finds in such a file is out of place, and there is always a token.
LEMMA NoError ==
  ASSUME InFormat, Peeked
  PROVE  ~P!Unexpected /\ ~P!OutOfBounds
<1>1. SUFFICES ASSUME P!InCall
               PROVE  P!InBounds /\ Types[current + 1] \in P!Expected
  BY DEF P!Unexpected, P!OutOfBounds
<1>2. point = "returned" => stack # <<>>
  BY <1>1 DEF P!InCall
<1>3. /\ Len(Types) \in Nat /\ Len(stack) \in Nat /\ (stack = <<>> <=> Len(stack) = 0)
      /\ Types[1] = "LBRACE" /\ Types[2] = "STRING" /\ Types[3] = "COLON" /\ Types[4] = "LBRACKET"
      /\ Types[ArrayEnd(Size)] = "RBRACKET" /\ Types[ArrayEnd(Size) + 1] = "RBRACE"
      /\ ArrayEnd(Size) >= 5 /\ ArrayEnd(Size) \in Nat /\ ArrayEnd(Size) < Len(Types)
  <2>1. ArrayEnd(Size) \in Nat /\ ArrayEnd(Size) >= 5
    BY Ends
  <2> QED
    BY <2>1 DEF InFormat, TypesAre, P!SpellingInv, P!Inv, P!TypeOK
<1>4. /\ point = "value" => P!Expected = P!ScalarTypes \cup {"LBRACE", "LBRACKET"}
      /\ point = "bracket" => P!Expected = P!TokenTypes
      /\ point = "key" => P!Expected = {"STRING"}
      /\ point = "colon" => P!Expected = {"COLON"}
      /\ point = "returned" => P!Expected = {"COMMA", P!ClosingOf(P!Inner.type)}
  BY Zenon DEF P!Expected
<1>5. Len(stack) > 0 => P!HasRoom(P!Inner) /\ P!Inner = values[stack[Len(stack)].at]
  BY <1>3 DEF InFormat, P!SpellingInv, P!Inv, P!RoomForTheEntry, P!Inner, P!Top
<1>6. \A p \in 1 .. Len(Types) : Types[p] \in P!TokenTypes
  BY DEF InFormat, P!SpellingInv, P!Inv, P!TypeOK
<1>7. CASE AtEnds
  BY <1>1, <1>2, <1>3, <1>4, <1>7 DEF AtEnds, P!InBounds
<1>8. CASE InDocument
  BY <1>3, <1>4, <1>5, <1>8 DEF InDocument, P!InBounds, P!ClosingOf
<1>9. ASSUME NEW i, InArray(i)
      PROVE  P!InBounds /\ Types[current + 1] \in P!Expected
  <2>1. CASE point = "bracket"
    <3>1. current + 1 \in 1 .. Len(Types) /\ current < Len(Types)
      BY <1>3, <1>9, <2>1 DEF InArray
    <3> QED
      BY <1>4, <1>6, <2>1, <3>1 DEF P!InBounds
  <2>2. CASE point # "bracket"
    <3>1. i \in 1 .. Size
      BY <1>9, <2>2 DEF InArray
    <3>2. CASE point = "value"
      <4>1. current + 1 = ElementAt(i) /\ current < Len(Types)
        <5>1. PICK e \in Nat : e = ElementAt(i) /\ e + 17 <= ArrayEnd(Size)
          BY <3>1, Around
        <5>2. current = e - 1
          BY <1>9, <3>2, <5>1 DEF InArray
        <5> QED
          BY <1>3, <5>1, <5>2
      <4> QED
        BY <1>4, <3>1, <3>2, <4>1, Around DEF P!InBounds
    <3>3. CASE point = "returned"
      <4>1. current + 1 = ElementAt(i) + 17 /\ current < Len(Types)
        <5>1. PICK e \in Nat : e = ElementAt(i) /\ e + 17 <= ArrayEnd(Size)
          BY <3>1, Around
        <5>2. current = e + 16
          BY <1>9, <3>3, <5>1 DEF InArray
        <5> QED
          BY <1>3, <5>1, <5>2
      <4>2. P!HasRoom(P!Inner) /\ P!ClosingOf(P!Inner.type) = "RBRACKET"
        BY <1>3, <1>5, <1>9 DEF InArray, P!ClosingOf
      <4> QED
        BY <1>4, <3>1, <3>3, <4>1, <4>2, Around DEF P!InBounds
    <3> QED
      BY <1>9, <2>2, <3>2, <3>3 DEF InArray
  <2> QED
    BY <2>1, <2>2
<1>10. ASSUME NEW i, NEW k, InElement(i, k)
       PROVE  P!InBounds /\ Types[current + 1] \in P!Expected
  <2>1. i \in 1 .. Size /\ k \in 1 .. 4
    BY <1>10 DEF InElement
  <2>2. current + 1 \in {NumberAt(i, k) - 2, NumberAt(i, k) - 1, NumberAt(i, k), NumberAt(i, k) + 1}
        /\ current < Len(Types)
    <3>1. PICK c \in Nat : c = NumberAt(i, k) /\ c + 1 <= ArrayEnd(Size) /\ c >= 3
      BY <2>1, Around
    <3>2. current \in {c - 3, c - 2, c - 1, c}
      BY <1>10, <3>1 DEF InElement
    <3> QED
      BY <1>3, <3>1, <3>2
  <2>3. CASE point = "returned"
    <3>1. P!HasRoom(P!Inner) /\ P!ClosingOf(P!Inner.type) = "RBRACE"
      BY <1>3, <1>5, <1>10 DEF InElement, P!ClosingOf
    <3>2. current + 1 = NumberAt(i, k) + 1
      BY <1>10, <2>3 DEF InElement
    <3>3. Types[NumberAt(i, k) + 1] \in {"COMMA", "RBRACE"}
      <4>1. k = 4 \/ k < 4
        BY <2>1
      <4> QED
        BY <2>1, <4>1, Around
    <3> QED
      BY <1>4, <2>2, <2>3, <3>1, <3>2, <3>3 DEF P!InBounds
  <2>4. CASE point = "value"
    <3>1. current + 1 = NumberAt(i, k)
      BY <1>10, <2>1, <2>4, Around DEF InElement
    <3> QED
      BY <1>4, <2>1, <2>2, <2>4, <3>1, Around DEF P!InBounds, P!ScalarTypes
  <2>5. CASE point = "key"
    <3>1. current + 1 = NumberAt(i, k) - 2
      BY <1>10, <2>1, <2>5, Around DEF InElement
    <3> QED
      <4>1. Types[NumberAt(i, k) - 2] = "STRING"
        BY <2>1, Around
      <4>2. Types[current + 1] = "STRING"
        BY <3>1, <4>1
      <4> QED
        BY <1>4, <2>2, <2>5, <4>2 DEF P!InBounds
  <2>6. CASE point = "colon"
    <3>1. current + 1 = NumberAt(i, k) - 1
      BY <1>10, <2>1, <2>6, Around DEF InElement
    <3> QED
      <4>1. Types[NumberAt(i, k) - 1] = "COLON"
        BY <2>1, Around
      <4>2. Types[current + 1] = "COLON"
        BY <3>1, <4>1
      <4> QED
        BY <1>4, <2>2, <2>6, <4>2 DEF P!InBounds
  <2> QED
    BY <1>10, <2>3, <2>4, <2>5, <2>6 DEF InElement
<1> QED
  BY <1>7, <1>8, <1>9, <1>10, Whereabouts

-----------------------------------------------------------------------------
(***************************************************************************)
(* What is returned ends where EndOf has it, as the spelling wants it      *)
(* (Parser_spelling): every step of the parser remembers that.             *)
(***************************************************************************)

\* A step of the parser in such a file, in which values end where it has been said.
LEMMA Remembered ==
  ASSUME UNCHANGED lexed,
         \/ result' = 0 /\ Returned' = Returned
         \/ result' # 0 /\ Returned' = Returned \cup {result'} /\ current' = EndOf(Size, result')
  PROVE  P!Remember
<1>0. Size' = Size
  BY DEF Size, Types
<1>1. CASE result' = 0 /\ Returned' = Returned
  BY <1>0, <1>1 DEF P!Remember
<1>2. CASE result' # 0 /\ Returned' = Returned \cup {result'} /\ current' = EndOf(Size, result')
  BY <1>0, <1>2 DEF P!Remember
<1> QED
  BY <1>1, <1>2

\* Opening a container returns nothing.
LEMMA OpenRemembers ==
  ASSUME InFormat, UNCHANGED <<lexed, result>>, point # "returned", NEW type, P!Open(type)
  PROVE  P!Remember
<1>1. /\ current + 1 \notin DOMAIN values /\ DOMAIN values' = DOMAIN values \cup {current + 1}
      /\ stack \in Seq(P!FrameTypes)
  BY DEF InFormat, P!SpellingInv, P!Inv, P!TypeOK, P!Open, P!With
<1>2. Len(stack) \in Nat /\ stack' = Append(stack, [at |-> current + 1, key |-> key])
  BY <1>1 DEF P!Open
<1>3. /\ Len(stack') = Len(stack) + 1 /\ stack'[Len(stack) + 1].at = current + 1
      /\ \A d \in 1 .. Len(stack) : stack'[d] = stack[d]
  BY <1>1, <1>2
<1>4. Returned' = Returned
  BY <1>1, <1>2, <1>3 DEF Returned
<1>5. result' = 0
  BY DEF InFormat, P!SpellingInv
<1> QED
  BY <1>4, <1>5, Remembered

\* A container that ends where it should is returned with its end.
LEMMA FinishRemembers ==
  ASSUME InFormat, UNCHANGED lexed, P!Finish, stack # <<>>, DOMAIN values' = DOMAIN values,
         current + 1 = EndOf(Size, P!Top.at)
  PROVE  P!Remember
<1>1. /\ stack \in Seq(P!FrameTypes) /\ Len(stack) \in Nat /\ Len(stack) # 0
      /\ \A d \in 1 .. Len(stack) : stack[d].at \in DOMAIN values
      /\ DOMAIN values \subseteq Nat \ {0}
  BY P!Frames, Capacities DEF InFormat, P!SpellingInv, P!Inv, P!TypeOK
<1>2. /\ stack' = SubSeq(stack, 1, Len(stack) - 1) /\ result' = stack[Len(stack)].at
      /\ current' = current + 1
  BY DEF P!Finish, P!Pop, P!Top, P!Advance
<1>3. PICK n \in Nat : n = Len(stack) - 1
  <2>1. Len(stack) - 1 \in Nat
    BY <1>1
  <2> QED
    BY <2>1
<1>4. Len(stack') = n /\ \A d \in 1 .. n : stack'[d] = stack[d]
  BY <1>1, <1>2, <1>3, P!Popped, Capacities
<1>5. \A d \in 1 .. n : stack[d].at # stack[Len(stack)].at
  BY <1>1, <1>3, P!NotTheSame, Capacities DEF InFormat, P!SpellingInv
<1>6. \A d \in 1 .. Len(stack) : d \in 1 .. n \/ d = Len(stack)
  BY <1>1, <1>3
<1>7. n \in Nat /\ \A d \in 1 .. n : d \in 1 .. Len(stack)
  BY <1>1, <1>3
<1>8. Returned' = Returned \cup {result'}
  <2> DEFINE Rest == {stack[d].at : d \in 1 .. n}
             c == stack[Len(stack)].at
  <2>1. {stack[d].at : d \in 1 .. Len(stack)} = Rest \cup {c}
    BY <1>1, <1>6, <1>7
  <2>2. {stack'[d].at : d \in 1 .. Len(stack')} = Rest
    BY <1>4
  <2>3. c \notin Rest /\ c \in DOMAIN values
    BY <1>1, <1>5
  <2> HIDE DEF Rest, c
  <2>4. Returned' = DOMAIN values \ Rest /\ Returned = DOMAIN values \ (Rest \cup {c})
    BY <2>1, <2>2 DEF Returned
  <2>5. result' = c
    BY <1>2 DEF c
  <2> QED
    BY <2>3, <2>4, <2>5
<1>9. result' # 0
  BY <1>1, <1>2
<1> QED
  BY <1>2, <1>8, <1>9, Remembered DEF P!Top

\* A number, the only scalar of the format, ends where it begins.
LEMMA ScalarRemembers ==
  ASSUME InFormat, Peeked, UNCHANGED lexed, P!ReadScalar
  PROVE  P!Remember
<1>1. /\ current + 1 \notin DOMAIN values /\ current \in Nat /\ Types[current + 1] \in P!ScalarTypes
      /\ \A d \in 1 .. Len(stack) : stack[d].at \in DOMAIN values
  BY P!Frames, Capacities DEF P!ReadScalar, P!Match, InFormat, P!SpellingInv, P!Inv, P!TypeOK
<1>2. /\ DOMAIN values' = DOMAIN values \cup {current + 1} /\ stack' = stack
      /\ result' = current + 1 /\ current' = current + 1 /\ point = "value"
  BY DEF P!ReadScalar, P!With, P!Advance, P!At
<1>3. Returned' = Returned \cup {current + 1}
  BY <1>1, <1>2 DEF Returned
<1>4. ASSUME NEW i, NEW k, InElement(i, k)
      PROVE  current + 1 = EndOf(Size, current + 1)
  <2>1. i \in 1 .. Size /\ k \in 1 .. 4 /\ current = NumberAt(i, k) - 1
    BY <1>2, <1>4 DEF InElement
  <2>2. NumberAt(i, k) \in Nat /\ EndOf(Size, NumberAt(i, k)) = NumberAt(i, k)
    BY <2>1, Ends
  <2>3. current + 1 = NumberAt(i, k)
    BY <2>1, <2>2
  <2> QED
    BY <2>2, <2>3
<1>5. ASSUME NEW i, InArray(i) PROVE FALSE
  <2>1. i \in 1 .. Size /\ current = ElementAt(i) - 1
    BY <1>2, <1>5 DEF InArray
  <2>2. current + 1 = ElementAt(i) /\ Types[ElementAt(i)] = "LBRACE"
    BY <1>1, <2>1, Around
  <2> QED
    BY <1>1, <2>2 DEF P!ScalarTypes
<1>6. ~AtEnds /\ ~InDocument
  BY <1>1, <1>2 DEF AtEnds, InDocument, InFormat, TypesAre, P!ScalarTypes
<1>7. current + 1 = EndOf(Size, current + 1)
  BY <1>4, <1>5, <1>6, Whereabouts
<1> QED
  BY <1>1, <1>2, <1>3, <1>7, Remembered

\* The mark that closes a container is where the container should end.
LEMMA CloseRemembers ==
  ASSUME InFormat, Peeked, UNCHANGED lexed, P!Close
  PROVE  P!Remember
<1>1. /\ point = "returned" /\ stack # <<>> /\ P!Finish /\ Types[current + 1] = P!ClosingOf(P!Inner.type)
      /\ values' = P!With(P!Top.at, P!Stored) /\ current \in Nat /\ Len(stack) \in Nat
      /\ P!Top = stack[Len(stack)] /\ P!Inner = values[P!Top.at]
  BY DEF P!Close, P!InContainer, P!At, P!Match, P!Top, P!Inner, InFormat, P!SpellingInv, P!Inv, P!TypeOK
<1>2. DOMAIN values' = DOMAIN values
  <2>1. P!Top.at \in DOMAIN values
    BY <1>1, P!Innermost, Capacities DEF InFormat
  <2> QED
    BY <1>1, <2>1 DEF P!With
<1>3. current + 1 = EndOf(Size, P!Top.at)
  <2>1. CASE InDocument
    <3>1. P!Top.at = 1 /\ current = ArrayEnd(Size)
      BY <1>1, <2>1 DEF InDocument
    <3> QED
      BY <3>1, Ends
  <2>2. ASSUME NEW i, InArray(i)
        PROVE  current + 1 = EndOf(Size, P!Top.at)
    <3>1. /\ P!Top.at = 4 /\ i \in 1 .. Size /\ current = ElementAt(i) + 16
          /\ Types[current + 1] = "RBRACKET"
      BY <1>1, <2>2 DEF InArray, P!ClosingOf
    <3>2. ElementAt(i) \in Nat
      BY <3>1, Around
    <3>3. current + 1 = ElementAt(i) + 17
      BY <3>1, <3>2
    <3>4. i = Size
      BY <3>1, <3>3, Around
    <3> QED
      BY <3>1, <3>3, <3>4, Around, Ends
  <2>3. ASSUME NEW i, NEW k, InElement(i, k)
        PROVE  current + 1 = EndOf(Size, P!Top.at)
    <3>1. /\ P!Top.at = ElementAt(i) /\ i \in 1 .. Size /\ k \in 1 .. 4 /\ current = NumberAt(i, k)
          /\ Types[current + 1] = "RBRACE"
      BY <1>1, <2>3 DEF InElement, P!ClosingOf
    <3>2. k = 4
      <4>1. k < 4 => Types[NumberAt(i, k) + 1] = "COMMA"
        BY <3>1, Around
      <4> QED
        BY <3>1, <4>1
    <3>3. NumberAt(i, k) + 1 = ElementAt(i) + 16
      BY <3>1, <3>2, Around
    <3> QED
      BY <3>1, <3>3, Ends
  <2> QED
    BY <1>1, <2>1, <2>2, <2>3, Whereabouts DEF AtEnds
<1> QED
  BY <1>1, <1>2, <1>3, FinishRemembers

\* So is that of the array, when it is empty.
LEMMA EmptyRemembers ==
  ASSUME InFormat, Peeked, UNCHANGED lexed, P!EmptyArray
  PROVE  P!Remember
<1>1. /\ point = "bracket" /\ stack # <<>> /\ P!Finish /\ Types[current + 1] = "RBRACKET"
      /\ values' = values /\ P!Top = stack[Len(stack)]
  BY DEF P!EmptyArray, P!At, P!Match, P!Top, InFormat, P!SpellingInv, P!Inv, P!TypeOK
<1>2. PICK i : InArray(i)
  BY <1>1, Whereabouts DEF AtEnds, InDocument, InElement
<1>3. P!Top.at = 4 /\ current = 4
  BY <1>1, <1>2 DEF InArray
<1>4. Size = 0
  <2> SUFFICES ASSUME Size # 0 PROVE FALSE
    OBVIOUS
  <2>1. 1 \in 1 .. Size
    BY Ends
  <2>2. Types[5] = "LBRACE"
    BY <2>1, Around, Ends
  <2> QED
    BY <1>1, <1>3, <2>2
<1>5. current + 1 = EndOf(Size, P!Top.at)
  BY <1>3, <1>4, Ends
<1> QED
  BY <1>1, <1>5, FinishRemembers

LEMMA Remembers ==
  ASSUME InFormat, Peeked, UNCHANGED lexed, P!Next
  PROVE  P!Remember
<1>1. CASE P!OpenObject \/ P!OpenArray
  BY <1>1, OpenRemembers DEF P!OpenObject, P!OpenArray, P!At
<1>2. CASE P!FirstElement \/ P!ReadKey \/ P!ReadColon
  <2>1. UNCHANGED <<values, stack, result>> /\ point # "returned"
    BY <1>2 DEF P!FirstElement, P!ReadKey, P!ReadColon, P!At
  <2>2. result' = 0
    BY <2>1 DEF InFormat, P!SpellingInv
  <2> QED
    BY <2>1, <2>2, Remembered DEF Returned
<1>3. CASE P!Comma
  <2>1. stack # <<>> /\ stack' = stack /\ result' = 0 /\ values' = P!With(P!Top.at, P!Grown(P!Stored))
    BY <1>3 DEF P!Comma, P!InContainer
  <2>2. P!Top.at \in DOMAIN values
    BY <2>1, P!Innermost, Capacities DEF InFormat
  <2>3. DOMAIN values' = DOMAIN values
    BY <2>1, <2>2 DEF P!With
  <2> QED
    BY <2>1, <2>3, Remembered DEF Returned
<1>4. CASE P!Accept \/ P!Unexpected \/ P!OutOfBounds
  <2>1. UNCHANGED <<values, stack, result, current, point>>
    BY <1>4 DEF P!Accept, P!Unexpected, P!OutOfBounds
  <2>2. CASE point = "returned"
    <3>1. result \in Returned /\ current = EndOf(Size, result)
      BY <2>2, JustReturned
    <3>2. result # 0
      BY <2>2 DEF InFormat, P!SpellingInv, P!Inv, P!TypeOK
    <3> QED
      BY <2>1, <3>1, <3>2, Remembered DEF Returned
  <2>3. CASE point # "returned"
    <3>1. result = 0
      BY <2>3 DEF InFormat, P!SpellingInv
    <3> QED
      BY <2>1, <3>1, Remembered DEF Returned
  <2> QED
    BY <2>2, <2>3
<1> QED
  BY <1>1, <1>2, <1>3, <1>4, ScalarRemembers, CloseRemembers, EmptyRemembers DEF P!Next

LEMMA PeekedKept ==
  ASSUME InFormat, Peeked, UNCHANGED lexed, P!Next
  PROVE  Peeked'
<1>1. Types' = Types /\ stack \in Seq(P!FrameTypes)
  BY DEF Types, InFormat, P!SpellingInv, P!Inv, P!TypeOK
<1>2. CASE point' # "value"
  BY <1>2 DEF Peeked
<1>3. CASE P!FirstElement
  <2>1. ~P!Match("RBRACKET") /\ UNCHANGED <<values, stack, current>>
    BY <1>3 DEF P!FirstElement
  <2> QED
    BY <1>1, <2>1 DEF Peeked, P!Match
<1>4. CASE P!ReadColon
  <2>1. point = "colon" /\ UNCHANGED <<values, stack>> /\ stack # <<>>
    BY <1>4 DEF P!ReadColon, P!At, InFormat, P!SpellingInv, P!Inv, P!TypeOK
  <2>2. P!Inner.type = "object"
    BY <2>1 DEF InFormat, P!SpellingInv, P!TreeSpellsTheTokens, P!IsWithin, P!Inner
  <2>3. P!Inner'.type = "object"
    BY <2>1, <2>2 DEF P!Inner, P!Top
  <2> QED
    BY <2>3 DEF Peeked
<1>5. CASE P!Comma
  <2>1. stack # <<>> /\ stack' = stack /\ values' = P!With(P!Top.at, P!Grown(P!Stored))
    BY <1>5 DEF P!Comma, P!InContainer
  <2>2. P!Top.at \in DOMAIN values
    BY <2>1, P!Innermost, Capacities DEF InFormat
  <2>3. values'[P!Top.at] = P!Grown(P!Stored)
    BY <2>1, <2>2 DEF P!With
  <2>4. P!Inner' = P!Grown(P!Stored)
    BY <2>1, <2>3 DEF P!Inner, P!Top
  <2>5. P!Inner \in P!ValueTypes
    BY <2>2 DEF P!Inner, InFormat, P!SpellingInv, P!Inv, P!TypeOK
  <2>6. P!Grown(P!Stored).entries = Append(P!Inner.entries, [key |-> key, value |-> result])
    BY <2>5 DEF P!Grown, P!Stored, P!ValueTypes
  <2>7. P!Grown(P!Stored).entries # <<>>
    BY <2>5, <2>6 DEF P!ValueTypes
  <2> QED
    BY <2>4, <2>7 DEF Peeked
<1>6. CASE P!Accept \/ P!Unexpected \/ P!OutOfBounds
  <2>1. UNCHANGED <<values, stack, current, point>>
    BY <1>6 DEF P!Accept, P!Unexpected, P!OutOfBounds
  <2> QED
    BY <1>1, <2>1 DEF Peeked, P!Match, P!Inner, P!Top
<1> QED
  BY <1>2, <1>3, <1>4, <1>5, <1>6 DEF P!Next, P!OpenObject, P!OpenArray, P!ReadScalar, P!EmptyArray,
    P!Finish, P!ReadKey, P!Close

\* The parser keeps to the format.
LEMMA InFormatKept ==
  ASSUME InFormat, Peeked, UNCHANGED lexed, P!Next
  PROVE  InFormat'
<1>1. P!SpellingNext
  BY Remembers DEF P!SpellingNext
<1>2. P!SpellingInv'
  BY <1>1, P!SpellingInductive, Capacities DEF InFormat
<1>3. Types' = Types /\ Size' = Size
  BY DEF Types, Size
<1>4. TypesAre(Size)'
  BY <1>3 DEF InFormat, TypesAre
<1> QED
  BY <1>2, <1>4 DEF InFormat

\* The parser does not stop before it has read the document.
LEMMA ParsedToTheEnd ==
  ASSUME InFormat, Peeked, P!Next
  PROVE  /\ parsing = "parsing" /\ parsing' \in {"parsing", "accepted"}
         /\ parsing' = "accepted" => point' = "returned" /\ stack' = <<>>
<1>1. CASE P!Accept
  BY <1>1 DEF P!Accept, P!At
<1>2. CASE ~P!Accept
  BY <1>2, NoError DEF P!Next, P!OpenObject, P!OpenArray, P!ReadScalar, P!EmptyArray, P!FirstElement,
    P!ReadKey, P!ReadColon, P!Comma, P!Close, P!Finish, P!InContainer, P!At
<1> QED
  BY <1>1, <1>2

\* Before it begins.
LEMMA NothingSpelled == L!Inv /\ P!Begin(Types) => P!SpellingInv /\ Peeked
<1> SUFFICES ASSUME L!Inv, P!Begin(Types) PROVE P!SpellingInv /\ Peeked
  OBVIOUS
<1>1. P!Inv
  BY AtTheBeginning
<1>2. /\ current = 0 /\ stack = <<>> /\ key = 0 /\ result = 0 /\ point = "value"
      /\ DOMAIN values = {}
  BY DEF P!Begin
<1>3. Returned = {} /\ P!OpenContainers = {}
  BY <1>2 DEF Returned, P!OpenContainers
<1>4. P!LastType
  BY <1>3 DEF P!LastType
<1>5. P!TreeSpellsTheTokens
  BY <1>2, <1>3 DEF P!TreeSpellsTheTokens
<1> QED
  BY <1>1, <1>2, <1>4, <1>5 DEF P!SpellingInv, Peeked

-----------------------------------------------------------------------------
(***************************************************************************)
(* What is read of an accepted document.                                   *)
(***************************************************************************)

\* A value that has been returned: a container is complete, and a number is a number.
LEMMA ReturnedIs ==
  ASSUME InFormat, NEW at \in Returned
  PROVE  /\ at \in DOMAIN values
         /\ \/ values[at].type = Types[at] /\ Types[at] \in P!ScalarTypes
            \/ /\ P!HoldsItsEntries(at)
               /\ EndOf(Size, at) =
                    P!NextEntryAt(at) - (IF values[at].entries = <<>> THEN 0 ELSE 1)
<1>1. P!IsSpelled(at)
  BY DEF InFormat, P!SpellingInv, P!TreeSpellsTheTokens
<1>2. at \in DOMAIN values
  BY DEF Returned
<1> QED
  BY <1>1, <1>2 DEF P!IsSpelled

LEMMA EntriesOrNone ==
  ASSUME InFormat, NEW at \in DOMAIN values
  PROVE  values[at].entries = <<>> <=> Len(values[at].entries) = 0
<1>1. values[at] \in P!ValueTypes
  BY DEF InFormat, P!SpellingInv, P!Inv, P!TypeOK
<1>2. values[at].entries \in Seq(P!Entries)
  BY <1>1 DEF P!ValueTypes
<1> QED
  BY <1>2

\* The document that has been accepted: the elements of the array are those of the file.
LEMMA DocumentRead ==
  ASSUME InFormat, point = "returned", stack = <<>>
  PROVE  /\ HasPairs /\ Pairs = 4 /\ Len(Items) = Size /\ JSON.type = "object"
         /\ values[4].type = "array" /\ 4 \in DOMAIN values /\ P!HoldsItsEntries(4)
<1>1. result = 1
  BY DEF InFormat, P!SpellingInv, P!TreeSpellsTheTokens
<1>2. 1 \in Returned
  BY <1>1, JustReturned
<1>3. ArrayEnd(Size) \in Nat /\ ArrayEnd(Size) >= 5 /\ Size \in Nat
  BY Ends
<1>4. /\ 1 \in DOMAIN values /\ P!HoldsItsEntries(1)
      /\ ArrayEnd(Size) + 1 = P!NextEntryAt(1) - (IF values[1].entries = <<>> THEN 0 ELSE 1)
  BY <1>2, ReturnedIs, Ends DEF InFormat, TypesAre, P!ScalarTypes
<1>5. Len(values[1].entries) # 0
  <2> SUFFICES ASSUME Len(values[1].entries) = 0 PROVE FALSE
    OBVIOUS
  <2>1. P!NextEntryAt(1) = 2 /\ values[1].entries = <<>>
    BY <1>4, EntriesOrNone DEF P!NextEntryAt, P!EntryAt
  <2> QED
    BY <1>3, <1>4, <2>1
<1>6. values[1].type = "object" /\ values[1].entries[1].value = 4 /\ 4 \in Returned
  BY <1>4, <1>5, DocumentHeld
<1>7. /\ 4 \in DOMAIN values /\ P!HoldsItsEntries(4)
      /\ ArrayEnd(Size) = P!NextEntryAt(4) - (IF values[4].entries = <<>> THEN 0 ELSE 1)
  BY <1>6, ReturnedIs, Ends DEF InFormat, TypesAre, P!ScalarTypes
<1>8. PICK m \in 0 .. Size : /\ m = Len(values[4].entries) /\ values[4].type = "array"
                             /\ P!NextEntryAt(4) = ElementAt(m + 1)
  BY <1>7, ArrayHeld
<1>9. m = Size
  <2>1. ElementAt(m + 1) = 18 * m + 5
    BY <1>8 DEF ElementAt
  <2>2. P!NextEntryAt(4) = 18 * m + 5
    BY <1>8, <2>1
  <2>3. values[4].entries = <<>> <=> m = 0
    BY <1>7, <1>8, EntriesOrNone
  <2>4. CASE m = 0
    <3>1. ArrayEnd(Size) = 5
      BY <1>7, <2>2, <2>3, <2>4
    <3> QED
      BY <1>3, <2>4, <3>1 DEF ArrayEnd
  <2>5. CASE m # 0
    <3>1. ArrayEnd(Size) = 18 * m + 4
      BY <1>7, <2>2, <2>3, <2>5
    <3> QED
      BY <1>3, <2>5, <3>1 DEF ArrayEnd
  <2> QED
    BY <2>4, <2>5
<1> QED
  BY <1>1, <1>6, <1>7, <1>8, <1>9 DEF HasPairs, JSON, Pairs, EntryValue, Items

LEMMA WholeSeq ==
  ASSUME NEW S, NEW s \in Seq(S)
  PROVE  SubSeq(s, 1, Len(s)) = s
OBVIOUS

\* A text with one point is all of it a number.
LEMMA StrtodTakesAll ==
  ASSUME NEW text \in Seq(L!Char), OnePoint(text, Len(text))
  PROVE  Strtod(text) = text
<1> DEFINE n == Len(text)
<1>1. n \in Nat
  OBVIOUS
<1>2. {i \in 1 .. n : OnePoint(text, i)} = 1 .. n
  <2>1. ASSUME NEW i \in 1 .. n PROVE OnePoint(text, i)
    BY <1>1, <2>1 DEF OnePoint
  <2> QED
    BY <2>1
<1>3. Cardinality(1 .. n) = n
  BY <1>1, FS_Interval
<1>4. Strtod(text) = SubSeq(text, 1, n)
  BY <1>2, <1>3 DEF Strtod
<1> QED
  BY <1>4, WholeSeq

\* And its elements are those that have been said to be in it.
LEMMA ElementRead ==
  ASSUME InFormat, point = "returned", stack = <<>>, NEW i \in 1 .. Size,
         NEW element \in Element, \A k \in 1 .. 4 : lexed[NumberAt(i, k)].text = element[k]
  PROVE  LET item == values[EntryValue(values[Pairs], i)] IN
         /\ item.type = "object" /\ Len(item.entries) = 4
         /\ Coordinates(item) = element
<1>1. /\ Pairs = 4 /\ values[4].type = "array" /\ Len(values[4].entries) = Size
      /\ 4 \in DOMAIN values /\ P!HoldsItsEntries(4)
  BY DocumentRead DEF Items
<1>2. EntryValue(values[Pairs], i) = ElementAt(i) /\ ElementAt(i) \in Returned
  BY <1>1, ArrayHeld DEF EntryValue
<1>3. PICK at \in Nat : at = ElementAt(i)
  BY Ends
<1> DEFINE item == values[at]
<1>4. /\ at \in DOMAIN values /\ P!HoldsItsEntries(at)
      /\ at + 16 = P!NextEntryAt(at) - (IF item.entries = <<>> THEN 0 ELSE 1)
  <2>1. Types[at] = "LBRACE" /\ EndOf(Size, at) = at + 16 /\ at \in Returned
    BY <1>2, <1>3, Around, Ends
  <2> QED
    BY <2>1, ReturnedIs DEF P!ScalarTypes
<1>5. PICK m \in 0 .. 4 : /\ m = Len(item.entries) /\ item.type = "object"
                          /\ P!NextEntryAt(at) = at + 4 * m + 1
                          /\ \A k \in 1 .. m : /\ item.entries[k].value = NumberAt(i, k)
                                               /\ NumberAt(i, k) \in Returned
  BY <1>3, <1>4, ElementHeld
<1>6. m = 4
  <2>1. at + 16 = at + 4 * m + 1 - (IF m = 0 THEN 0 ELSE 1)
    BY <1>4, <1>5, EntriesOrNone
  <2> QED
    BY <1>3, <2>1
<1>7. ASSUME NEW k \in 1 .. 4
      PROVE  Number(EntryValue(item, k)) = element[k]
  <2>1. EntryValue(item, k) = NumberAt(i, k) /\ NumberAt(i, k) \in Returned
    BY <1>5, <1>6 DEF EntryValue
  <2>2. Types[NumberAt(i, k)] = "NUMBER"
    BY Around
  <2>3. values[NumberAt(i, k)].type = "NUMBER"
    BY <2>1, <2>2, ReturnedIs, Opening
  <2>4. element[k] \in Seq(L!Char) /\ OnePoint(element[k], Len(element[k]))
    BY DEF Element
  <2>5. Strtod(element[k]) = element[k]
    BY <2>4, StrtodTakesAll
  <2> QED
    BY <2>1, <2>3, <2>5 DEF Number
<1>8. Coordinates(item) = element
  <2>1. element = [k \in 1 .. 4 |-> element[k]]
    BY DEF Element
  <2> QED
    BY <1>7, <2>1 DEF Coordinates
<1> QED
  BY <1>1, <1>2, <1>3, <1>5, <1>6, <1>8

-----------------------------------------------------------------------------
(***************************************************************************)
(* The program.                                                            *)
(***************************************************************************)

\* What holds of the parser in a file in the format, with what is read of the file.
ReadingInv ==
  /\ P!SpellingInv /\ Peeked
  /\ parsing \in {"parsing", "accepted"}
  /\ parsing = "accepted" => point = "returned" /\ stack = <<>>
  /\ phase \in {"parsing", "collecting", "summing", "summed", "exited", "undefined"} =>
       lexing = "done"
  /\ phase \in {"collecting", "summing", "summed"} => parsing = "accepted"

\* What is collected is the elements so far, and stays within the room, if that is
\* what the file needs.
CollectingInv(elements) ==
  /\ pairs \in Seq(Element) /\ Len(pairs) <= Len(elements)
  /\ \A k \in 1 .. Len(pairs) : pairs[k] = elements[k]
  /\ phase \in {"opening", "read", "lexing", "parsing"} => pairs = <<>>
  /\ phase \in {"summing", "summed"} => Len(pairs) = Len(elements)
  /\ phase \in {"lexing", "parsing", "collecting"} => room = MaxPairCount * PairSize
  /\ phase # "exited"
  /\ phase = "undefined" => input < MinimumJSONPairEncoding * Len(elements)

FormatInv(lexemes, elements) ==
  /\ DocumentInv /\ L!ReadAs(lexemes) /\ input \in Nat
  /\ InFile(lexemes, elements) => ReadingInv /\ CollectingInv(elements)

\* Once the tokenizer is done the tokens are those of the format.
LEMMA OnceRead ==
  ASSUME NEW lexemes, NEW elements, FormatInv(lexemes, elements), InFile(lexemes, elements),
         lexing = "done"
  PROVE  /\ InFormat /\ Size = Len(elements)
         /\ \A i \in 1 .. Len(elements), k \in 1 .. 4 :
              lexed[NumberAt(i, k)].text = elements[i][k]
BY FormatTypes DEF FormatInv, DocumentInv, TokensInv, L!KeywordInv, ReadingInv, InFormat

\* ParseHaversinePairs finds the array, and nothing else.
LEMMA ArrayFound ==
  ASSUME NEW lexemes, NEW elements, FormatInv(lexemes, elements), InFile(lexemes, elements),
         phase \in {"parsing", "collecting"}, parsing = "accepted"
  PROVE  HasPairs /\ ~NoPairs /\ ~Misread /\ Len(Items) = Len(elements)
<1>1. lexing = "done" /\ point = "returned" /\ stack = <<>>
  BY DEF FormatInv, ReadingInv
<1>2. HasPairs /\ Len(Items) = Len(elements)
  BY <1>1, OnceRead, DocumentRead
<1>3. ~MayBeNULL(Pairs)
  BY <1>2 DEF HasPairs, MayBeNULL
<1> QED
  BY <1>2, <1>3 DEF NoPairs, Misread

\* The next element is there, and is the one of the file.
LEMMA ElementFound ==
  ASSUME NEW lexemes, NEW elements, FormatInv(lexemes, elements), InFile(lexemes, elements),
         phase = "collecting", Len(pairs) < Len(Items)
  PROVE  /\ Len(pairs) + 1 \in 1 .. Len(elements)
         /\ NextItem.type = "object" /\ Len(NextItem.entries) = 4
         /\ Coordinates(NextItem) = elements[Len(pairs) + 1]
         /\ elements[Len(pairs) + 1] \in Element
<1>1. lexing = "done" /\ point = "returned" /\ stack = <<>> /\ parsing = "accepted"
  BY DEF FormatInv, ReadingInv
<1>2. Len(Items) = Len(elements) /\ elements \in Seq(Element) /\ Size = Len(elements)
  BY <1>1, ArrayFound, OnceRead DEF InFile
<1>3. Len(pairs) + 1 \in 1 .. Len(elements)
  <2>1. Len(pairs) \in Nat
    BY DEF FormatInv, CollectingInv
  <2> QED
    BY <1>2, <2>1
<1>4. elements[Len(pairs) + 1] \in Element
  BY <1>2, <1>3
<1> QED
  BY <1>1, <1>2, <1>3, <1>4, OnceRead, ElementRead DEF NextItem

\* A pair that has no room means that the file was too short for the pairs in it.
LEMMA TooSmall ==
  ASSUME NEW bytes \in Nat, NEW least \in Nat \ {0}, NEW have \in Nat, NEW need \in Nat,
         have < need, ~((have + 1) * PairSize <= (bytes \div least) * PairSize)
  PROVE  bytes < least * need
<1>1. PICK fit \in Nat : fit = bytes \div least
  OBVIOUS
<1>2. fit < have + 1
  BY <1>1 DEF PairSize
<1>3. fit + 1 <= need
  BY <1>1, <1>2
<1>4. bytes < least * (fit + 1)
  BY <1>1
<1>5. least * (fit + 1) <= least * need
  BY <1>1, <1>3
<1>6. least * (fit + 1) \in Nat /\ least * need \in Nat
  BY <1>1
<1> QED
  BY <1>4, <1>5, <1>6

\* Every step of the program keeps to the format, whoever takes it.
LEMMA ReadingKept ==
  ASSUME NEW lexemes, NEW elements, FormatInv(lexemes, elements), InFile(lexemes, elements),
         DocumentInv', [Next]_vars
  PROVE  ReadingInv'
<1> USE DEF FormatInv
<1>1. CASE Lex
  <2>1. P!Begin(Types)' /\ phase' = "lexing"
    BY <1>1 DEF Lex, DocumentInv, ParserInv, Idle, P!Begin, parserVars, mainVars
  <2>2. L!Inv'
    BY DEF DocumentInv, TokensInv, L!KeywordInv
  <2>3. (P!SpellingInv /\ Peeked)'
    BY <2>1, <2>2, NothingSpelled, PTL
  <2>4. parsing' = "parsing"
    BY <2>1 DEF P!Begin
  <2> QED
    BY <2>1, <2>3, <2>4 DEF ReadingInv
<1>2. CASE Parse
  <2>1. P!Next /\ phase = "parsing" /\ phase' = "parsing" /\ UNCHANGED lexerVars
    BY <1>2 DEF Parse, mainVars
  <2>2. InFormat /\ Peeked
    BY <2>1, OnceRead DEF ReadingInv
  <2>3. InFormat' /\ Peeked'
    BY <2>1, <2>2, InFormatKept, PeekedKept DEF lexerVars
  <2> QED
    BY <2>1, <2>2, <2>3, ParsedToTheEnd DEF ReadingInv, InFormat, lexerVars
<1>3. CASE UNCHANGED <<lexerVars, parserVars>>
  <2>1. UNCHANGED <<P!vars, [at \in Returned |-> EndOf(Size, at)]>>
    <3>1. UNCHANGED <<P!vars, Returned>>
      BY <1>3 DEF lexerVars, parserVars, P!vars, Types, Returned
    <3>2. Size' = Size
      BY <3>1 DEF Size, P!vars
    <3> QED
      BY <3>1, <3>2 DEF EndOf
  <2>2. P!SpellingInv'
    BY <2>1, P!SpellingInductive, Capacities DEF ReadingInv
  <2>3. Peeked'
    BY <1>3, <2>1 DEF ReadingInv, Peeked, P!Match, P!Inner, P!Top, lexerVars, parserVars, P!vars
  <2>4. /\ parsing' = parsing /\ point' = point /\ stack' = stack /\ lexing' = lexing
    BY <1>3 DEF lexerVars, parserVars
  <2>5. /\ phase' \in {"parsing", "collecting", "summing", "summed", "exited", "undefined"} =>
             lexing = "done"
        /\ phase' \in {"collecting", "summing", "summed"} => parsing = "accepted"
    BY <1>3 DEF ReadingInv, Next, vars, mainVars, ReadInput, NoInput, TakeInput, Lex, Lexed, Parse,
      ParserStops, Parsed, TakePairs, NoPairs, Misread, CollectPair, CollectWrongly, Collected, Sum,
      SumAndValidate
  <2> QED
    BY <2>2, <2>3, <2>4, <2>5 DEF ReadingInv
<1>4. Lex \/ Parse \/ UNCHANGED <<lexerVars, parserVars>>
  BY DEF Next, vars, ReadInput, NoInput, TakeInput, Lexed, ParserStops, TakePairs, NoPairs, Misread,
    CollectPair, CollectWrongly, Collected, Sum, SumAndValidate
<1> QED
  BY <1>1, <1>2, <1>3, <1>4

\* And to the elements.
LEMMA CollectingKept ==
  ASSUME NEW lexemes, NEW elements, FormatInv(lexemes, elements), InFile(lexemes, elements),
         [Next]_vars
  PROVE  CollectingInv(elements)'
<1>0. /\ elements \in Seq(Element) /\ Len(elements) \in Nat
      /\ CollectingInv(elements) /\ ReadingInv /\ input \in Nat
  BY DEF FormatInv, InFile
<1>1. CASE ReadInput \/ NoInput
  BY <1>0, <1>1 DEF ReadInput, NoInput, CollectingInv
<1>2. CASE TakeInput
  BY <1>0, <1>2 DEF TakeInput, CollectingInv, MaxPairCount
<1>3. CASE Lex \/ Parse \/ UNCHANGED vars
  BY <1>0, <1>3 DEF Lex, Parse, vars, mainVars, buffers, CollectingInv, MaxPairCount
<1>4. CASE Lexed
  BY <1>0, <1>4 DEF Lexed, CollectingInv, MaxPairCount, buffers
<1>5. ~ParserStops
  BY <1>0 DEF ParserStops, ReadingInv
<1>6. CASE TakePairs
  BY <1>0, <1>6 DEF TakePairs, Parsed, CollectingInv, MaxPairCount, buffers
<1>7. ~NoPairs /\ ~Misread
  BY ArrayFound DEF NoPairs, Misread, Parsed
<1>8. CASE CollectPair
  <2>1. PICK n \in Nat : n = Len(pairs)
    BY <1>0 DEF CollectingInv
  <2>2. /\ n + 1 \in 1 .. Len(elements) /\ pairs' = Append(pairs, elements[n + 1])
        /\ elements[n + 1] \in Element
    BY <1>8, <2>1, ElementFound DEF CollectPair
  <2>3. /\ pairs' \in Seq(Element) /\ Len(pairs') = n + 1 /\ pairs'[n + 1] = elements[n + 1]
        /\ \A k \in 1 .. n : pairs'[k] = pairs[k]
    BY <1>0, <2>1, <2>2 DEF CollectingInv
  <2>4. \A k \in 1 .. n + 1 : pairs'[k] = elements[k]
    <3>1. \A k \in 1 .. n + 1 : k \in 1 .. n \/ k = n + 1
      BY <2>1
    <3> QED
      BY <1>0, <2>1, <2>3, <3>1 DEF CollectingInv
  <2>5. phase = "collecting" /\ phase' = "collecting" /\ room' = room /\ input' = input
    BY <1>8 DEF CollectPair, buffers
  <2> QED
    BY <1>0, <2>2, <2>3, <2>4, <2>5 DEF CollectingInv, MaxPairCount
<1>9. CASE CollectWrongly
  <2>1. PICK n \in Nat : n = Len(pairs)
    BY <1>0 DEF CollectingInv
  <2>2. n < Len(elements)
    BY <1>0, <1>9, <2>1, ElementFound DEF CollectWrongly
  <2>3. ~((n + 1) * PairSize <= (input \div MinimumJSONPairEncoding) * PairSize)
    <3>1. ~((Len(pairs) + 1) * PairSize <= room)
      <4>1. phase = "collecting" /\ Len(pairs) < Len(Items) /\ ~Readable
        BY <1>9 DEF CollectWrongly
      <4>2. NextItem.type = "object" /\ Len(NextItem.entries) = 4
        BY <4>1, ElementFound
      <4>3. Len(NextItem.entries) >= 4
        BY <4>2
      <4> QED
        BY <4>1, <4>2, <4>3 DEF Readable
    <3>2. room = MaxPairCount * PairSize
      BY <1>0, <1>9 DEF CollectWrongly, CollectingInv
    <3> QED
      BY <2>1, <3>1, <3>2 DEF MaxPairCount
  <2>4. input < MinimumJSONPairEncoding * Len(elements)
    BY <1>0, <2>2, <2>3, TooSmall, Sizes
  <2> QED
    BY <1>0, <1>9, <2>4 DEF CollectWrongly, CollectingInv, buffers
<1>10. CASE Collected
  <2>1. Len(Items) = Len(elements)
    BY <1>0, <1>10, ArrayFound DEF Collected, ReadingInv
  <2> QED
    BY <1>0, <1>10, <2>1 DEF Collected, CollectingInv
<1>11. CASE Sum \/ SumAndValidate
  BY <1>0, <1>11 DEF Sum, SumAndValidate, CollectingInv
<1> QED
  BY <1>1, <1>2, <1>3, <1>4, <1>5, <1>6, <1>7, <1>8, <1>9, <1>10, <1>11 DEF Next

\* The file stays, and so do its lexemes and its elements.
LEMMA FormatKept ==
  \A lexemes, elements :
    FormatInv(lexemes, elements) /\ [Next]_vars => FormatInv(lexemes, elements)'
<1> SUFFICES ASSUME NEW lexemes, NEW elements, FormatInv(lexemes, elements), [Next]_vars
             PROVE  FormatInv(lexemes, elements)'
  OBVIOUS
<1>1. DocumentInv'
  BY DocumentInvKept DEF FormatInv
<1>2. L!ReadAs(lexemes)' /\ file' = file
  <2>1. L!TypeOK /\ L!ReadAs(lexemes)
    BY DEF FormatInv, DocumentInv, TokensInv, L!KeywordInv, L!Inv
  <2>2. [L!Next]_(L!vars)
    BY LexerSteps DEF lexerVars, L!vars
  <2>3. file' = file
    BY <2>2 DEF L!Next, L!vars, L!Mark, L!Keyword, L!NotKeyword, L!Space, L!Number, L!String,
      L!NotString, L!Invalid, L!EndOfFile, L!Reading
  <2> QED
    BY <2>1, <2>2, <2>3, L!ReadAsKept, Capacities, FilesType, FilesAreCut
<1>3. input' \in Nat
  <2>1. CASE ReadInput
    <3>1. Len(file) \in Nat
      BY DEF FormatInv, DocumentInv, TokensInv, L!KeywordInv, L!Inv, L!TypeOK
    <3>2. PICK size \in {Len(file)} \cup OtherSizes : input' \in {size, 0}
      BY <2>1 DEF ReadInput, ReadEntireFile, AllocateBuffer, FreeBuffer
    <3>3. size \in Nat
      BY <3>1, <3>2, Sizes
    <3> QED
      BY <3>2, <3>3
  <2>2. CASE ~ReadInput
    BY <2>2 DEF FormatInv, Next, vars, mainVars, buffers, NoInput, TakeInput, Lex, Lexed, Parse,
      ParserStops, TakePairs, NoPairs, Misread, CollectPair, CollectWrongly, Collected, Sum,
      SumAndValidate, Frees, FreeBuffer
  <2> QED
    BY <2>1, <2>2
<1>4. ASSUME InFile(lexemes, elements)'
      PROVE  ReadingInv' /\ CollectingInv(elements)'
  <2>1. InFile(lexemes, elements)
    BY <1>2, <1>4 DEF InFile
  <2> QED
    BY <1>1, <2>1, ReadingKept, CollectingKept
<1> QED
  BY <1>1, <1>2, <1>3, <1>4 DEF FormatInv

LEMMA AtRestEstablishesFormat == AtRest => \A lexemes, elements : FormatInv(lexemes, elements)
<1> SUFFICES ASSUME AtRest, NEW lexemes, NEW elements PROVE FormatInv(lexemes, elements)
  OBVIOUS
<1>1. DocumentInv /\ L!Inv
  BY AtRestEstablishesDocument DEF DocumentInv, TokensInv, L!KeywordInv
<1>2. L!ReadAs(lexemes)
  BY L!NothingRead, Capacities, FilesType, FilesAreCut DEF AtRest
<1>3. ReadingInv
  BY <1>1, NothingSpelled DEF AtRest, ReadingInv, P!Begin
<1>4. InFile(lexemes, elements) => CollectingInv(elements)
  BY DEF InFile, AtRest, CollectingInv
<1> QED
  BY <1>1, <1>2, <1>3, <1>4 DEF FormatInv, AtRest

\* The file, and the lexemes and the elements that go with it, as they are known.
FileFormatInv ==
  file \in DOMAIN Elements =>
    InFile(Lexemes[file], Elements[file]) /\ FormatInv(Lexemes[file], Elements[file])

LEMMA FormatAlways == Spec => []FileFormatInv
<1>1. file \in DOMAIN Elements => InFile(Lexemes[file], Elements[file])
  BY Format, FilesAreCut DEF InFile
<1>2. Init => FileFormatInv
  BY <1>1, InitAtRest, AtRestEstablishesFormat DEF FileFormatInv
<1>3. FileFormatInv /\ [Next]_vars => FileFormatInv'
  <2> SUFFICES ASSUME FileFormatInv, [Next]_vars, file' \in DOMAIN Elements
               PROVE  (InFile(Lexemes[file], Elements[file])
                         /\ FormatInv(Lexemes[file], Elements[file]))'
    BY DEF FileFormatInv
  <2>1. file' = file
    <3>1. L!Next => file' = file
      BY DEF L!Next, L!Mark, L!Keyword, L!NotKeyword, L!Space, L!Number, L!String, L!NotString,
        L!Invalid, L!EndOfFile, L!Reading
    <3> QED
      BY <3>1, LexerSteps DEF lexerVars
  <2>2. PICK lexemes, elements : lexemes = Lexemes[file] /\ elements = Elements[file]
    OBVIOUS
  <2>3. InFile(lexemes, elements)' /\ FormatInv(lexemes, elements)'
    <3>1. InFile(lexemes, elements) /\ FormatInv(lexemes, elements)
      BY <2>1, <2>2 DEF FileFormatInv
    <3> QED
      BY <2>1, <3>1, FormatKept DEF InFile
  <2>4. (Lexemes[file] = lexemes /\ Elements[file] = elements)'
    BY <2>1, <2>2
  <2> QED
    BY <2>3, <2>4 DEF InFile, FormatInv, L!ReadAs, L!ReadUpTo, CollectingInv
<1> QED
  BY <1>2, <1>3, PTL DEF Spec

\* For every file in the format, of any number of elements, the pairs are its elements:
\* none skipped, none twice, none of another, and the four numbers of each in the order
\* of the file (lexer, parser and ParseHaversinePairs together).
THEOREM PairsAreRead == Spec => []PairsAreTheElements
<1>1. FileFormatInv => PairsAreTheElements
  BY DEF FileFormatInv, FormatInv, InFile, CollectingInv, PairsAreTheElements
<1> QED
  BY <1>1, FormatAlways, PTL

\* And such a file is within the buffers, unless the file had been shorter than its
\* pairs need when its size was taken: neither the tokenizer nor the parser ever leaves
\* its own, and the guess of main is enough (main, lines 98 and 99).
THEOREM FormatFits == Spec => []FormatIsWithinBounds
<1>1. FileFormatInv => FormatIsWithinBounds
  BY DEF FileFormatInv, FormatInv, CollectingInv, FormatIsWithinBounds
<1> QED
  BY <1>1, FormatAlways, PTL

-----------------------------------------------------------------------------
(***************************************************************************)
(* Files that come to an end too early: the first brace is never closed,   *)
(* and what is summed of one is nothing.                                   *)
(***************************************************************************)

\* Whatever is closed is an element that has been opened, and so the first brace is not.
Unclosed(lexemes) ==
  \A p, type : Has(lexemes, p, type) /\ type # "BLANK" =>
    /\ p = 1 => type = "LBRACE"
    /\ type \in P!ClosingTypes => p > 17 /\ Has(lexemes, p - 16, "LBRACE")

LEMMA UnclosedTypes ==
  ASSUME NEW lexemes, L!IsCut(lexemes, file), Unclosed(lexemes),
         L!Inv, L!ReadAs(lexemes), lexing = "done"
  PROVE  /\ Len(Types) # 0 => Types[1] = "LBRACE"
         /\ \A p \in 1 .. Len(Types) :
              Types[p] \in P!ClosingTypes => p > 17 /\ Types[p - 16] = "LBRACE"
<1>1. Len(lexemes) \in Nat /\ Len(Types) \in Nat
  BY TypesType DEF L!IsCut
<1>2. ASSUME NEW p, Has(lexemes, p, "LBRACE") PROVE Types[p] = "LBRACE"
  <2>1. PICK k \in 1 .. Len(lexemes) : lexemes[k].type = "LBRACE" /\ L!Count(lexemes, k) = p
    BY <1>2 DEF Has
  <2> QED
    BY <2>1, TokenIs
<1>3. ASSUME NEW p \in 1 .. Len(Types)
      PROVE  Has(lexemes, p, Types[p]) /\ Types[p] # "BLANK"
  <2>1. L!ReadUpTo(lexemes, Len(lexemes))
    BY DEF L!ReadAs
  <2>2. p \in 1 .. L!Count(lexemes, Len(lexemes))
    BY <2>1, TypesType DEF L!ReadUpTo
  <2>3. PICK k \in L!Significant(lexemes, Len(lexemes)) : L!Count(lexemes, k) = p
    BY <1>1, <2>2, L!LexemeOf, Capacities, FilesType, FilesAreCut
  <2>4. k \in 1 .. Len(lexemes) /\ lexemes[k].type # "BLANK"
    BY DEF L!Significant
  <2>5. lexemes[k].type = Types[p]
    BY <2>3, <2>4, TokenIs
  <2> QED
    BY <2>3, <2>4, <2>5 DEF Has
<1>4. Len(Types) # 0 => 1 \in 1 .. Len(Types)
  BY <1>1
<1> QED
  BY <1>2, <1>3, <1>4 DEF Unclosed

LEMMA NothingOpened == current = 0 /\ stack = <<>> => P!Balanced
BY P!BalancedInitially, Capacities

\* While it may be that the file is such a one.
UnclosedInv(lexemes) ==
  /\ DocumentInv /\ L!ReadAs(lexemes) /\ P!Balanced
  /\ phase = "parsing" => lexing = "done"
  /\ L!IsCut(lexemes, file) /\ Unclosed(lexemes) =>
       parsing # "accepted" /\ phase \notin {"collecting", "summing", "summed"} /\ pairs = <<>>

LEMMA UnclosedKept ==
  \A lexemes : UnclosedInv(lexemes) /\ [Next]_vars => UnclosedInv(lexemes)'
<1> SUFFICES ASSUME NEW lexemes, UnclosedInv(lexemes), [Next]_vars
             PROVE  UnclosedInv(lexemes)'
  OBVIOUS
<1>1. DocumentInv'
  BY DocumentInvKept DEF UnclosedInv
<1>2. L!ReadAs(lexemes)' /\ file' = file
  <2>1. L!TypeOK /\ L!ReadAs(lexemes)
    BY DEF UnclosedInv, DocumentInv, TokensInv, L!KeywordInv, L!Inv
  <2>2. [L!Next]_(L!vars)
    BY LexerSteps DEF lexerVars, L!vars
  <2>3. file' = file
    BY <2>2 DEF L!Next, L!vars, L!Mark, L!Keyword, L!NotKeyword, L!Space, L!Number, L!String,
      L!NotString, L!Invalid, L!EndOfFile, L!Reading
  <2> QED
    BY <2>1, <2>2, <2>3, L!ReadAsKept, Capacities, FilesType, FilesAreCut
<1>3. CASE Lex
  <2>1. P!Begin(Types)' /\ phase' = "lexing" /\ UNCHANGED <<parsing, pairs>>
    BY <1>3 DEF Lex, UnclosedInv, DocumentInv, ParserInv, Idle, P!Begin, parserVars, mainVars
  <2>2. P!Balanced'
    <3>1. (current = 0 /\ stack = <<>>)'
      BY <2>1 DEF P!Begin
    <3> QED
      BY <3>1, NothingOpened, PTL
  <2> QED
    BY <1>1, <1>2, <2>1, <2>2 DEF UnclosedInv
<1>4. CASE Parse
  <2>1. P!Next /\ phase = "parsing" /\ phase' = "parsing" /\ UNCHANGED lexerVars /\ pairs' = pairs
    BY <1>4 DEF Parse, mainVars
  <2>2. P!Inv /\ P!Balanced
    BY DEF UnclosedInv, DocumentInv, ParserInv
  <2>3. P!Balanced'
    BY <2>1, <2>2, P!BalancedKept, Capacities
  <2>4. ASSUME L!IsCut(lexemes, file), Unclosed(lexemes) PROVE parsing' # "accepted"
    <3>1. L!Inv /\ L!ReadAs(lexemes) /\ lexing = "done" /\ parsing # "accepted"
      BY <2>1, <2>4 DEF UnclosedInv, DocumentInv, TokensInv, L!KeywordInv
    <3>2. /\ Len(Types) # 0 => Types[1] = "LBRACE"
          /\ \A p \in 1 .. Len(Types) :
               Types[p] \in P!ClosingTypes => p > 16 + 1 /\ Types[p - 16] = "LBRACE"
      BY <2>4, <3>1, UnclosedTypes
    <3>3. ~(point = "returned" /\ stack = <<>>)
      BY <2>2, <3>2, P!NeverClosed, Capacities
    <3> QED
      BY <2>1, <3>1, <3>3 DEF P!Next, P!OpenObject, P!OpenArray, P!ReadScalar, P!EmptyArray,
        P!FirstElement, P!ReadKey, P!ReadColon, P!Comma, P!Close, P!Finish, P!Accept, P!Unexpected,
        P!OutOfBounds, P!At
  <2> QED
    BY <1>1, <1>2, <2>1, <2>3, <2>4 DEF UnclosedInv, lexerVars
<1>5. CASE UNCHANGED <<lexerVars, parserVars>>
  <2>1. P!Balanced'
    BY <1>5 DEF UnclosedInv, P!Balanced, P!Taken, Types, lexerVars, parserVars
  <2>2. parsing' = parsing /\ lexing' = lexing
    BY <1>5 DEF lexerVars, parserVars
  <2>3. ASSUME parsing # "accepted", phase \notin {"collecting", "summing", "summed"}, pairs = <<>>
        PROVE  phase' \notin {"collecting", "summing", "summed"} /\ pairs' = <<>>
    BY <1>5, <2>3 DEF Next, vars, mainVars, ReadInput, NoInput, TakeInput, Lex, Lexed, Parse,
      ParserStops, Parsed, TakePairs, NoPairs, Misread, CollectPair, CollectWrongly, Collected, Sum,
      SumAndValidate
  <2>4. phase' = "parsing" => lexing = "done"
    BY <1>5 DEF UnclosedInv, Next, vars, mainVars, ReadInput, NoInput, TakeInput, Lex, Lexed, Parse,
      ParserStops, TakePairs, NoPairs, Misread, CollectPair, CollectWrongly, Collected, Sum,
      SumAndValidate
  <2> QED
    BY <1>1, <1>2, <2>1, <2>2, <2>3, <2>4 DEF UnclosedInv
<1>6. Lex \/ Parse \/ UNCHANGED <<lexerVars, parserVars>>
  BY DEF Next, vars, ReadInput, NoInput, TakeInput, Lexed, ParserStops, TakePairs, NoPairs, Misread,
    CollectPair, CollectWrongly, Collected, Sum, SumAndValidate
<1> QED
  BY <1>3, <1>4, <1>5, <1>6

LEMMA AtRestEstablishesUnclosed == AtRest => \A lexemes : UnclosedInv(lexemes)
<1> SUFFICES ASSUME AtRest, NEW lexemes PROVE UnclosedInv(lexemes)
  OBVIOUS
<1>1. DocumentInv /\ L!ReadAs(lexemes)
  BY AtRestEstablishesDocument, L!NothingRead, Capacities, FilesType, FilesAreCut DEF AtRest
<1>2. P!Balanced /\ parsing = "parsing"
  BY NothingOpened DEF AtRest, P!Begin
<1> QED
  BY <1>1, <1>2 DEF UnclosedInv, AtRest

-----------------------------------------------------------------------------
(***************************************************************************)
(* The format by the tokens of a text.                                     *)
(***************************************************************************)

\* The tokens are those of a text in the format, but for the end.
Begin(signs, elements) ==
  /\ Len(signs) >= 4
  /\ signs[1].type = "LBRACE" /\ signs[2].type = "STRING"
  /\ signs[3].type = "COLON" /\ signs[4].type = "LBRACKET"
  /\ \A n \in 1 .. Len(elements) :
       /\ ElementAt(n) + 16 <= Len(signs)
       /\ signs[ElementAt(n)].type = "LBRACE"
       /\ \A k \in 1 .. 4 :
            /\ signs[NumberAt(n, k) - 2].type = "STRING" /\ signs[NumberAt(n, k) - 1].type = "COLON"
            /\ signs[NumberAt(n, k)] = L!Numeral(elements[n][k])
            /\ signs[NumberAt(n, k) + 1].type = IF k = 4 THEN "RBRACE" ELSE "COMMA"
       /\ n > 1 => signs[ElementAt(n) - 1].type = "COMMA"

\* Nothing is closed but elements.
CloseElements(signs) ==
  \A p \in 1 .. Len(signs) :
    signs[p].type \in P!ClosingTypes => p > 17 /\ signs[p - 16].type = "LBRACE"

LEMMA HasSign ==
  ASSUME NEW f \in Seq(L!Char), NEW signs \in L!Signs, NEW lexemes, L!Spells(lexemes, f, signs)
  PROVE  /\ \A p \in 1 .. L!Count(lexemes, Len(lexemes)) :
              /\ Has(lexemes, p, signs[p].type)
              /\ signs[p].type = "NUMBER" => HasNumber(lexemes, f, p, signs[p].text)
         /\ \A p, type : Has(lexemes, p, type) /\ type # "BLANK" =>
              /\ p \in 1 .. L!Count(lexemes, Len(lexemes)) /\ p \in 1 .. Len(signs)
              /\ signs[p].type = type
<1> USE Capacities, FilesType, FilesAreCut
<1>1. PICK n \in Nat, c \in Nat, d \in Nat :
        n = Len(lexemes) /\ c = L!Count(lexemes, n) /\ d = Len(signs) /\ c <= d
  <2>1. Len(lexemes) \in Nat
    BY DEF L!Spells, L!IsCut
  <2>2. L!Count(lexemes, Len(lexemes)) \in Nat /\ Len(signs) \in Nat
    BY <2>1, L!SignificantFinite DEF L!Signs
  <2> QED
    BY <2>1, <2>2 DEF L!Spells
<1>2. ASSUME NEW k \in L!Significant(lexemes, n)
      PROVE  /\ k \in 1 .. Len(lexemes)
             /\ lexemes[k].type = signs[L!Count(lexemes, k)].type
             /\ lexemes[k].type = "NUMBER" =>
                  L!TextOf(lexemes[k], f) = signs[L!Count(lexemes, k)].text
  BY <1>1 DEF L!Spells, L!Significant
<1>3. ASSUME NEW p \in 1 .. c
      PROVE  /\ Has(lexemes, p, signs[p].type)
             /\ signs[p].type = "NUMBER" => HasNumber(lexemes, f, p, signs[p].text)
  <2>1. p \in 1 .. L!Count(lexemes, n)
    BY <1>1
  <2>2. PICK k \in L!Significant(lexemes, n) : L!Count(lexemes, k) = p
    BY <2>1, L!LexemeOf
  <2> QED
    BY <1>2, <2>2 DEF Has, HasNumber
<1>4. ASSUME NEW p, NEW type, Has(lexemes, p, type), type # "BLANK"
      PROVE  p \in 1 .. c /\ p \in 1 .. d /\ signs[p].type = type
  <2>1. PICK k \in 1 .. n : lexemes[k].type = type /\ L!Count(lexemes, k) = p
    BY <1>1, <1>4 DEF Has
  <2>2. k \in L!Significant(lexemes, n)
    BY <1>4, <2>1 DEF L!Significant
  <2>3. p \in 1 .. L!Count(lexemes, n)
    BY <2>1, <2>2, L!CountWithin
  <2>4. p \in 1 .. c /\ p \in 1 .. d
    BY <1>1, <2>3
  <2> QED
    BY <1>2, <2>1, <2>2, <2>4
<1> QED
  BY <1>1, <1>3, <1>4

\* A text that is cut to its end has what its tokens begin with.
LEMMA BeginningSpelled ==
  ASSUME NEW f \in Seq(L!Char), NEW signs \in L!Signs, NEW lexemes, L!Spells(lexemes, f, signs),
         L!IsWhole(lexemes, f), NEW elements, Len(elements) \in Nat, Begin(signs, elements)
  PROVE  HasBeginning(lexemes, f, elements)
<1>1. PICK d \in Nat : d = Len(signs) /\ d >= 4
  BY DEF Begin, L!Signs
<1>2. \A p \in 1 .. d :
        /\ Has(lexemes, p, signs[p].type)
        /\ signs[p].type = "NUMBER" => HasNumber(lexemes, f, p, signs[p].text)
  BY <1>1, HasSign DEF L!Spells
<1>3. /\ Has(lexemes, 1, "LBRACE") /\ Has(lexemes, 2, "STRING")
      /\ Has(lexemes, 3, "COLON") /\ Has(lexemes, 4, "LBRACKET")
  <2>1. 1 \in 1 .. d /\ 2 \in 1 .. d /\ 3 \in 1 .. d /\ 4 \in 1 .. d
    BY <1>1
  <2> QED
    BY <1>2, <2>1 DEF Begin
<1>4. ASSUME NEW n \in 1 .. Len(elements)
      PROVE  /\ HasElement(lexemes, f, n, elements[n])
             /\ n > 1 => Has(lexemes, ElementAt(n) - 1, "COMMA")
  <2>1. PICK at \in Nat : at = ElementAt(n) /\ at >= 5 /\ at + 16 <= d
    BY <1>1 DEF Begin, ElementAt
  <2>2. at \in 1 .. d /\ at - 1 \in 1 .. d
    BY <1>1, <2>1
  <2>3. Has(lexemes, at, "LBRACE") /\ (n > 1 => Has(lexemes, at - 1, "COMMA"))
    BY <1>2, <2>1, <2>2 DEF Begin
  <2>4. ASSUME NEW k \in 1 .. 4
        PROVE  /\ Has(lexemes, NumberAt(n, k) - 2, "STRING")
               /\ Has(lexemes, NumberAt(n, k) - 1, "COLON")
               /\ HasNumber(lexemes, f, NumberAt(n, k), elements[n][k])
               /\ Has(lexemes, NumberAt(n, k) + 1, IF k = 4 THEN "RBRACE" ELSE "COMMA")
    <3>1. k = 1 \/ k = 2 \/ k = 3 \/ k = 4
      OBVIOUS
    <3>2. PICK p \in Nat : p = NumberAt(n, k) /\ p >= at + 3 /\ p <= at + 15
      BY <2>1, <3>1 DEF NumberAt
    <3>3. at \in Int /\ d \in Int /\ p \in Int /\ at >= 5 /\ at + 16 <= d /\ p >= at + 3 /\ p <= at + 15
      BY <1>1, <2>1, <3>2
    <3>4. p \in 1 .. d /\ p - 2 \in 1 .. d /\ p - 1 \in 1 .. d /\ p + 1 \in 1 .. d
      BY <3>3
    <3>5. /\ signs[NumberAt(n, k) - 2].type = "STRING" /\ signs[NumberAt(n, k) - 1].type = "COLON"
          /\ signs[NumberAt(n, k)] = L!Numeral(elements[n][k])
          /\ signs[NumberAt(n, k) + 1].type = IF k = 4 THEN "RBRACE" ELSE "COMMA"
      BY DEF Begin
    <3>6. /\ signs[p - 2].type = "STRING" /\ signs[p - 1].type = "COLON"
          /\ signs[p] = L!Numeral(elements[n][k])
          /\ signs[p + 1].type = IF k = 4 THEN "RBRACE" ELSE "COMMA"
      BY <3>2, <3>5
    <3>7. signs[p].type = "NUMBER" /\ signs[p].text = elements[n][k]
      BY <3>6 DEF L!Numeral
    <3>8. /\ Has(lexemes, p - 2, "STRING") /\ Has(lexemes, p - 1, "COLON")
          /\ HasNumber(lexemes, f, p, elements[n][k])
          /\ Has(lexemes, p + 1, IF k = 4 THEN "RBRACE" ELSE "COMMA")
      BY <1>2, <3>4, <3>6, <3>7
    <3> QED
      BY <3>2, <3>8
  <2> QED
    BY <2>1, <2>3, <2>4 DEF HasElement
<1> QED
  BY <1>3, <1>4 DEF HasBeginning

\* With the end it is in the format.
LEMMA FormatSpelled ==
  ASSUME NEW f \in Seq(L!Char), NEW signs \in L!Signs, NEW lexemes, L!Spells(lexemes, f, signs),
         L!IsWhole(lexemes, f), NEW elements, Len(elements) \in Nat, Begin(signs, elements),
         NEW e \in Nat, e = ArrayEnd(Len(elements)), e # 0, e + 1 <= Len(signs),
         signs[e].type = "RBRACKET", signs[e + 1].type = "RBRACE"
  PROVE  HasFormat(lexemes, f, elements)
<1>1. PICK d \in Nat : d = Len(signs) /\ e \in 1 .. d /\ e + 1 \in 1 .. d
  <2>1. PICK d \in Nat : d = Len(signs)
    BY DEF L!Signs
  <2>2. d \in Int /\ e \in Int /\ e >= 1 /\ e + 1 <= d
    BY <2>1
  <2>3. e \in 1 .. d /\ e + 1 \in 1 .. d
    BY <2>2
  <2> QED
    BY <2>1, <2>3
<1>2. \A p \in 1 .. d : Has(lexemes, p, signs[p].type)
  BY <1>1, HasSign DEF L!Spells
<1>3. Has(lexemes, e, "RBRACKET") /\ Has(lexemes, e + 1, "RBRACE")
  BY <1>1, <1>2
<1> QED
  BY <1>3, BeginningSpelled DEF HasFormat

\* What closes elements only leaves the first brace open, wherever the cut ends.
LEMMA UnclosedSpelled ==
  ASSUME NEW f \in Seq(L!Char), NEW signs \in L!Signs, NEW lexemes, L!Spells(lexemes, f, signs),
         signs[1].type = "LBRACE", CloseElements(signs)
  PROVE  Unclosed(lexemes)
<1> SUFFICES ASSUME NEW p, NEW type, Has(lexemes, p, type), type # "BLANK"
             PROVE  /\ p = 1 => type = "LBRACE"
                    /\ type \in P!ClosingTypes => p > 17 /\ Has(lexemes, p - 16, "LBRACE")
  BY DEF Unclosed
<1>1. /\ p \in 1 .. L!Count(lexemes, Len(lexemes)) /\ p \in 1 .. Len(signs)
      /\ signs[p].type = type
  BY HasSign
<1>2. ASSUME type \in P!ClosingTypes PROVE p > 17 /\ Has(lexemes, p - 16, "LBRACE")
  <2>1. p > 17 /\ signs[p - 16].type = "LBRACE"
    BY <1>1, <1>2 DEF CloseElements
  <2>2. PICK c : c = L!Count(lexemes, Len(lexemes))
    OBVIOUS
  <2>3. c \in Nat
    <3>1. Len(lexemes) \in Nat
      BY DEF L!Spells, L!IsCut
    <3> QED
      BY <2>2, <3>1, L!SignificantFinite, Capacities, FilesType, FilesAreCut
  <2>4. p \in 1 .. c
    BY <1>1, <2>2
  <2>5. p - 16 \in 1 .. c
    BY <2>1, <2>3, <2>4
  <2>6. p - 16 \in 1 .. L!Count(lexemes, Len(lexemes))
    BY <2>2, <2>5
  <2> QED
    BY <2>1, <2>6, HasSign
<1> QED
  BY <1>1, <1>2
=============================================================================
