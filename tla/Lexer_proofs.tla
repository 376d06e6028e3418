---------------------------- MODULE Lexer_proofs ----------------------------
(***************************************************************************)
(* Proofs about the tokenizer, for every file and every capacity.          *)
(***************************************************************************)
EXTENDS Lexemes, FiniteSetTheorems, WellFoundedInduction, TLAPS

-----------------------------------------------------------------------------
(***************************************************************************)
(* The stream.                                                             *)
(***************************************************************************)

LEMMA RunType ==
  ASSUME file \in Seq(Char), NEW p, NEW S
  PROVE  Run(p, S) \in Nat
<1> DEFINE prefixes == {n \in 1 .. Len(file) : \A k \in 0 .. n - 1 : CharAt(p + k) \in S}
<1>1. IsFiniteSet(1 .. Len(file))
  BY FS_Interval
<1>2. IsFiniteSet(prefixes)
  BY <1>1, FS_Subset
<1> QED
  BY <1>2, FS_CardinalityType DEF Run

LEMMA SpellingType ==
  ASSUME NEW type \in KeywordTypes
  PROVE  /\ Spelling(type) \in Seq(Char)
         /\ Len(Spelling(type)) \in {4, 5}
         /\ Head(Spelling(type)) \in {"t", "f", "n"}
<1>1. {"t", "r", "u", "e", "f", "a", "l", "s", "n"} \subseteq Char
  BY DEF Char, Ascii, Letters
<1>2. CASE type = "TRUE"
  <2>1. Spelling(type) = <<"t", "r", "u", "e">>
    BY <1>2 DEF Spelling
  <2>2. <<"t", "r", "u", "e">> \in Seq(Char)
    BY <1>1
  <2> QED
    BY <2>1, <2>2
<1>3. CASE type = "FALSE"
  <2>1. Spelling(type) = <<"f", "a", "l", "s", "e">>
    BY <1>3 DEF Spelling
  <2>2. <<"f", "a", "l", "s", "e">> \in Seq(Char)
    BY <1>1
  <2> QED
    BY <2>1, <2>2
<1>4. CASE type = "NULL"
  <2>1. Spelling(type) = <<"n", "u", "l", "l">>
    BY <1>4 DEF Spelling
  <2>2. <<"n", "u", "l", "l">> \in Seq(Char)
    BY <1>1
  <2> QED
    BY <2>1, <2>2
<1> QED
  BY <1>2, <1>3, <1>4 DEF KeywordTypes

LEMMA MatchedType ==
  ASSUME NEW type \in KeywordTypes
  PROVE  /\ Matched(type) \in Nat
         /\ Matched(type) = Len(Spelling(type)) =>
              \A k \in 2 .. Len(Spelling(type)) : CharAt(pos + k - 1) = Spelling(type)[k]
<1> DEFINE len == Len(Spelling(type))
           matches == {m \in 1 .. len : \A k \in 2 .. m : CharAt(pos + k - 1) = Spelling(type)[k]}
<1>1. len \in Nat \ {0}
  BY SpellingType
<1>2. IsFiniteSet(1 .. len) /\ Cardinality(1 .. len) = len
  BY <1>1, FS_Interval
<1>3. /\ IsFiniteSet(matches)
      /\ Cardinality(matches) = Cardinality(1 .. len) => matches = 1 .. len
  BY <1>2, FS_Subset
<1>4. Matched(type) = Cardinality(matches)
  BY DEF Matched
<1>5. Cardinality(matches) \in Nat
  BY <1>3, FS_CardinalityType
<1>6. ASSUME Cardinality(matches) = len
      PROVE  \A k \in 2 .. len : CharAt(pos + k - 1) = Spelling(type)[k]
  <2>1. matches = 1 .. len /\ len \in 1 .. len
    <3> HIDE DEF matches, len
    <3> QED
      BY <1>1, <1>2, <1>3, <1>6
  <2>2. len \in matches
    BY <2>1
  <2> QED
    BY <2>2
<1> QED
  BY <1>4, <1>5, <1>6

LEMMA CharAtType ==
  ASSUME file \in Seq(Char), NEW p \in Nat
  PROVE  CharAt(p) \in Char \cup {EOF}
<1>1. CASE p < Len(file)
  <2>1. p + 1 \in 1 .. Len(file)
    BY <1>1
  <2> QED
    BY <1>1, <2>1 DEF CharAt
<1>2. CASE ~(p < Len(file))
  BY <1>2 DEF CharAt
<1> QED
  BY <1>1, <1>2

LEMMA SeekType ==
  ASSUME NEW p \in Nat, NEW delta \in Int
  PROVE  Seek(p, delta) \in Nat
  BY DEF Seek

LEMMA AfterType ==
  ASSUME file \in Seq(Char), NEW p \in Nat
  PROVE  After(p) \in Nat
  BY DEF After

LEMMA ReadType ==
  ASSUME file \in Seq(Char), NEW p \in Nat, NEW n \in Nat
  PROVE  Read(p, n) \in Seq(Char \cup {EOF})
<1>1. ASSUME NEW k \in 1 .. n
      PROVE  CharAt(p + k - 1) \in Char \cup {EOF}
  <2>1. p + k - 1 \in Nat
    OBVIOUS
  <2> QED
    BY <2>1, CharAtType
<1> QED
  BY <1>1 DEF Read

\* A set of numbers has a least one.
LEMMA LeastNumber ==
  ASSUME NEW T \in SUBSET Nat, T # {}
  PROVE  \E x \in T : \A y \in T : x <= y
<1> DEFINE R == OpToRel(<, Nat)
<1>1. IsWellFoundedOn(R, Nat)
  BY NatLessThanWellFounded
<1> HIDE DEF R
<1>2. PICK x \in T : \A y \in T : ~(<<y, x>> \in R)
  BY <1>1, WFMin
<1>3. \A y \in T : ~(y < x)
  BY <1>2 DEF R, OpToRel
<1> QED
  BY <1>3

\* A run is as long as the characters of it that there are.
LEMMA RunIs ==
  ASSUME file \in Seq(Char), NEW p \in Nat, NEW S, NEW n \in Nat,
         p + n <= Len(file), \A k \in 0 .. n - 1 : CharAt(p + k) \in S, CharAt(p + n) \notin S
  PROVE  Run(p, S) = n
<1> DEFINE prefixes == {m \in 1 .. Len(file) : \A k \in 0 .. m - 1 : CharAt(p + k) \in S}
<1>1. prefixes \subseteq 1 .. n
  <2> SUFFICES ASSUME NEW m \in prefixes, m > n PROVE FALSE
    OBVIOUS
  <2>1. n \in 0 .. m - 1
    OBVIOUS
  <2> QED
    BY <2>1
<1>2. 1 .. n \subseteq prefixes
  <2> SUFFICES ASSUME NEW m \in 1 .. n PROVE m \in prefixes
    OBVIOUS
  <2>1. m \in 1 .. Len(file) /\ 0 .. m - 1 \subseteq 0 .. n - 1
    OBVIOUS
  <2> QED
    BY <2>1
<1>3. prefixes = 1 .. n
  BY <1>1, <1>2
<1> HIDE DEF prefixes
<1>4. Cardinality(1 .. n) = n
  BY FS_Interval
<1> QED
  BY <1>3, <1>4 DEF Run, prefixes

\* A run is all of characters of it, and stops at one that is not.
LEMMA RunStops ==
  ASSUME file \in Seq(Char), NEW p \in Nat, p <= Len(file), NEW S, EOF \notin S
  PROVE  /\ Run(p, S) \in Nat /\ p + Run(p, S) <= Len(file)
         /\ \A k \in 0 .. Run(p, S) - 1 : CharAt(p + k) \in S
         /\ CharAt(p + Run(p, S)) \notin S
<1> DEFINE T == {k \in Nat : CharAt(p + k) \notin S}
<1>1. Len(file) - p \in T
  BY DEF CharAt
<1>2. PICK n \in T : \A k \in T : n <= k
  <2>1. T \in SUBSET Nat /\ T # {}
    BY <1>1
  <2> HIDE DEF T
  <2> QED
    BY <2>1, LeastNumber
<1>3. n \in Nat /\ n <= Len(file) - p /\ CharAt(p + n) \notin S
  BY <1>1, <1>2
<1>4. \A k \in 0 .. n - 1 : CharAt(p + k) \in S
  BY <1>2, <1>3
<1>5. p + n <= Len(file)
  BY <1>3
<1>6. Run(p, S) = n
  BY <1>3, <1>4, <1>5, RunIs
<1> QED
  BY <1>3, <1>4, <1>5, <1>6

LEMMA MatchedIs ==
  ASSUME NEW type \in KeywordTypes, NEW m \in 1 .. Len(Spelling(type)),
         \A k \in 2 .. m : CharAt(pos + k - 1) = Spelling(type)[k],
         m = Len(Spelling(type)) \/ CharAt(pos + m) # Spelling(type)[m + 1],
         pos \in Nat
  PROVE  Matched(type) = m
<1> DEFINE len == Len(Spelling(type))
           matches == {n \in 1 .. len : \A k \in 2 .. n : CharAt(pos + k - 1) = Spelling(type)[k]}
<1>1. len \in Nat
  BY SpellingType
<1>2. matches \subseteq 1 .. m
  <2> SUFFICES ASSUME NEW n \in matches, n > m PROVE FALSE
    BY <1>1
  <2>1. m + 1 \in 2 .. n /\ m # len /\ pos + (m + 1) - 1 = pos + m
    BY <1>1
  <2> QED
    BY <2>1
<1>3. 1 .. m \subseteq matches
  BY <1>1
<1>4. matches = 1 .. m
  BY <1>2, <1>3
<1>5. Cardinality(1 .. m) = m
  BY <1>1, FS_Interval
<1> QED
  BY <1>4, <1>5 DEF Matched

LEMMA MatchedStops ==
  ASSUME NEW type \in KeywordTypes, pos \in Nat
  PROVE  /\ Matched(type) \in 1 .. Len(Spelling(type))
         /\ \A k \in 2 .. Matched(type) : CharAt(pos + k - 1) = Spelling(type)[k]
         /\ \/ Matched(type) = Len(Spelling(type))
            \/ CharAt(pos + Matched(type)) # Spelling(type)[Matched(type) + 1]
<1> DEFINE word == Spelling(type)
           len == Len(word)
           T == {m \in 1 .. len : m = len \/ CharAt(pos + m) # word[m + 1]}
<1>1. len \in Nat /\ len \in T
  BY SpellingType
<1>2. PICK m \in T : \A k \in T : m <= k
  <2>1. T \in SUBSET Nat /\ T # {}
    BY <1>1
  <2> HIDE DEF T
  <2> QED
    BY <2>1, LeastNumber
<1>3. m \in 1 .. len /\ (m = len \/ CharAt(pos + m) # word[m + 1])
  BY <1>2
<1>4. ASSUME NEW k \in 2 .. m PROVE CharAt(pos + k - 1) = word[k]
  <2>1. k - 1 \in 1 .. len /\ k - 1 # len /\ k - 1 \notin T
    <3> HIDE DEF T, len
    <3>1. m \in 1 .. len /\ \A j \in T : m <= j
      BY <1>2, <1>3
    <3> QED
      BY <1>1, <3>1
  <2>2. CharAt(pos + (k - 1)) = word[(k - 1) + 1] /\ (k - 1) + 1 = k /\ pos + (k - 1) = pos + k - 1
    BY <2>1
  <2> QED
    BY <2>2
<1>5. Matched(type) = m
  BY <1>3, <1>4, MatchedIs
<1> QED
  BY <1>3, <1>4, <1>5

LEMMA SpellingLetters ==
  ASSUME NEW type \in KeywordTypes, NEW k \in 1 .. Len(Spelling(type))
  PROVE  Spelling(type)[k] \in Letters /\ Spelling(type)[1] = Head(Spelling(type))
<1>1. CASE type = "TRUE"
  BY <1>1 DEF Spelling, Letters
<1>2. CASE type = "FALSE"
  BY <1>2 DEF Spelling, Letters
<1>3. CASE type = "NULL"
  BY <1>3 DEF Spelling, Letters
<1> QED
  BY <1>1, <1>2, <1>3 DEF KeywordTypes

-----------------------------------------------------------------------------
(***************************************************************************)
(* Types and capacity.                                                     *)
(***************************************************************************)

Inv == TypeOK /\ WithinCapacity

LEMMA GrownType ==
  ASSUME Inv
  PROVE  Grown \in Nat /\ Len(tokens) < Grown
<1>1. Len(tokens) \in Nat /\ capacity \in Nat /\ Len(tokens) <= capacity
  BY DEF Inv, TypeOK, WithinCapacity
<1> QED
  BY <1>1, Capacities DEF Grown

\* A branch that adds at most one token, after increaseTokensBuffer, keeps the
\* invariant.
LEMMA BranchPreservesInv ==
  ASSUME Inv, capacity' = Grown, UNCHANGED file, status' \in {"lexing", "done"},
         pos' \in Nat, unread' \in Char \cup {NoChar},
         \/ UNCHANGED tokens
         \/ \E token \in Token : tokens' = Append(tokens, token)
  PROVE  Inv'
<1>1. Grown \in Nat /\ Len(tokens) < Grown /\ Len(tokens) \in Nat /\ tokens \in Seq(Token)
  BY GrownType DEF Inv, TypeOK
<1>2. tokens' \in Seq(Token) /\ Len(tokens') <= Grown
  BY <1>1
<1> QED
  BY <1>1, <1>2 DEF Inv, TypeOK, WithinCapacity

LEMMA AddTokenType ==
  ASSUME NEW type \in TokenTypes, NEW text \in Seq(Char \cup {EOF}), AddToken(type, text)
  PROVE  \E token \in Token : tokens' = Append(tokens, token)
<1>1. [type |-> type, text |-> text] \in Token
  BY DEF Token
<1> QED
  BY <1>1 DEF AddToken

LEMMA GotoType ==
  ASSUME NEW p \in Nat, Goto(p)
  PROVE  pos' \in Nat /\ unread' \in Char \cup {NoChar}
  BY DEF Goto

LEMMA QuotedType ==
  ASSUME TypeOK
  PROVE  Quoted \in Nat
  BY RunType DEF Quoted, TypeOK

LEMMA NextPreservesInv == Inv /\ [Next]_vars => Inv'
<1> SUFFICES ASSUME Inv, [Next]_vars PROVE Inv'
  OBVIOUS
<1>1. file \in Seq(Char) /\ pos \in Nat /\ TypeOK
  BY DEF Inv, TypeOK
<1>2. ASSUME NEW c \in PunctuationMarks, Mark(c)
      PROVE  Inv'
  <2>1. MarkType(c) \in TokenTypes /\ c \in Char
    BY DEF PunctuationMarks, MarkType, TokenTypes, Char, Ascii
  <2>2. <<c>> \in Seq(Char \cup {EOF}) /\ pos + 1 \in Nat
    BY <1>1, <2>1
  <2>3. \E token \in Token : tokens' = Append(tokens, token)
    BY <1>2, <2>1, <2>2, AddTokenType DEF Mark
  <2>4. pos' \in Nat /\ unread' \in Char \cup {NoChar}
    BY <1>2, <2>2, GotoType DEF Mark
  <2> QED
    BY <1>2, <2>3, <2>4, BranchPreservesInv DEF Mark, Reading
<1>3. ASSUME NEW type \in KeywordTypes, Keyword(type)
      PROVE  Inv'
  <2>1. Spelling(type) \in Seq(Char) /\ Len(Spelling(type)) \in {4, 5}
    BY SpellingType
  <2>2. Spelling(type) \in Seq(Char \cup {EOF}) /\ type \in TokenTypes
    BY <2>1 DEF TokenTypes
  <2>3. \E token \in Token : tokens' = Append(tokens, token)
    BY <1>3, <2>2, AddTokenType DEF Keyword
  <2>4. pos' \in Nat /\ unread' \in Char \cup {NoChar}
    BY <1>1, <1>3, <2>1 DEF Keyword
  <2> QED
    BY <1>3, <2>3, <2>4, BranchPreservesInv DEF Keyword, Reading
<1>4. ASSUME NEW type \in KeywordTypes, NotKeyword(type)
      PROVE  Inv'
  <2>1. pos + Matched(type) \in Nat /\ -(Matched(type) + 1) \in Int
    BY <1>1, MatchedType
  <2>2. After(pos + Matched(type)) \in Nat /\ -(Matched(type) + 1) \in Int
    BY <1>1, <2>1, AfterType
  <2>3. pos' \in Nat /\ unread' \in Char \cup {NoChar}
    BY <1>4, <2>2, SeekType, GotoType DEF NotKeyword
  <2> QED
    BY <1>4, <2>3, BranchPreservesInv DEF NotKeyword, Reading
<1>5. CASE Space
  <2>1. pos + 1 \in Nat
    BY <1>1
  <2> QED
    BY <1>5, <2>1, GotoType, BranchPreservesInv DEF Space, Reading
<1>6. CASE Number
  <2> DEFINE length == Run(pos, Digits \cup {"."})
             end == Seek(After(pos + length), -1)
             start == Seek(end, -length)
  <2>1. length \in Nat /\ Len(file) \in Nat
    BY <1>1, RunType
  <2> HIDE DEF length
  <2>2. pos + length \in Nat /\ -length \in Int /\ -1 \in Int
    BY <1>1, <2>1
  <2>3. After(pos + length) \in Nat
    BY <1>1, <2>2, AfterType
  <2>4. end \in Nat
    BY <2>2, <2>3, SeekType
  <2> HIDE DEF end
  <2>5. start \in Nat
    BY <2>2, <2>4, SeekType
  <2> HIDE DEF start
  <2>6. Read(start, length) \in Seq(Char \cup {EOF})
    BY <1>1, <2>1, <2>5, ReadType
  <2>7. /\ AddToken("NUMBER", Read(start, length))
        /\ Goto(IF start + length < Len(file) THEN start + length ELSE Len(file))
    BY <1>6 DEF Number, length, end, start
  <2>8. \E token \in Token : tokens' = Append(tokens, token)
    BY <2>6, <2>7, AddTokenType DEF TokenTypes
  <2>9. pos' \in Nat /\ unread' \in Char \cup {NoChar}
    BY <2>1, <2>5, <2>7, GotoType
  <2> QED
    BY <1>6, <2>8, <2>9, BranchPreservesInv DEF Number, Reading
<1>7. CASE String
  <2>1. Quoted \in Nat
    BY <1>1, QuotedType
  <2>2. Read(pos, Quoted + 2) \in Seq(Char \cup {EOF}) /\ pos + Quoted + 2 \in Nat
    BY <1>1, <2>1, ReadType
  <2>3. \E token \in Token : tokens' = Append(tokens, token)
    BY <1>7, <2>2, AddTokenType DEF String, TokenTypes
  <2>4. pos' \in Nat /\ unread' \in Char \cup {NoChar}
    BY <1>7, <2>2, GotoType DEF String
  <2> QED
    BY <1>7, <2>3, <2>4, BranchPreservesInv DEF String, Reading
<1>8. CASE NotString
  <2>1. Quoted \in Nat
    BY <1>1, QuotedType
  <2>2. After(pos + 1 + Quoted) \in Nat /\ -(Quoted + 1) \in Int
    BY <1>1, <2>1, AfterType
  <2>3. pos' \in Nat /\ unread' \in Char \cup {NoChar}
    BY <1>8, <2>2, SeekType, GotoType DEF NotString
  <2> QED
    BY <1>8, <2>3, BranchPreservesInv DEF NotString, Reading
<1>9. CASE Invalid
  <2>1. After(pos + 1) \in Nat
    BY <1>1, AfterType
  <2> QED
    BY <1>9, <2>1, GotoType, BranchPreservesInv DEF Invalid
<1>10. CASE EndOfFile
  BY <1>10 DEF EndOfFile, Inv, TypeOK, WithinCapacity
<1>11. CASE UNCHANGED vars
  BY <1>11 DEF vars, Inv, TypeOK, WithinCapacity
<1> QED
  BY <1>2, <1>3, <1>4, <1>5, <1>6, <1>7, <1>8, <1>9, <1>10, <1>11 DEF Next

LEMMA StartEstablishesInv == Start(file) /\ file \in Seq(Char) => Inv
BY Capacities DEF Start, Inv, TypeOK, WithinCapacity

\* A loop that begins has a file that is one of the files.
LEMMA InitStarts == Init => Start(file) /\ file \in Seq(Char)
BY FilesType DEF Init, Start

LEMMA InitEstablishesInv == Init => Inv
BY StartEstablishesInv, InitStarts

\* The variables have their types, whatever the file: no read of the loop, forwards or
\* backwards, takes the stream before the beginning of the file (Seek, of 77, 92, 234).
THEOREM LexerTypes == Spec => []TypeOK
<1>1. Inv => TypeOK
  BY DEF Inv
<1> QED
  BY InitEstablishesInv, NextPreservesInv, <1>1, PTL DEF Spec

\* No token is written past the buffer, whatever the file: the buffer is grown
\* before every branch, and a branch adds one token (tokenizer.cpp:137-145,
\* 160).
THEOREM TokensFit == Spec => []WithinCapacity
<1>1. Inv => WithinCapacity
  BY DEF Inv
<1> QED
  BY InitEstablishesInv, NextPreservesInv, <1>1, PTL DEF Spec

-----------------------------------------------------------------------------
(***************************************************************************)
(* What follows a keyword.                                                 *)
(***************************************************************************)

LastType == tokens[Len(tokens)].type

\* Where the stream is when a keyword is the last token: its first letter has
\* taken the place of its last one, or the next match has failed and the stream
\* is at one of its letters, with which nothing begins.
AtKeywordEnd ==
  tokens # <<>> /\ LastType \in KeywordTypes /\ status = "lexing" =>
    LET word == Spelling(LastType) IN
    \/ /\ unread = Head(word) /\ pos \in Nat \ {0}
       /\ CharAt(pos) = word[Len(word)] /\ CharAt(pos - 1) = word[Len(word) - 1]
    \/ unread = NoChar /\ CharAt(pos) \in {"u", "e", "l", "s"}

\* The keyword's first letter is left in the stream (192, 203, 212), so that
\* nothing that follows a keyword is read: what comes after a keyword can only
\* be the same keyword, completed from its own first letter.
KeywordIsTerminal ==
  \A k \in 1 .. Len(tokens) - 1 :
    tokens[k].type \in KeywordTypes => tokens[k + 1].type = tokens[k].type

KeywordInv == Inv /\ KeywordIsTerminal /\ AtKeywordEnd

\* A keyword's last letters begin nothing.
LEMMA SpellingEnds ==
  ASSUME NEW type \in KeywordTypes
  PROVE  /\ Spelling(type)[Len(Spelling(type))] \in {"e", "l"}
         /\ Spelling(type)[Len(Spelling(type)) - 1] \in {"u", "s", "l"}
<1>1. CASE type = "TRUE"
  BY <1>1 DEF Spelling
<1>2. CASE type = "FALSE"
  BY <1>2 DEF Spelling
<1>3. CASE type = "NULL"
  BY <1>3 DEF Spelling
<1> QED
  BY <1>1, <1>2, <1>3 DEF KeywordTypes

LEMMA HeadsDiffer ==
  ASSUME NEW s \in KeywordTypes, NEW t \in KeywordTypes, Head(Spelling(s)) = Head(Spelling(t))
  PROVE  s = t
<1>1. Head(Spelling("TRUE")) = "t" /\ Head(Spelling("FALSE")) = "f" /\ Head(Spelling("NULL")) = "n"
  BY DEF Spelling
<1> QED
  BY <1>1 DEF KeywordTypes

\* After a keyword only the same keyword, a failed match of it, or an invalid
\* character can be read.
LEMMA AfterKeyword ==
  ASSUME KeywordInv, tokens # <<>>, LastType \in KeywordTypes, status = "lexing", Next
  PROVE  \/ Keyword(LastType)
         \/ (NotKeyword(LastType) /\ unread = Head(Spelling(LastType)))
         \/ Invalid
<1> DEFINE head == Head(Spelling(LastType))
<1>1. (Next1 = head /\ unread = head) \/ Next1 \in {"u", "e", "l", "s"}
  <2>1. head \in {"t", "f", "n"}
    BY SpellingType
  <2> QED
    BY <2>1 DEF KeywordInv, AtKeywordEnd, Next1, NoChar
<1>2. head \in {"t", "f", "n"}
  BY SpellingType
<1>3. Next1 \notin PunctuationMarks \cup Digits \cup Spaces \cup {"\"", EOF}
  BY <1>1, <1>2 DEF PunctuationMarks, Digits, Spaces, EOF
<1>4. \A c \in PunctuationMarks : ~Mark(c)
  BY <1>3 DEF Mark, Reading
<1>5. ~Space /\ ~Number /\ ~String /\ ~NotString /\ ~EndOfFile
  BY <1>3 DEF Space, Number, String, NotString, EndOfFile, Reading
<1>6. ASSUME NEW type \in KeywordTypes, Keyword(type) \/ NotKeyword(type)
      PROVE  type = LastType /\ unread = head
  <2>1. Next1 = Head(Spelling(type)) /\ Next1 \in {"t", "f", "n"}
    BY <1>6, SpellingType DEF Keyword, NotKeyword, Reading
  <2> QED
    BY <1>1, <2>1, HeadsDiffer
<1> QED
  BY <1>4, <1>5, <1>6 DEF Next

\* A keyword leaves the stream at its last letter, its first one put back.
LEMMA KeywordLeaves ==
  ASSUME TypeOK, NEW type \in KeywordTypes, Keyword(type)
  PROVE  AtKeywordEnd'
<1> DEFINE word == Spelling(type)
           len == Len(word)
<1>1. len \in {4, 5} /\ pos \in Nat
  BY SpellingType DEF TypeOK
<1>2. \A k \in 2 .. len : CharAt(pos + k - 1) = word[k]
  BY MatchedType DEF Keyword
<1>3. pos' = pos + len - 1 /\ unread' = Head(word) /\ file' = file
  BY DEF Keyword, Reading
<1>4. /\ pos' = pos + len - 1 /\ pos' \in Nat \ {0}
      /\ pos' - 1 = pos + (len - 1) - 1 /\ len \in 2 .. len /\ len - 1 \in 2 .. len
  <2> HIDE DEF len
  <2> QED
    BY <1>1, <1>3
<1>5. CharAt(pos') = word[len] /\ CharAt(pos' - 1) = word[len - 1]
  <2> HIDE DEF word, len
  <2> QED
    BY <1>2, <1>4
<1>6. CharAt(pos)' = CharAt(pos') /\ CharAt(pos - 1)' = CharAt(pos' - 1)
  BY <1>3 DEF CharAt
<1>7. tokens \in Seq(Token) /\ tokens' = Append(tokens, [type |-> type, text |-> word])
  BY DEF Keyword, AddToken, TypeOK
<1>8. LastType' = type
  BY <1>7 DEF LastType
<1> QED
  BY <1>3, <1>4, <1>5, <1>6, <1>8 DEF AtKeywordEnd, CharAt

\* A failed match after a keyword leaves it at one of the keyword's letters.
LEMMA NotKeywordLeaves ==
  ASSUME KeywordInv, tokens # <<>>, LastType \in KeywordTypes,
         NotKeyword(LastType), unread = Head(Spelling(LastType))
  PROVE  unread' = NoChar /\ CharAt(pos)' \in {"u", "e", "l", "s"}
<1> DEFINE word == Spelling(LastType)
           matched == Matched(LastType)
<1>1. /\ pos \in Nat \ {0} /\ CharAt(pos) = word[Len(word)]
      /\ CharAt(pos - 1) = word[Len(word) - 1] /\ unread' = NoChar
  <2>1. status = "lexing" /\ unread # NoChar
    BY SpellingType DEF NotKeyword, Reading, NoChar
  <2> QED
    BY <2>1 DEF KeywordInv, AtKeywordEnd, NotKeyword, Goto
<1>2. CharAt(pos) \in {"u", "e", "l", "s"} /\ CharAt(pos - 1) \in {"u", "e", "l", "s"}
  BY <1>1, SpellingEnds
<1>3. matched \in Nat /\ file \in Seq(Char)
  BY MatchedType DEF KeywordInv, Inv, TypeOK
<1>4. pos' = Seek(After(pos + matched), -(matched + 1)) /\ file' = file
  BY DEF NotKeyword, Reading, Goto
<1> HIDE DEF matched
<1>5. pos' \in {pos, pos - 1}
  <2>1. CASE pos + matched < Len(file)
    BY <1>1, <1>3, <1>4, <2>1 DEF Seek, After
  <2>2. CASE ~(pos + matched < Len(file))
    BY <1>1, <1>3, <1>4, <2>2 DEF Seek, After
  <2> QED
    BY <2>1, <2>2
<1> QED
  BY <1>1, <1>2, <1>4, <1>5 DEF CharAt

LEMMA KeywordInvKept == KeywordInv /\ [Next]_vars => KeywordInv'
<1> SUFFICES ASSUME KeywordInv, [Next]_vars PROVE KeywordInv'
  OBVIOUS
<1>1. Inv' /\ Inv
  BY NextPreservesInv DEF KeywordInv
<1>2. tokens \in Seq(Token)
  BY <1>1 DEF Inv, TypeOK
<1>3. CASE UNCHANGED vars
  BY <1>1, <1>3 DEF vars, KeywordInv, KeywordIsTerminal, AtKeywordEnd, LastType, CharAt
<1>4. CASE Next /\ tokens # <<>> /\ LastType \in KeywordTypes
  <2>1. status = "lexing"
    BY <1>4 DEF Next, Mark, Keyword, NotKeyword, Space, Number, String, NotString, Invalid,
                EndOfFile, Reading
  <2>2. CASE Keyword(LastType)
    <3>1. AtKeywordEnd'
      BY <1>1, <1>4, <2>2, KeywordLeaves DEF Inv
    <3>2. tokens' = Append(tokens, [type |-> LastType, text |-> Spelling(LastType)])
      BY <2>2 DEF Keyword, AddToken
    <3>3. KeywordIsTerminal'
      BY <1>2, <1>4, <3>2 DEF KeywordInv, KeywordIsTerminal, LastType
    <3> QED
      BY <1>1, <3>1, <3>3 DEF KeywordInv
  <2>3. CASE NotKeyword(LastType) /\ unread = Head(Spelling(LastType))
    <3>1. unread' = NoChar /\ CharAt(pos)' \in {"u", "e", "l", "s"} /\ tokens' = tokens
      BY <1>4, <2>3, NotKeywordLeaves DEF NotKeyword
    <3> QED
      BY <1>1, <3>1 DEF KeywordInv, KeywordIsTerminal, AtKeywordEnd
  <2>4. CASE Invalid
    BY <1>1, <2>4 DEF Invalid, KeywordInv, KeywordIsTerminal, AtKeywordEnd
  <2> QED
    BY <1>4, <2>1, <2>2, <2>3, <2>4, AfterKeyword
<1>5. CASE Next /\ ~(tokens # <<>> /\ LastType \in KeywordTypes)
  <2>1. CASE tokens' = tokens
    BY <1>1, <1>5, <2>1 DEF KeywordInv, KeywordIsTerminal, AtKeywordEnd, LastType
  <2>2. ASSUME NEW token \in Token, tokens' = Append(tokens, token)
        PROVE  KeywordIsTerminal'
    BY <1>2, <1>5, <2>2 DEF KeywordInv, KeywordIsTerminal, LastType
  <2>3. ASSUME NEW type \in KeywordTypes, Keyword(type)
        PROVE  KeywordInv'
    <3>1. AtKeywordEnd'
      BY <1>1, <2>3, KeywordLeaves DEF Inv
    <3>2. type \in TokenTypes /\ Spelling(type) \in Seq(Char \cup {EOF})
      BY SpellingType DEF TokenTypes
    <3>3. KeywordIsTerminal'
      BY <2>2, <2>3, <3>2, AddTokenType DEF Keyword
    <3> QED
      BY <1>1, <3>1, <3>3 DEF KeywordInv
  <2>4. ASSUME NEW type \in TokenTypes \ KeywordTypes, NEW text, AddToken(type, text)
        PROVE  KeywordInv'
    <3>1. tokens' = Append(tokens, [type |-> type, text |-> text])
      BY <2>4 DEF AddToken
    <3>2. LastType' = type
      BY <1>2, <3>1 DEF LastType
    <3>3. KeywordIsTerminal'
      BY <1>2, <1>5, <3>1 DEF KeywordInv, KeywordIsTerminal, LastType
    <3> QED
      BY <1>1, <2>4, <3>2, <3>3 DEF KeywordInv, AtKeywordEnd
  <2>5. ASSUME NEW c \in PunctuationMarks, Mark(c)
        PROVE  KeywordInv'
    <3>1. MarkType(c) \in TokenTypes \ KeywordTypes
      BY DEF PunctuationMarks, MarkType, TokenTypes, KeywordTypes
    <3> QED
      BY <2>4, <2>5, <3>1 DEF Mark
  <2>6. CASE Number
    BY <2>4, <2>6 DEF Number, TokenTypes, KeywordTypes
  <2>7. CASE String
    BY <2>4, <2>7 DEF String, TokenTypes, KeywordTypes
  <2>8. CASE Space \/ NotString \/ Invalid \/ EndOfFile
                  \/ (\E type \in KeywordTypes : NotKeyword(type))
    BY <2>1, <2>8 DEF Space, NotString, Invalid, EndOfFile, NotKeyword
  <2> QED
    BY <1>5, <2>3, <2>5, <2>6, <2>7, <2>8 DEF Next
<1> QED
  BY <1>3, <1>4, <1>5

LEMMA StartEstablishesKeywordInv == Start(file) /\ file \in Seq(Char) => KeywordInv
<1> SUFFICES ASSUME Start(file), file \in Seq(Char) PROVE KeywordInv
  OBVIOUS
<1>1. Inv /\ tokens = <<>>
  BY StartEstablishesInv DEF Start
<1> QED
  BY <1>1 DEF KeywordInv, KeywordIsTerminal, AtKeywordEnd

\* Whatever the file, nothing but the rest of the same keyword is ever read
\* after a keyword: true, false and null end the reading of a document
\* (tokenizer.cpp:192, 203 and 212), although the parser takes them inside
\* containers (parser.cpp:243-267).
THEOREM KeywordsEndReading == Spec => []KeywordIsTerminal
<1>1. Init => KeywordInv
  BY InitStarts, StartEstablishesKeywordInv
<1>2. KeywordInv => KeywordIsTerminal
  BY DEF KeywordInv
<1> QED
  BY <1>1, KeywordInvKept, <1>2, PTL DEF Spec

-----------------------------------------------------------------------------
(***************************************************************************)
(* Dead ends: what the file is like there, and where the branches that     *)
(* move backwards lead.                                                    *)
(***************************************************************************)

\* What a lexeme may end with, and what nothing begins with.
LexemeEnds == {"\""} \cup NumberChars \cup Spaces \cup PunctuationMarks
Idle == {"u", "e", "l", "s", ".", EOF}

\* The first m characters of a word are at p.
Agrees(p, word, m) ==
  /\ CharAt(p) = Head(word)
  /\ \A k \in 2 .. m : CharAt(p + k - 1) = word[k]

\* The dead ends, as the file has them: a string that is not closed, a word that goes
\* on as no keyword or is cut off by the end of the file, and a number that ends with
\* the file.
OpenString(p) == CharAt(p) = "\"" /\ \A k \in p + 1 .. Len(file) - 1 : CharAt(k) \in InString

OtherWord(p) ==
  \E type \in KeywordTypes : \E m \in 1 .. Len(Spelling(type)) - 1 :
    Agrees(p, Spelling(type), m) /\ CharAt(p + m) \notin {Spelling(type)[m + 1], EOF}

CutWord(p) ==
  \E type \in KeywordTypes : \E m \in 1 .. Len(Spelling(type)) - 1 :
    Agrees(p, Spelling(type), m) /\ CharAt(p + m) = EOF

LastNumber(p) ==
  /\ p > 0 /\ p < Len(file) /\ CharAt(p) \in Digits
  /\ \A k \in p .. Len(file) - 1 : CharAt(k) \in NumberChars
  /\ CharAt(Len(file) - 1) \in Digits

\* From a word that is cut off the stream goes back behind the lexeme before it.
StuckAt(p) ==
  \/ OpenString(p) \/ OtherWord(p) \/ LastNumber(p)
  \/ CutWord(p) /\ p > 0 /\ CharAt(p - 1) \in LexemeEnds \ {"."}
  \/ CutWord(p + 1) /\ CharAt(p) \in Digits \cup Spaces \cup PunctuationMarks

Stuck == status = "lexing" /\ unread = NoChar /\ StuckAt(pos)

\* Where the stream may be: with the first letter of a keyword in the place of the
\* last, or behind a lexeme, or where nothing begins, or stuck.
AtLexeme ==
  status = "lexing" =>
    /\ pos <= Len(file)
    /\ unread # NoChar =>
         \E type \in KeywordTypes :
           LET word == Spelling(type) IN
           /\ unread = Head(word) /\ pos > 0
           /\ CharAt(pos) = word[Len(word)] /\ CharAt(pos - 1) = word[Len(word) - 1]
    /\ unread = NoChar /\ pos > 0 =>
         CharAt(pos - 1) \in LexemeEnds \/ CharAt(pos) \in Idle \/ StuckAt(pos)

DeadEndInv == TypeOK /\ AtLexeme

\* A step to a place where the stream is stuck.
LEMMA StuckGoto ==
  ASSUME NEW p, StuckAt(p), Goto(p), UNCHANGED <<file, status>>, status = "lexing"
  PROVE  Stuck'
<1>1. pos' = p /\ file' = file
  BY DEF Goto
<1>2. OpenString(pos)' <=> OpenString(p)
  BY <1>1 DEF OpenString, CharAt
<1>3. OtherWord(pos)' <=> OtherWord(p)
  BY <1>1 DEF OtherWord, Agrees, CharAt
<1>4. CutWord(pos)' <=> CutWord(p)
  BY <1>1 DEF CutWord, Agrees, CharAt
<1>5. CutWord(pos + 1)' <=> CutWord(p + 1)
  BY <1>1 DEF CutWord, Agrees, CharAt
<1>6. LastNumber(pos)' <=> LastNumber(p)
  BY <1>1 DEF LastNumber, CharAt
<1>7. CharAt(pos)' = CharAt(p) /\ CharAt(pos - 1)' = CharAt(p - 1)
  BY <1>1 DEF CharAt
<1>8. StuckAt(pos)'
  BY <1>1, <1>2, <1>3, <1>4, <1>5, <1>6, <1>7 DEF StuckAt
<1> QED
  BY <1>8 DEF Stuck, Goto

\* Where the loop goes from a word that is no keyword.
LEMMA NotKeywordGoes ==
  ASSUME TypeOK, NEW type \in KeywordTypes, NotKeyword(type), unread = NoChar
  PROVE  \/ OtherWord(pos) /\ Goto(pos)
         \/ CutWord(pos) /\ (pos > 0 => Goto(pos - 1)) /\ (pos = 0 => Goto(Len(file)))
<1> DEFINE word == Spelling(type)
           m == Matched(type)
<1>1. pos \in Nat /\ file \in Seq(Char) /\ Len(file) \in Nat
  BY DEF TypeOK
<1>2. /\ m \in 1 .. Len(word) - 1
      /\ \A k \in 2 .. m : CharAt(pos + k - 1) = word[k]
      /\ CharAt(pos + m) # word[m + 1]
  BY <1>1, MatchedStops, SpellingType DEF NotKeyword
<1>3. CharAt(pos) = Head(word) /\ Goto(Seek(After(pos + m), -(m + 1)))
  BY DEF NotKeyword, Reading, Next1
<1>4. Agrees(pos, word, m)
  BY <1>2, <1>3 DEF Agrees
<1>5. m \in Nat /\ m >= 1
  BY <1>2, SpellingType
<1>6. CASE CharAt(pos + m) # EOF
  <2>1. pos + m < Len(file)
    BY <1>6 DEF CharAt
  <2>2. Seek(After(pos + m), -(m + 1)) = pos
    <3> HIDE DEF m
    <3> QED
      BY <1>1, <1>5, <2>1 DEF Seek, After
  <2>3. OtherWord(pos)
    BY <1>2, <1>4, <1>6 DEF OtherWord
  <2> QED
    BY <1>3, <2>2, <2>3
<1>7. CASE CharAt(pos + m) = EOF
  <2>1. CutWord(pos)
    BY <1>2, <1>4, <1>7 DEF CutWord
  <2>2. pos + m >= Len(file)
    <3>1. ASSUME pos + m < Len(file)
          PROVE  FALSE
      <4>1. pos + m + 1 \in 1 .. Len(file)
        BY <1>1, <1>5, <3>1
      <4>2. file[pos + m + 1] \in Char
        BY <1>1, <4>1
      <4> QED
        BY <1>7, <3>1, <4>2 DEF CharAt, EOF, Char, Ascii, Digits, Spaces, PunctuationMarks, Letters
    <3> HIDE DEF m
    <3> QED
      BY <1>1, <1>5, <3>1
  <2>3. After(pos + m) = pos + m
    <3> HIDE DEF m
    <3> QED
      BY <1>1, <1>5, <2>2 DEF After
  <2>4. pos > 0 => Seek(After(pos + m), -(m + 1)) = pos - 1
    <3> HIDE DEF m
    <3> QED
      BY <1>1, <1>5, <2>3 DEF Seek
  <2>5. CharAt(pos + m - 1) # EOF
    <3>1. CASE m = 1
      BY <1>1, <1>3, <3>1, SpellingType DEF EOF
    <3>2. CASE m # 1
      <4>1. m \in 2 .. m
        BY <1>5, <3>2
      <4>2. word[m] \in Letters
        BY <1>2, SpellingLetters, SpellingType
      <4> QED
        BY <1>2, <4>1, <4>2 DEF EOF, Letters
    <3> QED
      BY <3>1, <3>2
  <2>6. pos = 0 => Seek(After(pos + m), -(m + 1)) = Len(file)
    <3>1. pos + m - 1 < Len(file)
      BY <2>5 DEF CharAt
    <3> HIDE DEF m
    <3> QED
      BY <1>1, <1>5, <2>2, <2>3, <3>1 DEF Seek
  <2> HIDE DEF m
  <2> QED
    BY <1>3, <2>1, <2>4, <2>6
<1> QED
  BY <1>6, <1>7

\* Where it goes from a number.
LEMMA NumberGoes ==
  ASSUME TypeOK, Number, unread = NoChar
  PROVE  LET length == Run(pos, NumberChars) IN
         /\ length \in Nat \ {0} /\ pos + length <= Len(file)
         /\ \A k \in 0 .. length - 1 : CharAt(pos + k) \in NumberChars
         /\ CharAt(pos) \in Digits
         /\ \/ /\ pos + length < Len(file) /\ CharAt(pos + length) \notin NumberChars
               /\ AddToken("NUMBER", Read(pos, length)) /\ Goto(pos + length)
            \/ pos + length = Len(file) /\ pos > 0 /\ Goto(Len(file) - 1)
            \/ pos + length = Len(file) /\ pos = 0 /\ Goto(Len(file))
<1> DEFINE length == Run(pos, NumberChars)
           end == Seek(After(pos + length), -1)
           start == Seek(end, -length)
<1>1. pos \in Nat /\ file \in Seq(Char) /\ Len(file) \in Nat
  BY DEF TypeOK
<1>2. /\ CharAt(pos) \in Digits /\ AddToken("NUMBER", Read(start, length))
      /\ Goto(IF start + length < Len(file) THEN start + length ELSE Len(file))
  BY DEF Number, Reading, Next1, NumberChars
<1>3. pos < Len(file)
  BY <1>2 DEF CharAt, Digits, EOF
<1>4. /\ length \in Nat /\ pos + length <= Len(file)
      /\ \A k \in 0 .. length - 1 : CharAt(pos + k) \in NumberChars
      /\ CharAt(pos + length) \notin NumberChars
  <2>1. EOF \notin NumberChars
    BY DEF EOF, NumberChars, Digits
  <2> HIDE DEF length
  <2> QED
    BY <1>1, <1>3, <2>1, RunStops DEF length
<1> HIDE DEF length
<1>5. length # 0
  <2>1. CASE length = 0
    <3>1. pos + length = pos
      BY <1>1, <2>1
    <3> QED
      BY <1>2, <1>4, <3>1 DEF NumberChars
  <2> QED
    BY <2>1
<1>6. CASE pos + length < Len(file)
  <2>1. end = pos + length /\ start = pos
    BY <1>1, <1>4, <1>6 DEF Seek, After
  <2> QED
    BY <1>2, <1>4, <1>5, <1>6, <2>1 DEF length
<1>7. CASE pos + length = Len(file) /\ pos > 0
  <2>1. end = Len(file) - 1 /\ start = pos - 1
    BY <1>1, <1>4, <1>7 DEF Seek, After
  <2>2. start + length = Len(file) - 1 /\ start + length < Len(file)
    BY <1>1, <1>4, <1>7, <2>1
  <2>3. Goto(Len(file) - 1)
    BY <1>2, <2>2
  <2> QED
    BY <1>2, <1>4, <1>5, <1>7, <2>3 DEF length
<1>8. CASE pos + length = Len(file) /\ pos = 0
  <2>1. end = Len(file) - 1 /\ start = Len(file) - 1
    BY <1>1, <1>4, <1>5, <1>8 DEF Seek, After
  <2>2. ~(start + length < Len(file))
    BY <1>1, <1>4, <1>5, <1>8, <2>1
  <2>3. Goto(Len(file))
    BY <1>2, <2>2
  <2> QED
    BY <1>2, <1>4, <1>5, <1>8, <2>3 DEF length
<1> QED
  BY <1>1, <1>4, <1>6, <1>7, <1>8

\* And from a quote: to the end of the string, or to where it was or one on.
LEMMA QuoteGoes ==
  ASSUME TypeOK, String \/ NotString, unread = NoChar
  PROVE  /\ CharAt(pos) = "\"" /\ pos < Len(file)
         /\ \/ /\ String /\ Quoted \in Nat /\ pos + Quoted + 2 <= Len(file)
               /\ CharAt(pos + Quoted + 2 - 1) = "\""
            \/ NotString /\ OpenString(pos) /\ Goto(pos)
            \/ NotString /\ Goto(pos + 1)
<1>1. pos \in Nat /\ file \in Seq(Char) /\ Len(file) \in Nat
  BY DEF TypeOK
<1>2. CharAt(pos) = "\""
  BY DEF String, NotString, Reading, Next1
<1>3. pos < Len(file)
  BY <1>2 DEF CharAt, EOF
<1>4. /\ Quoted \in Nat /\ (pos + 1) + Quoted <= Len(file)
      /\ \A k \in 0 .. Quoted - 1 : CharAt((pos + 1) + k) \in InString
  <2>1. EOF \notin InString /\ pos + 1 \in Nat /\ pos + 1 <= Len(file)
    BY <1>1, <1>3 DEF EOF, InString, Ascii, Digits, Spaces, PunctuationMarks, Letters
  <2> QED
    BY <1>1, <2>1, RunStops DEF Quoted
<1>5. CASE String
  <2>1. CharAt(pos + 1 + Quoted) = "\""
    BY <1>5 DEF String
  <2>2. pos + 1 + Quoted < Len(file)
    BY <2>1 DEF CharAt, EOF
  <2>3. pos + 1 + Quoted = pos + Quoted + 2 - 1 /\ pos + Quoted + 2 <= Len(file)
    BY <1>1, <1>4, <2>2
  <2>4. CharAt(pos + Quoted + 2 - 1) = "\""
    BY <2>1, <2>3
  <2> QED
    BY <1>2, <1>3, <1>4, <1>5, <2>3, <2>4
<1>6. CASE NotString /\ pos + 1 + Quoted < Len(file)
  <2>1. Seek(After(pos + 1 + Quoted), -(Quoted + 1)) = pos + 1
    BY <1>1, <1>4, <1>6 DEF Seek, After
  <2> QED
    BY <1>2, <1>3, <1>6, <2>1 DEF NotString
<1>7. CASE NotString /\ ~(pos + 1 + Quoted < Len(file))
  <2>1. pos + 1 + Quoted = Len(file)
    BY <1>1, <1>4, <1>7
  <2>2. Seek(After(pos + 1 + Quoted), -(Quoted + 1)) = pos
    BY <1>1, <1>4, <2>1 DEF Seek, After
  <2>3. ASSUME NEW k \in pos + 1 .. Len(file) - 1
        PROVE  CharAt(k) \in InString
    <3>1. k - (pos + 1) \in 0 .. Quoted - 1 /\ (pos + 1) + (k - (pos + 1)) = k
      BY <1>1, <1>4, <2>1
    <3> QED
      BY <1>4, <3>1
  <2>4. OpenString(pos)
    BY <1>2, <2>3 DEF OpenString
  <2> QED
    BY <1>2, <1>3, <1>7, <2>2, <2>4 DEF NotString
<1> QED
  BY <1>5, <1>6, <1>7

LEMMA CharAtFile ==
  ASSUME TypeOK, NEW p \in Nat, CharAt(p) # EOF
  PROVE  p < Len(file)
  BY DEF CharAt

LEMMA AtDeadEndIsStuck ==
  ASSUME DeadEndInv, AtDeadEnd
  PROVE  Stuck
<1>1. /\ pos \in Nat /\ file \in Seq(Char) /\ Len(file) \in Nat /\ TypeOK
      /\ status = "lexing" /\ unread = NoChar
  <2>1. TypeOK /\ status = "lexing" /\ unread = NoChar
    BY DEF DeadEndInv, AtDeadEnd
  <2> QED
    BY <2>1 DEF TypeOK
<1>2. ASSUME CharAt(pos) = "\"", CharAt(pos + 1 + Quoted) = EOF
      PROVE  StuckAt(pos)
  <2>1. pos + 1 <= Len(file) /\ pos + 1 \in Nat
    <3>1. pos < Len(file)
      BY <1>2 DEF CharAt, EOF
    <3> QED
      BY <1>1, <3>1
  <2>2. /\ Quoted \in Nat /\ (pos + 1) + Quoted <= Len(file)
        /\ \A k \in 0 .. Quoted - 1 : CharAt((pos + 1) + k) \in InString
    <3>1. EOF \notin InString
      BY DEF EOF, InString, Ascii, Digits, Spaces, PunctuationMarks, Letters
    <3> QED
      BY <1>1, <2>1, <3>1, RunStops DEF Quoted
  <2>3. pos + 1 + Quoted = Len(file)
    <3>1. ASSUME pos + 1 + Quoted < Len(file)
          PROVE  FALSE
      <4>1. file[pos + 1 + Quoted + 1] \in Char
        BY <1>1, <2>2, <3>1
      <4> QED
        BY <1>2, <3>1, <4>1 DEF CharAt, EOF, Char, Ascii, Digits, Spaces, PunctuationMarks, Letters
    <3> QED
      BY <1>1, <2>2, <3>1
  <2>4. ASSUME NEW k \in pos + 1 .. Len(file) - 1
        PROVE  CharAt(k) \in InString
    <3>1. k - (pos + 1) \in 0 .. Quoted - 1 /\ (pos + 1) + (k - (pos + 1)) = k
      BY <1>1, <2>2, <2>3
    <3> QED
      BY <2>2, <3>1
  <2> QED
    BY <1>2, <2>4 DEF StuckAt, OpenString
<1>3. ASSUME NEW type \in KeywordTypes, CharAt(pos) = Head(Spelling(type)),
             Matched(type) < Len(Spelling(type)),
             CharAt(pos + Matched(type)) = EOF => pos > 0 /\ file[pos] # "."
      PROVE  StuckAt(pos)
  <2> DEFINE m == Matched(type)
  <2>1. /\ m \in 1 .. Len(Spelling(type)) - 1
        /\ Agrees(pos, Spelling(type), m) /\ CharAt(pos + m) # Spelling(type)[m + 1]
    BY <1>1, <1>3, MatchedStops, SpellingType DEF Agrees
  <2>2. CASE CharAt(pos + m) # EOF
    BY <2>1, <2>2 DEF StuckAt, OtherWord
  <2>3. CASE CharAt(pos + m) = EOF
    <3>1. CutWord(pos) /\ pos > 0 /\ file[pos] # "."
      BY <1>3, <2>1, <2>3 DEF CutWord
    <3>2. CharAt(pos) \in {"t", "f", "n"}
      BY <1>3, SpellingType
    <3>3. pos - 1 < Len(file) /\ (pos - 1) + 1 = pos
      BY <1>1, <3>1, <3>2, CharAtFile DEF EOF
    <3>4. CharAt(pos - 1) # "."
      BY <3>1, <3>3 DEF CharAt
    <3>5. CharAt(pos - 1) \in LexemeEnds \/ StuckAt(pos)
      BY <1>1, <3>1, <3>2 DEF DeadEndInv, AtLexeme, Idle, EOF
    <3> QED
      BY <3>1, <3>4, <3>5 DEF StuckAt
  <2> QED
    BY <2>2, <2>3
<1>4. ASSUME CharAt(pos) \in Digits, pos > 0, CharAt(pos + Run(pos, NumberChars)) = EOF,
             file[Len(file)] \in Digits
      PROVE  StuckAt(pos)
  <2> DEFINE length == Run(pos, NumberChars)
  <2>1. pos < Len(file)
    BY <1>1, <1>4, CharAtFile DEF Digits, EOF
  <2>2. /\ length \in Nat /\ pos + length <= Len(file)
        /\ \A k \in 0 .. length - 1 : CharAt(pos + k) \in NumberChars
    <3>1. EOF \notin NumberChars
      BY DEF EOF, NumberChars, Digits
    <3> QED
      BY <1>1, <2>1, <3>1, RunStops
  <2> HIDE DEF length
  <2>3. pos + length = Len(file)
    <3>1. ASSUME pos + length < Len(file)
          PROVE  FALSE
      <4>1. file[pos + length + 1] \in Char
        BY <1>1, <2>2, <3>1
      <4> QED
        BY <1>4, <3>1, <4>1 DEF CharAt, EOF, Char, Ascii, Digits, Spaces, PunctuationMarks, Letters,
                                length
    <3> QED
      BY <1>1, <2>2, <3>1
  <2>4. ASSUME NEW k \in pos .. Len(file) - 1
        PROVE  CharAt(k) \in NumberChars
    <3>1. k - pos \in 0 .. length - 1 /\ pos + (k - pos) = k
      BY <1>1, <2>2, <2>3
    <3> QED
      BY <2>2, <3>1
  <2>5. CharAt(Len(file) - 1) \in Digits
    BY <1>1, <1>4, <2>1 DEF CharAt
  <2> QED
    BY <1>4, <2>1, <2>4, <2>5 DEF StuckAt, LastNumber
<1> QED
  BY <1>1, <1>2, <1>3, <1>4 DEF AtDeadEnd, Stuck, NumberChars

\* What can be read at the first letter of a word.
LEMMA AtWord ==
  ASSUME TypeOK, unread = NoChar, status = "lexing", Next,
         NEW type \in KeywordTypes, CharAt(pos) = Head(Spelling(type))
  PROVE  Keyword(type) \/ NotKeyword(type)
<1>1. Next1 = Head(Spelling(type)) /\ Next1 \in {"t", "f", "n"}
  BY SpellingType DEF Next1
<1>2. \A c \in PunctuationMarks : ~Mark(c)
  BY <1>1 DEF Mark, Reading, PunctuationMarks
<1>3. ~Space /\ ~Number /\ ~String /\ ~NotString /\ ~EndOfFile /\ ~Invalid
  BY <1>1 DEF Space, Number, String, NotString, EndOfFile, Invalid, Reading, Spaces, Digits, EOF
<1>4. ASSUME NEW t \in KeywordTypes, Keyword(t) \/ NotKeyword(t)
      PROVE  t = type
  <2>1. Next1 = Head(Spelling(t))
    BY <1>4 DEF Keyword, NotKeyword, Reading
  <2> QED
    BY <1>1, <2>1, HeadsDiffer
<1> QED
  BY <1>2, <1>3, <1>4 DEF Next

\* At one of these characters, the branch that reads it.
LEMMA AtOther ==
  ASSUME TypeOK, unread = NoChar, status = "lexing", Next
  PROVE  /\ CharAt(pos) = "\"" => String \/ NotString
         /\ CharAt(pos) \in Digits => Number
         /\ CharAt(pos) \in Spaces => Space
         /\ CharAt(pos) \in PunctuationMarks => Mark(CharAt(pos))
<1>1. Next1 = CharAt(pos)
  BY DEF Next1
<1>2. ASSUME CharAt(pos) \in {"\""} \cup Digits \cup Spaces \cup PunctuationMarks,
             NEW type \in KeywordTypes, Keyword(type) \/ NotKeyword(type)
      PROVE  FALSE
  BY <1>1, <1>2, SpellingType DEF Keyword, NotKeyword, Reading, Digits, Spaces, PunctuationMarks
<1> QED
  BY <1>1, <1>2 DEF Next, Mark, Space, Number, String, NotString, EndOfFile, Invalid, Reading,
    Spaces, Digits, PunctuationMarks, EOF

\* From where it is stuck the stream comes to where it is stuck.
LEMMA StuckKept ==
  ASSUME DeadEndInv, Stuck, [Next]_vars
  PROVE  Stuck'
<1>1. /\ pos \in Nat /\ file \in Seq(Char) /\ Len(file) \in Nat /\ TypeOK
      /\ status = "lexing" /\ unread = NoChar
  <2>1. TypeOK /\ status = "lexing" /\ unread = NoChar
    BY DEF DeadEndInv, Stuck
  <2> QED
    BY <2>1 DEF TypeOK
<1>2. CASE UNCHANGED vars
  <2>1. \E p : p = pos
    OBVIOUS
  <2>2. PICK p : p = pos
    BY <2>1
  <2>3. StuckAt(p) /\ Goto(p)
    BY <1>1, <1>2, <2>2 DEF Stuck, Goto, vars
  <2> QED
    BY <1>1, <1>2, <2>3, StuckGoto DEF vars
<1> SUFFICES ASSUME Next PROVE Stuck'
  BY <1>2
<1>3. ASSUME NEW p, StuckAt(p), Goto(p), UNCHANGED <<file, status>>
      PROVE  Stuck'
  BY <1>1, <1>3, StuckGoto
<1>4. CASE OpenString(pos)
  <2>1. pos < Len(file) /\ (String \/ NotString)
    BY <1>1, <1>4, AtOther DEF OpenString, CharAt, EOF
  <2> DEFINE n == Len(file) - (pos + 1)
  <2>2. n \in Nat /\ (pos + 1) + n = Len(file)
    BY <1>1, <2>1
  <2>3. ASSUME NEW k \in 0 .. n - 1
        PROVE  CharAt((pos + 1) + k) \in InString
    <3>1. (pos + 1) + k \in pos + 1 .. Len(file) - 1
      BY <1>1
    <3> QED
      BY <1>4, <3>1 DEF OpenString
  <2> HIDE DEF n
  <2>4. CharAt((pos + 1) + n) = EOF /\ EOF \notin InString
    BY <1>1, <2>2 DEF CharAt, EOF, InString, Ascii, Digits, Spaces, PunctuationMarks, Letters
  <2>5. Quoted = n
    <3>1. pos + 1 \in Nat /\ (pos + 1) + n <= Len(file)
      BY <1>1, <2>2
    <3> QED
      BY <1>1, <2>2, <2>3, <2>4, <3>1, RunIs DEF Quoted
  <2>6. NotString
    BY <2>1, <2>4, <2>5 DEF String, EOF
  <2>7. Seek(After(pos + 1 + Quoted), -(Quoted + 1)) = pos
    BY <1>1, <2>2, <2>5 DEF Seek, After
  <2>8. PICK p : p = pos
    OBVIOUS
  <2>9. StuckAt(p) /\ Goto(p)
    BY <1>4, <2>6, <2>7, <2>8 DEF StuckAt, NotString
  <2> QED
    BY <1>3, <2>6, <2>9 DEF NotString, Reading
<1>5. ASSUME NEW type \in KeywordTypes, NEW m \in 1 .. Len(Spelling(type)) - 1,
             Agrees(pos, Spelling(type), m), CharAt(pos + m) # Spelling(type)[m + 1]
      PROVE  /\ NotKeyword(type) /\ Matched(type) = m
             /\ Goto(Seek(After(pos + m), -(m + 1))) /\ m \in Nat \ {0}
  <2>1. m \in 1 .. Len(Spelling(type)) /\ m < Len(Spelling(type)) /\ m \in Nat \ {0}
    BY SpellingType
  <2>2. Matched(type) = m
    BY <1>1, <1>5, <2>1, MatchedIs DEF Agrees
  <2>3. Keyword(type) \/ NotKeyword(type)
    BY <1>1, <1>5, AtWord DEF Agrees
  <2> QED
    BY <2>1, <2>2, <2>3 DEF Keyword, NotKeyword
<1>6. CASE OtherWord(pos)
  <2>1. PICK type \in KeywordTypes : \E m \in 1 .. Len(Spelling(type)) - 1 :
          Agrees(pos, Spelling(type), m) /\ CharAt(pos + m) \notin {Spelling(type)[m + 1], EOF}
    BY <1>6 DEF OtherWord
  <2>2. PICK m \in 1 .. Len(Spelling(type)) - 1 :
          Agrees(pos, Spelling(type), m) /\ CharAt(pos + m) \notin {Spelling(type)[m + 1], EOF}
    BY <2>1
  <2>3. NotKeyword(type) /\ Goto(Seek(After(pos + m), -(m + 1))) /\ m \in Nat \ {0}
    BY <1>5, <2>2
  <2>4. Seek(After(pos + m), -(m + 1)) = pos
    <3>1. pos + m < Len(file)
      BY <2>2 DEF CharAt
    <3> QED
      BY <1>1, <2>3, <3>1 DEF Seek, After
  <2>5. PICK p : p = pos
    OBVIOUS
  <2>6. StuckAt(p) /\ Goto(p)
    BY <1>6, <2>3, <2>4, <2>5 DEF StuckAt
  <2> QED
    BY <1>3, <2>3, <2>6 DEF NotKeyword, Reading
<1>7. CASE CutWord(pos) /\ pos > 0 /\ CharAt(pos - 1) \in LexemeEnds \ {"."}
  <2>1. PICK type \in KeywordTypes : \E m \in 1 .. Len(Spelling(type)) - 1 :
          Agrees(pos, Spelling(type), m) /\ CharAt(pos + m) = EOF
    BY <1>7 DEF CutWord
  <2>2. PICK m \in 1 .. Len(Spelling(type)) - 1 :
          Agrees(pos, Spelling(type), m) /\ CharAt(pos + m) = EOF
    BY <2>1
  <2>3. Spelling(type)[m + 1] \in Letters
    BY SpellingLetters, SpellingType
  <2>4. NotKeyword(type) /\ Goto(Seek(After(pos + m), -(m + 1))) /\ m \in Nat \ {0}
    BY <1>5, <2>2, <2>3 DEF Letters, EOF
  <2>5. pos + m >= Len(file)
    <3>1. ASSUME pos + m < Len(file)
          PROVE  FALSE
      <4>1. file[pos + m + 1] \in Char
        BY <1>1, <2>4, <3>1
      <4> QED
        BY <2>2, <3>1, <4>1 DEF CharAt, EOF, Char, Ascii, Digits, Spaces, PunctuationMarks, Letters
    <3> QED
      BY <1>1, <2>4, <3>1
  <2>6. Seek(After(pos + m), -(m + 1)) = pos - 1
    BY <1>1, <1>7, <2>4, <2>5 DEF Seek, After
  <2>7. PICK p : p = pos - 1
    OBVIOUS
  <2>8. Goto(p)
    BY <2>4, <2>6, <2>7
  <2>9. CASE CharAt(p) = "\""
    <3>1. ASSUME NEW k \in p + 1 .. Len(file) - 1
          PROVE  CharAt(k) \in InString
      <4>1. k - pos \in 0 .. m - 1 /\ k = pos + (k - pos)
        BY <1>1, <2>4, <2>5, <2>7
      <4>2. CASE k = pos
        <5>1. CharAt(k) \in {"t", "f", "n"}
          BY <2>2, <4>2, SpellingType DEF Agrees
        <5> QED
          BY <5>1 DEF InString, Ascii, Letters
      <4>3. CASE k # pos
        <5>1. (k - pos) + 1 \in 2 .. m /\ k = pos + ((k - pos) + 1) - 1
          BY <1>1, <2>4, <4>1, <4>3
        <5>2. CharAt(k) = Spelling(type)[(k - pos) + 1]
          BY <2>2, <5>1 DEF Agrees
        <5>3. (k - pos) + 1 \in 1 .. Len(Spelling(type))
          BY <5>1, SpellingType
        <5>4. CharAt(k) \in Letters
          BY <5>2, <5>3, SpellingLetters
        <5> QED
          BY <5>4 DEF InString, Ascii, Letters
      <4> QED
        BY <4>2, <4>3
    <3>2. StuckAt(p)
      BY <2>9, <3>1 DEF StuckAt, OpenString
    <3> QED
      BY <1>3, <2>4, <2>8, <3>2 DEF NotKeyword, Reading
  <2>10. CASE CharAt(p) # "\""
    <3>1. CharAt(p) \in Digits \cup Spaces \cup PunctuationMarks
      BY <1>7, <2>7, <2>10 DEF LexemeEnds, NumberChars
    <3>2. p + 1 = pos
      BY <1>1, <2>7
    <3>3. StuckAt(p)
      BY <1>7, <3>1, <3>2 DEF StuckAt
    <3> QED
      BY <1>3, <2>4, <2>8, <3>3 DEF NotKeyword, Reading
  <2> QED
    BY <2>9, <2>10
<1>8. CASE CutWord(pos + 1) /\ CharAt(pos) \in Digits \cup Spaces \cup PunctuationMarks
  <2>1. CharAt(pos + 1) \in {"t", "f", "n"}
    BY <1>8, SpellingType DEF CutWord, Agrees
  <2>2. pos + 1 < Len(file)
    BY <2>1 DEF CharAt, EOF
  <2>3. Goto(pos + 1) /\ UNCHANGED <<file, status>>
    <3>1. CASE CharAt(pos) \in Digits
      <4>1. Number
        BY <1>1, <3>1, AtOther
      <4>2. Run(pos, NumberChars) = 1
        <5>1. CharAt(pos + 1) \notin NumberChars /\ CharAt(pos) \in NumberChars
          BY <2>1, <3>1 DEF NumberChars, Digits
        <5>2. \A k \in 0 .. 1 - 1 : CharAt(pos + k) \in NumberChars
          <6>1. \A k \in 0 .. 1 - 1 : pos + k = pos
            BY <1>1
          <6> QED
            BY <5>1, <6>1
        <5> QED
          BY <1>1, <2>2, <5>1, <5>2, RunIs
      <4>3. Goto(pos + 1)
        BY <1>1, <2>2, <4>1, <4>2, NumberGoes
      <4> QED
        BY <4>1, <4>3 DEF Number, Reading
    <3>2. CASE CharAt(pos) \in Spaces
      BY <1>1, <3>2, AtOther DEF Space, Reading
    <3>3. CASE CharAt(pos) \in PunctuationMarks
      BY <1>1, <3>3, AtOther DEF Mark, Reading
    <3> QED
      BY <1>8, <3>1, <3>2, <3>3
  <2>4. PICK p : p = pos + 1
    OBVIOUS
  <2>5. CharAt(p - 1) \in LexemeEnds \ {"."} /\ p > 0
    <3>1. p - 1 = pos /\ p > 0
      BY <1>1, <2>4
    <3>2. CharAt(pos) \in LexemeEnds \ {"."}
      BY <1>8 DEF LexemeEnds, NumberChars, Digits, Spaces, PunctuationMarks
    <3> QED
      BY <3>1, <3>2
  <2>6. StuckAt(p)
    BY <1>8, <2>4, <2>5 DEF StuckAt
  <2> QED
    BY <1>3, <2>3, <2>4, <2>6
<1>9. CASE LastNumber(pos)
  <2>1. Number
    BY <1>1, <1>9, AtOther DEF LastNumber
  <2> DEFINE length == Run(pos, NumberChars)
  <2>2. length = Len(file) - pos
    <3>1. CharAt(pos + (Len(file) - pos)) \notin NumberChars
      BY <1>1, <1>9 DEF CharAt, NumberChars, Digits, EOF
    <3>2. ASSUME NEW k \in 0 .. (Len(file) - pos) - 1
          PROVE  CharAt(pos + k) \in NumberChars
      BY <1>1, <1>9 DEF LastNumber
    <3>3. Len(file) - pos \in Nat /\ pos + (Len(file) - pos) <= Len(file)
      BY <1>1, <1>9 DEF LastNumber
    <3> QED
      BY <1>1, <3>1, <3>2, <3>3, RunIs
  <2>3. Goto(Len(file) - 1)
    <3>1. pos + length = Len(file) /\ pos > 0
      BY <1>1, <1>9, <2>2 DEF LastNumber
    <3> QED
      BY <1>1, <2>1, <3>1, NumberGoes
  <2>4. PICK p : p = Len(file) - 1
    OBVIOUS
  <2>5. LastNumber(p)
    <3>1. p \in Nat /\ p > 0 /\ p < Len(file) /\ p .. Len(file) - 1 = {p}
      BY <1>1, <1>9, <2>4 DEF LastNumber
    <3> QED
      BY <1>9, <2>4, <3>1 DEF LastNumber, NumberChars
  <2> QED
    BY <1>3, <2>1, <2>3, <2>4, <2>5 DEF StuckAt, Number, Reading
<1> QED
  BY <1>4, <1>6, <1>7, <1>8, <1>9 DEF Stuck, StuckAt

\* A letter put back is of a keyword, and read once more it leads to a keyword's letter.
LEMMA PutBackLeaves ==
  ASSUME TypeOK, NEW word, word \in {Spelling(type) : type \in KeywordTypes},
         unread = Head(word), pos > 0,
         CharAt(pos) = word[Len(word)], CharAt(pos - 1) = word[Len(word) - 1],
         NEW type \in KeywordTypes, NotKeyword(type)
  PROVE  unread' = NoChar /\ CharAt(pos)' \in {"u", "e", "l", "s"} /\ pos' \in {pos, pos - 1}
<1>1. pos \in Nat /\ file \in Seq(Char) /\ Matched(type) \in Nat
  BY MatchedType DEF TypeOK
<1>2. CharAt(pos) \in {"u", "e", "l", "s"} /\ CharAt(pos - 1) \in {"u", "e", "l", "s"}
  BY SpellingEnds
<1>3. pos' = Seek(After(pos + Matched(type)), -(Matched(type) + 1)) /\ unread' = NoChar /\ file' = file
  BY DEF NotKeyword, Reading, Goto
<1>4. pos' \in {pos, pos - 1}
  <2> DEFINE m == Matched(type)
  <2> HIDE DEF m
  <2>1. pos' = Seek(After(pos + m), -(m + 1)) /\ m \in Nat
    BY <1>1, <1>3 DEF m
  <2> QED
    BY <1>1, <2>1 DEF Seek, After
<1> QED
  BY <1>2, <1>3, <1>4 DEF CharAt

\* Behind a lexeme.
LEMMA BehindLexeme ==
  ASSUME TypeOK, NEW p \in Nat, p <= Len(file), p > 0 => CharAt(p - 1) \in LexemeEnds,
         Goto(p), UNCHANGED file
  PROVE  AtLexeme'
<1>1. pos' = p /\ unread' = NoChar /\ file' = file
  BY DEF Goto
<1>2. CharAt(pos - 1)' = CharAt(p - 1)
  BY <1>1 DEF CharAt
<1> QED
  BY <1>1, <1>2 DEF AtLexeme

LEMMA AtIdle ==
  ASSUME TypeOK, NEW p \in Nat, p <= Len(file), CharAt(p) \in Idle, Goto(p), UNCHANGED file
  PROVE  AtLexeme'
<1>1. pos' = p /\ unread' = NoChar /\ file' = file
  BY DEF Goto
<1>2. CharAt(pos)' = CharAt(p)
  BY <1>1 DEF CharAt
<1> QED
  BY <1>1, <1>2 DEF AtLexeme

LEMMA StuckIsAtLexeme ==
  ASSUME TypeOK', Stuck', (pos <= Len(file))'
  PROVE  AtLexeme'
  BY DEF Stuck, AtLexeme

LEMMA DeadEndInvKept == DeadEndInv /\ WithinCapacity /\ [Next]_vars => DeadEndInv'
<1> SUFFICES ASSUME DeadEndInv, WithinCapacity, [Next]_vars PROVE DeadEndInv'
  OBVIOUS
<1>1. pos \in Nat /\ file \in Seq(Char) /\ Len(file) \in Nat /\ TypeOK /\ TypeOK'
  <2>1. TypeOK
    BY DEF DeadEndInv
  <2>2. TypeOK'
    BY <2>1, NextPreservesInv DEF Inv
  <2> QED
    BY <2>1, <2>2 DEF TypeOK
<1> SUFFICES AtLexeme'
  BY <1>1 DEF DeadEndInv
<1>2. CASE UNCHANGED vars
  <2>1. UNCHANGED <<file, pos, unread, status>>
    BY <1>2 DEF vars
  <2>2. CASE status # "lexing"
    BY <2>1, <2>2 DEF AtLexeme
  <2>3. CASE status = "lexing" /\ unread = NoChar /\ StuckAt(pos)
    <3>1. Stuck'
      BY <1>2, <2>3, StuckKept DEF Stuck
    <3> QED
      BY <1>1, <2>1, <2>3, <3>1, StuckIsAtLexeme DEF DeadEndInv, AtLexeme
  <2>4. CASE status = "lexing" /\ ~(unread = NoChar /\ StuckAt(pos))
    <3>1. CharAt(pos)' = CharAt(pos) /\ CharAt(pos - 1)' = CharAt(pos - 1)
      BY <2>1 DEF CharAt
    <3>2. /\ pos <= Len(file)
          /\ unread # NoChar =>
               \E type \in KeywordTypes :
                 /\ unread = Head(Spelling(type)) /\ pos > 0
                 /\ CharAt(pos) = Spelling(type)[Len(Spelling(type))]
                 /\ CharAt(pos - 1) = Spelling(type)[Len(Spelling(type)) - 1]
          /\ unread = NoChar /\ pos > 0 => CharAt(pos - 1) \in LexemeEnds \/ CharAt(pos) \in Idle
      BY <2>4 DEF DeadEndInv, AtLexeme
    <3> QED
      BY <2>1, <3>1, <3>2 DEF AtLexeme
  <2> QED
    BY <2>2, <2>3, <2>4
<1>3. CASE Next
  <2>1. status = "lexing" /\ file' = file
    BY <1>3 DEF Next, Mark, Keyword, NotKeyword, Space, Number, String, NotString, Invalid,
                EndOfFile, Reading
  <2>2. /\ pos <= Len(file)
        /\ unread # NoChar =>
             \E word \in {Spelling(type) : type \in KeywordTypes} :
               /\ unread = Head(word) /\ pos > 0
               /\ CharAt(pos) = word[Len(word)] /\ CharAt(pos - 1) = word[Len(word) - 1]
        /\ unread = NoChar /\ pos > 0 =>
             CharAt(pos - 1) \in LexemeEnds \/ CharAt(pos) \in Idle \/ StuckAt(pos)
    BY <2>1 DEF DeadEndInv, AtLexeme
  <2>3. CASE Invalid \/ EndOfFile
    BY <2>3 DEF Invalid, EndOfFile, AtLexeme
  <2>4. ASSUME NEW type \in KeywordTypes, Keyword(type)
        PROVE  AtLexeme'
    <3> DEFINE word == Spelling(type)
               len == Len(word)
    <3>1. len \in {4, 5} /\ \A k \in 2 .. len : CharAt(pos + k - 1) = word[k]
      BY <2>4, SpellingType, MatchedType DEF Keyword
    <3>2. pos' = pos + len - 1 /\ unread' = Head(word)
      BY <2>4 DEF Keyword
    <3>3. word[len] \in Letters
      BY SpellingLetters, SpellingType
    <3>4. unread' # NoChar
      BY <3>2, SpellingType DEF NoChar
    <3> HIDE DEF word
    <3>5. CharAt(pos + len - 1) = word[len] /\ CharAt(pos + len - 2) = word[len - 1]
      <4> HIDE DEF len
      <4>1. len \in 2 .. len /\ len - 1 \in 2 .. len /\ pos + (len - 1) - 1 = pos + len - 2
        BY <1>1, <3>1
      <4> QED
        BY <3>1, <4>1
    <3>6. pos + len - 1 < Len(file)
      BY <3>3, <3>5 DEF CharAt, EOF, Letters
    <3>7. CharAt(pos)' = word[len] /\ CharAt(pos - 1)' = word[len - 1] /\ pos' > 0 /\ pos' <= Len(file)'
      <4> HIDE DEF len
      <4>1. pos' - 1 = pos + len - 2 /\ pos' > 0 /\ pos' <= Len(file)
        BY <1>1, <3>1, <3>2, <3>6
      <4> QED
        BY <2>1, <3>2, <3>5, <4>1 DEF CharAt
    <3> QED
      BY <3>2, <3>4, <3>7 DEF AtLexeme, word, len
  <2>5. CASE unread # NoChar /\ \E type \in KeywordTypes : NotKeyword(type)
    <3>1. PICK type \in KeywordTypes : NotKeyword(type)
      BY <2>5
    <3>2. PICK word \in {Spelling(t) : t \in KeywordTypes} :
            /\ unread = Head(word) /\ pos > 0
            /\ CharAt(pos) = word[Len(word)] /\ CharAt(pos - 1) = word[Len(word) - 1]
      BY <2>2, <2>5
    <3>3. unread' = NoChar /\ CharAt(pos)' \in {"u", "e", "l", "s"} /\ pos' \in {pos, pos - 1}
      BY <1>1, <3>1, <3>2, PutBackLeaves
    <3>4. pos' <= Len(file)
      BY <1>1, <2>2, <3>3
    <3> QED
      BY <2>1, <3>3, <3>4 DEF AtLexeme, Idle
  <2>6. CASE unread = NoChar /\ Stuck
    <3>1. Stuck'
      BY <1>3, <2>6, StuckKept
    <3>2. pos' <= Len(file)'
      <4>1. CASE CharAt(pos)' # EOF
        BY <2>1, <4>1, <1>1 DEF CharAt, TypeOK
      <4>2. CASE CharAt(pos)' = EOF
        BY <2>1, <3>1, <4>2, SpellingType DEF Stuck, StuckAt, OpenString, OtherWord, LastNumber, CutWord,
          Agrees, EOF, Digits, Spaces, PunctuationMarks
      <4> QED
        BY <4>1, <4>2
    <3> QED
      BY <1>1, <3>1, <3>2, StuckIsAtLexeme
  <2>7. CASE unread = NoChar /\ ~Stuck /\ \E type \in KeywordTypes : NotKeyword(type)
    <3>1. PICK type \in KeywordTypes : NotKeyword(type)
      BY <2>7
    <3>2. CutWord(pos) /\ (pos > 0 => Goto(pos - 1)) /\ (pos = 0 => Goto(Len(file)))
      BY <1>1, <2>1, <2>7, <3>1, NotKeywordGoes DEF Stuck, StuckAt
    <3>3. CASE pos > 0
      <4>1. CharAt(pos) \in {"t", "f", "n"}
        BY <3>2, SpellingType DEF CutWord, Agrees
      <4>2. CharAt(pos - 1) = "."
        BY <2>1, <2>2, <2>7, <3>2, <3>3, <4>1 DEF Stuck, StuckAt, Idle, EOF
      <4>3. PICK p : p = pos - 1
        OBVIOUS
      <4>4. p \in Nat /\ p <= Len(file) /\ Goto(p) /\ CharAt(p) \in Idle
        BY <1>1, <2>2, <3>2, <3>3, <4>2, <4>3 DEF Idle
      <4> QED
        BY <1>1, <2>1, <4>4, AtIdle
    <3>4. CASE pos = 0
      <4>1. PICK p : p = Len(file)
        OBVIOUS
      <4>2. p \in Nat /\ p <= Len(file) /\ Goto(p) /\ CharAt(p) \in Idle
        BY <1>1, <3>2, <3>4, <4>1 DEF Idle, CharAt
      <4> QED
        BY <1>1, <2>1, <4>2, AtIdle
    <3> QED
      BY <1>1, <3>3, <3>4
  <2>8. ASSUME NEW c \in PunctuationMarks \cup Spaces, Next1 = c, Goto(pos + 1)
        PROVE  AtLexeme'
    <3>1. unread = NoChar
      <4>1. CASE unread # NoChar
        <5>1. unread \in {"t", "f", "n"}
          BY <2>2, <4>1, SpellingType
        <5> QED
          BY <2>8, <4>1, <5>1 DEF Next1, PunctuationMarks, Spaces
      <4> QED
        BY <4>1
    <3>2. CharAt(pos) \in LexemeEnds /\ CharAt(pos) # EOF
      BY <2>8, <3>1 DEF Next1, LexemeEnds, EOF, PunctuationMarks, Spaces
    <3>3. PICK p : p = pos + 1
      OBVIOUS
    <3>4. p \in Nat /\ p <= Len(file) /\ p - 1 = pos /\ Goto(p)
      <4>1. pos < Len(file)
        BY <3>2 DEF CharAt
      <4> QED
        BY <1>1, <2>8, <3>3, <4>1
    <3> QED
      BY <1>1, <2>1, <3>2, <3>4, BehindLexeme
  <2>9. unread # NoChar => ~Number /\ ~String /\ ~NotString
    <3> SUFFICES ASSUME unread # NoChar PROVE ~Number /\ ~String /\ ~NotString
      OBVIOUS
    <3>1. unread \in {"t", "f", "n"}
      BY <2>2, SpellingType
    <3> QED
      BY <3>1 DEF Number, String, NotString, Reading, Next1, Digits
  <2>10. CASE Number /\ unread = NoChar /\ ~Stuck
    <3>1. PICK length : length = Run(pos, NumberChars)
      OBVIOUS
    <3>2. /\ length \in Nat \ {0} /\ pos + length <= Len(file)
          /\ \A k \in 0 .. length - 1 : CharAt(pos + k) \in NumberChars
          /\ CharAt(pos) \in Digits
      BY <1>1, <2>10, <3>1, NumberGoes
    <3>3. CASE pos + length < Len(file) /\ Goto(pos + length)
      <4>1. PICK p : p = pos + length
        OBVIOUS
      <4>2. p \in Nat /\ p <= Len(file) /\ Goto(p) /\ length - 1 \in 0 .. length - 1
            /\ p - 1 = pos + (length - 1)
        BY <1>1, <3>2, <3>3, <4>1
      <4>3. CharAt(p - 1) \in LexemeEnds
        BY <3>2, <4>2 DEF LexemeEnds
      <4> QED
        BY <1>1, <2>1, <4>2, <4>3, BehindLexeme
    <3>4. CASE pos + length = Len(file) /\ pos > 0 /\ Goto(Len(file) - 1)
      <4>1. PICK p : p = Len(file) - 1
        OBVIOUS
      <4>2. /\ p \in Nat /\ p <= Len(file) /\ Goto(p)
            /\ length - 1 \in 0 .. length - 1 /\ p = pos + (length - 1)
        BY <1>1, <3>2, <3>4, <4>1
      <4>3. CharAt(p) \in NumberChars
        BY <3>2, <4>2
      <4>4. CASE CharAt(p) \in Digits
        <5>1. ASSUME NEW k \in pos .. Len(file) - 1
              PROVE  CharAt(k) \in NumberChars
          <6>1. k - pos \in 0 .. length - 1 /\ pos + (k - pos) = k
            BY <1>1, <3>2, <3>4
          <6> QED
            BY <3>2, <6>1
        <5>2. pos < Len(file)
          BY <1>1, <3>2
        <5>3. LastNumber(pos)
          BY <3>2, <3>4, <4>1, <4>4, <5>1, <5>2 DEF LastNumber
        <5> QED
          BY <2>1, <2>10, <5>3 DEF Stuck, StuckAt
      <4>5. CASE CharAt(p) = "."
        BY <1>1, <2>1, <4>2, <4>5, AtIdle DEF Idle
      <4> QED
        BY <4>3, <4>4, <4>5 DEF NumberChars
    <3>5. CASE Goto(Len(file))
      <4>1. PICK p : p = Len(file)
        OBVIOUS
      <4>2. p \in Nat /\ p <= Len(file) /\ Goto(p) /\ CharAt(p) \in Idle
        BY <1>1, <3>5, <4>1 DEF Idle, CharAt
      <4> QED
        BY <1>1, <2>1, <4>2, AtIdle
    <3> QED
      BY <1>1, <2>10, <3>1, <3>3, <3>4, <3>5, NumberGoes
  <2>11. CASE (String \/ NotString) /\ unread = NoChar /\ ~Stuck
    <3>1. /\ CharAt(pos) = "\"" /\ pos < Len(file)
          /\ \/ /\ String /\ Quoted \in Nat /\ pos + Quoted + 2 <= Len(file)
                /\ CharAt(pos + Quoted + 2 - 1) = "\""
             \/ NotString /\ OpenString(pos) /\ Goto(pos)
             \/ NotString /\ Goto(pos + 1)
      BY <1>1, <2>11, QuoteGoes
    <3>2. PICK p : p = (IF String THEN pos + Quoted + 2 ELSE pos + 1)
      OBVIOUS
    <3>3. CASE String
      <4>1. p = pos + Quoted + 2 /\ Quoted \in Nat /\ Goto(p)
        BY <1>1, <3>2, <3>3, QuotedType DEF String
      <4>2. CharAt(pos + 1 + Quoted) = "\"" /\ CharAt(p - 1) = "\""
        <5>1. CharAt(pos + 1 + Quoted) = "\""
          BY <3>3 DEF String
        <5>2. pos + 1 + Quoted = p - 1
          BY <1>1, <4>1
        <5> QED
          BY <5>1, <5>2
      <4>3. p - 1 < Len(file)
        BY <4>2 DEF CharAt, EOF
      <4>4. p \in Nat /\ p <= Len(file)
        BY <1>1, <4>1, <4>3
      <4>5. CharAt(p - 1) \in LexemeEnds
        BY <4>2 DEF LexemeEnds
      <4> QED
        BY <1>1, <2>1, <4>1, <4>4, <4>5, BehindLexeme
    <3>4. CASE ~String
      <4>1. p = pos + 1 /\ Goto(p)
        BY <2>1, <2>11, <3>1, <3>2, <3>4 DEF Stuck, StuckAt
      <4>2. p \in Nat /\ p <= Len(file) /\ p - 1 = pos
        <5>1. pos < Len(file) /\ p = pos + 1
          BY <3>1, <4>1
        <5> QED
          BY <1>1, <5>1
      <4>3. CharAt(p - 1) \in LexemeEnds
        BY <3>1, <4>2 DEF LexemeEnds
      <4> QED
        BY <1>1, <2>1, <4>1, <4>2, <4>3, BehindLexeme
    <3> QED
      BY <3>3, <3>4
  <2>12. (\E c \in PunctuationMarks : Mark(c)) \/ Space => AtLexeme'
    BY <2>8 DEF Mark, Space, Reading
  <2> QED
    BY <1>3, <2>3, <2>4, <2>5, <2>6, <2>7, <2>9, <2>10, <2>11, <2>12 DEF Next
<1> QED
  BY <1>2, <1>3

\* Whatever the file, a loop that has come to a dead end never ends: from an open
\* string, a word that is no keyword, and a number or a cut word at the end of the file,
\* the way back leads to where the match has failed (tokenizer.cpp:77, 92, 105).
THEOREM DeadEndsStay == Spec => DeadEndsAreForever
<1>1. Init => DeadEndInv /\ WithinCapacity
  <2> SUFFICES ASSUME Init PROVE DeadEndInv /\ WithinCapacity
    OBVIOUS
  <2>1. Inv /\ pos = 0 /\ unread = NoChar
    BY InitEstablishesInv DEF Init, Start
  <2>2. Len(file) \in Nat
    BY <2>1 DEF Inv, TypeOK
  <2> QED
    BY <2>1, <2>2 DEF DeadEndInv, Inv, AtLexeme
<1>2. DeadEndInv /\ WithinCapacity /\ [Next]_vars => (DeadEndInv /\ WithinCapacity)'
  BY DeadEndInvKept, NextPreservesInv DEF DeadEndInv, Inv
<1>3. DeadEndInv /\ AtDeadEnd => Stuck
  BY AtDeadEndIsStuck
<1>4. DeadEndInv /\ Stuck /\ [Next]_vars => Stuck'
  BY StuckKept
<1>5. Stuck => status # "done"
  BY DEF Stuck
<1> QED
  BY <1>1, <1>2, <1>3, <1>4, <1>5, PTL DEF Spec, DeadEndsAreForever

-----------------------------------------------------------------------------
(***************************************************************************)
(* Lexemes.                                                                *)
(***************************************************************************)

LEMMA SignificantFinite ==
  ASSUME NEW lexemes, NEW n \in Nat
  PROVE  IsFiniteSet(Significant(lexemes, n)) /\ Count(lexemes, n) \in Nat
<1>1. IsFiniteSet(1 .. n)
  BY FS_Interval
<1>2. IsFiniteSet(Significant(lexemes, n))
  BY <1>1, FS_Subset DEF Significant
<1> QED
  BY <1>2, FS_CardinalityType DEF Count

LEMMA CountNext ==
  ASSUME NEW lexemes, NEW n \in Nat
  PROVE  /\ Count(lexemes, 0) = 0
         /\ lexemes[n + 1].type = "BLANK" =>
              /\ Significant(lexemes, n + 1) = Significant(lexemes, n)
              /\ Count(lexemes, n + 1) = Count(lexemes, n)
         /\ lexemes[n + 1].type # "BLANK" =>
              /\ Significant(lexemes, n + 1) = Significant(lexemes, n) \cup {n + 1}
              /\ Count(lexemes, n + 1) = Count(lexemes, n) + 1
<1>1. Significant(lexemes, 0) = {}
  BY DEF Significant
<1>2. Count(lexemes, 0) = 0
  BY <1>1, FS_EmptySet DEF Count
<1>3. 1 .. n + 1 = (1 .. n) \cup {n + 1} /\ n + 1 \notin 1 .. n
  OBVIOUS
<1>4. CASE lexemes[n + 1].type = "BLANK"
  <2>1. Significant(lexemes, n + 1) = Significant(lexemes, n)
    BY <1>3, <1>4 DEF Significant
  <2> QED
    BY <1>2, <1>4, <2>1 DEF Count
<1>5. CASE lexemes[n + 1].type # "BLANK"
  <2>1. Significant(lexemes, n + 1) = Significant(lexemes, n) \cup {n + 1}
    BY <1>3, <1>5 DEF Significant
  <2>2. n + 1 \notin Significant(lexemes, n)
    BY <1>3 DEF Significant
  <2>3. Count(lexemes, n + 1) = Count(lexemes, n) + 1
    BY <2>1, <2>2, SignificantFinite, FS_AddElement DEF Count
  <2> QED
    BY <1>2, <1>5, <2>1, <2>3
<1> QED
  BY <1>4, <1>5

LEMMA CountWithin ==
  ASSUME NEW lexemes, NEW n \in Nat, NEW k \in Significant(lexemes, n)
  PROVE  Count(lexemes, k) \in 1 .. Count(lexemes, n)
<1>1. k \in Nat /\ k <= n /\ k \in Significant(lexemes, k)
  BY DEF Significant
<1>2. Significant(lexemes, k) \subseteq Significant(lexemes, n)
  BY <1>1 DEF Significant
<1>3. Count(lexemes, k) <= Count(lexemes, n) /\ Count(lexemes, n) \in Nat
  BY <1>2, SignificantFinite, FS_Subset DEF Count
<1>4. Count(lexemes, k) \in Nat /\ Count(lexemes, k) # 0
  BY <1>1, SignificantFinite, FS_EmptySet DEF Count
<1> QED
  BY <1>3, <1>4

\* The lexemes of a cut, with the bounds their places are in.
LEMMA CutType ==
  ASSUME file \in Seq(Char), NEW lexemes, IsCut(lexemes, file), NEW n \in 0 .. Len(lexemes) - 1
  PROVE  LET lexeme == lexemes[n + 1] IN
         /\ Len(lexemes) \in Nat /\ n \in Nat
         /\ lexeme \in Place /\ lexeme.from = Boundary(lexemes, n)
         /\ lexeme.from \in Nat /\ lexeme.to \in Nat /\ lexeme.to <= Len(file)
         /\ Boundary(lexemes, n + 1) = lexeme.to
         /\ \/ IsBlank(lexeme, file) \/ IsMark(lexeme, file)
            \/ IsNumber(lexeme, file) \/ IsString(lexeme, file)
<1>1. Len(lexemes) \in Nat /\ n \in Nat /\ n + 1 \in 1 .. Len(lexemes) /\ n + 1 # 0 /\ (n + 1) - 1 = n
  BY DEF IsCut
<1>2. lexemes[n + 1] \in Place
  BY <1>1 DEF IsCut
<1>3. lexemes[n + 1].from \in Nat /\ lexemes[n + 1].to \in Nat
  BY <1>2 DEF Place
<1> QED
  BY <1>1, <1>2, <1>3 DEF IsCut, Boundary

\* A branch that adds the next lexeme and moves behind it.
LEMMA LexemeAdded ==
  ASSUME TypeOK, NEW lexemes, IsCut(lexemes, file), NEW n \in 0 .. Len(lexemes) - 1,
         ReadUpTo(lexemes, n), lexemes[n + 1].type # "BLANK",
         NEW type, NEW text, AddToken(type, text), type = lexemes[n + 1].type,
         text = [k \in 1 .. lexemes[n + 1].to - lexemes[n + 1].from |->
                   file[lexemes[n + 1].from + k]],
         Goto(lexemes[n + 1].to), UNCHANGED file
  PROVE  ReadUpTo(lexemes, n + 1)'
<1>1. n \in Nat /\ Boundary(lexemes, n + 1) = lexemes[n + 1].to
  BY CutType DEF TypeOK
<1>2. tokens' = Append(tokens, AsToken(lexemes[n + 1])) /\ tokens \in Seq(Token)
  BY DEF AddToken, AsToken, TextOf, TypeOK
<1>3. Len(tokens) = Count(lexemes, n) /\ Count(lexemes, n) \in Nat
  BY <1>1, SignificantFinite DEF ReadUpTo
<1>4. /\ Significant(lexemes, n + 1) = Significant(lexemes, n) \cup {n + 1}
      /\ Count(lexemes, n + 1) = Count(lexemes, n) + 1
  BY <1>1, CountNext
<1>5. Len(tokens') = Count(lexemes, n + 1)
  BY <1>2, <1>3, <1>4
<1>6. ASSUME NEW k \in Significant(lexemes, n + 1)
      PROVE  tokens'[Count(lexemes, k)] = AsToken(lexemes[k])
  <2>1. CASE k = n + 1
    BY <1>2, <1>3, <1>4, <2>1
  <2>2. CASE k \in Significant(lexemes, n)
    <3>1. Count(lexemes, k) \in 1 .. Len(tokens)
      BY <1>1, <1>3, <2>2, CountWithin
    <3>2. tokens[Count(lexemes, k)] = AsToken(lexemes[k])
      BY <2>2 DEF ReadUpTo
    <3> QED
      BY <1>2, <3>1, <3>2
  <2> QED
    BY <1>4, <1>6, <2>1, <2>2
<1>7. \A k : AsToken(lexemes[k])' = AsToken(lexemes[k])
  BY DEF AsToken, TextOf
<1>8. pos' = Boundary(lexemes, n + 1) /\ unread' = NoChar
  BY <1>1 DEF Goto
<1> QED
  BY <1>5, <1>6, <1>7, <1>8 DEF ReadUpTo

\* What the stream is at, and what the branches find of it.
LEMMA AtLexemeStart ==
  ASSUME TypeOK, NEW lexemes, IsCut(lexemes, file), NEW n \in 0 .. Len(lexemes) - 1,
         ReadUpTo(lexemes, n), status = "lexing"
  PROVE  LET lexeme == lexemes[n + 1] IN
         /\ pos = lexeme.from /\ Next1 = CharAt(pos)
         /\ IsBlank(lexeme, file) => CharAt(pos) \in Spaces /\ lexeme.to = pos + 1
         /\ IsMark(lexeme, file) =>
              CharAt(pos) \in PunctuationMarks /\ lexeme.type = MarkType(CharAt(pos)) /\ lexeme.to = pos + 1
         /\ IsNumber(lexeme, file) =>
              /\ CharAt(pos) \in Digits /\ Run(pos, NumberChars) = lexeme.to - pos
              /\ pos < lexeme.to /\ lexeme.to < Len(file)
         /\ IsString(lexeme, file) =>
              /\ CharAt(pos) = "\"" /\ Quoted = lexeme.to - pos - 2 /\ pos + 2 <= lexeme.to
              /\ CharAt(pos + 1 + Quoted) = "\""
<1> DEFINE from == lexemes[n + 1].from
           to == lexemes[n + 1].to
<1>1. /\ from \in Nat /\ to \in Nat /\ to <= Len(file) /\ pos = from
      /\ file \in Seq(Char) /\ Len(file) \in Nat /\ unread = NoChar
  <2>1. file \in Seq(Char) /\ Len(file) \in Nat /\ unread = NoChar /\ pos = Boundary(lexemes, n)
    BY DEF TypeOK, ReadUpTo
  <2>2. from \in Nat /\ to \in Nat /\ to <= Len(file) /\ from = Boundary(lexemes, n)
    BY <2>1, CutType
  <2> QED
    BY <2>1, <2>2
<1>2. Next1 = CharAt(pos)
  BY <1>1 DEF Next1
<1> HIDE DEF from, to
<1>3. \A k \in 1 .. Len(file) : CharAt(k - 1) = file[k]
  BY <1>1 DEF CharAt
<1>4. CASE IsBlank(lexemes[n + 1], file) \/ IsMark(lexemes[n + 1], file)
  <2>1. to = pos + 1 /\ to \in 1 .. Len(file) /\ to - 1 = pos
    BY <1>1, <1>4 DEF IsBlank, IsMark, from, to
  <2>2. CharAt(pos) = file[to]
    BY <1>3, <2>1
  <2>3. CharAt(pos) \in Spaces \cup PunctuationMarks
    BY <1>4, <2>2 DEF IsBlank, IsMark, to
  <2>4. ~IsNumber(lexemes[n + 1], file) /\ ~IsString(lexemes[n + 1], file)
    <3>1. file[from + 1] \in Spaces \cup PunctuationMarks
      BY <1>1, <2>1, <2>2, <2>3
    <3> QED
      BY <3>1 DEF IsNumber, IsString, from, Spaces, PunctuationMarks, Digits
  <2> QED
    BY <1>1, <1>2, <1>4, <2>1, <2>2, <2>4 DEF IsBlank, IsMark, from, to
<1>5. CASE IsNumber(lexemes[n + 1], file)
  <2> DEFINE m == to - pos
  <2>1. /\ m \in Nat /\ pos + m = to /\ pos < to /\ to < Len(file)
        /\ pos + 1 \in 1 .. Len(file) /\ (pos + 1) - 1 = pos
        /\ to + 1 \in 1 .. Len(file) /\ (to + 1) - 1 = pos + m
    <3>1. from < to /\ to < Len(file)
      BY <1>5 DEF IsNumber, from, to
    <3> QED
      BY <1>1, <3>1
  <2>2. CharAt(pos) \in Digits
    BY <1>1, <1>3, <1>5, <2>1 DEF IsNumber, from
  <2>3. CharAt(pos + m) \notin NumberChars
    BY <1>3, <1>5, <2>1 DEF IsNumber, to
  <2>4. ASSUME NEW k \in 0 .. m - 1
        PROVE  CharAt(pos + k) \in NumberChars
    <3>1. pos + k + 1 \in from + 1 .. to /\ pos + k + 1 \in 1 .. Len(file) /\ (pos + k + 1) - 1 = pos + k
      BY <1>1, <2>1
    <3>2. file[pos + k + 1] \in NumberChars
      BY <1>5, <3>1 DEF IsNumber, from, to
    <3> QED
      BY <1>3, <3>1, <3>2
  <2>5. Run(pos, NumberChars) = m
    <3> HIDE DEF m
    <3> QED
      BY <1>1, <2>1, <2>3, <2>4, RunIs
  <2>6. ~IsBlank(lexemes[n + 1], file) /\ ~IsMark(lexemes[n + 1], file) /\ ~IsString(lexemes[n + 1], file)
    <3>1. file[from + 1] \in Digits
      BY <1>5 DEF IsNumber, from
    <3> QED
      BY <3>1 DEF IsBlank, IsMark, IsString, from, Spaces, PunctuationMarks, Digits
  <2> QED
    BY <1>1, <1>2, <2>1, <2>2, <2>5, <2>6 DEF from, to
<1>6. CASE IsString(lexemes[n + 1], file)
  <2> DEFINE m == to - pos - 2
  <2>1. /\ m \in Nat /\ (pos + 1) + m <= Len(file) /\ pos + 2 <= to
        /\ pos + 1 \in 1 .. Len(file) /\ (pos + 1) - 1 = pos
        /\ to \in 1 .. Len(file) /\ to - 1 = (pos + 1) + m /\ pos + 1 \in Nat
    <3>1. from + 2 <= to
      BY <1>6 DEF IsString, from, to
    <3> QED
      BY <1>1, <3>1
  <2>2. CharAt(pos) = "\"" /\ CharAt((pos + 1) + m) = "\""
    BY <1>1, <1>3, <1>6, <2>1 DEF IsString, from, to
  <2>3. ASSUME NEW k \in 0 .. m - 1
        PROVE  CharAt((pos + 1) + k) \in InString
    <3>1. /\ pos + k + 2 \in from + 2 .. to - 1 /\ pos + k + 2 \in 1 .. Len(file)
          /\ (pos + k + 2) - 1 = (pos + 1) + k
      BY <1>1, <2>1
    <3>2. file[pos + k + 2] \in InString
      BY <1>6, <3>1 DEF IsString, from, to
    <3> QED
      BY <1>3, <3>1, <3>2
  <2>4. Quoted = m
    <3>1. CharAt((pos + 1) + m) \notin InString
      BY <2>2 DEF InString
    <3> HIDE DEF m
    <3> QED
      BY <1>1, <2>1, <2>3, <3>1, RunIs DEF Quoted
  <2>5. ~IsBlank(lexemes[n + 1], file) /\ ~IsMark(lexemes[n + 1], file) /\ ~IsNumber(lexemes[n + 1], file)
    <3>1. file[from + 1] = "\""
      BY <1>6 DEF IsString, from
    <3> QED
      BY <3>1 DEF IsBlank, IsMark, IsNumber, from, Spaces, PunctuationMarks, Digits
  <2> QED
    BY <1>1, <1>2, <2>1, <2>2, <2>4, <2>5 DEF from, to
<1> QED
  BY <1>4, <1>5, <1>6, CutType, <1>1

\* Behind the last lexeme there is nothing, or something unknown.
LEMMA BehindTheCut ==
  ASSUME file \in Seq(Char), NEW lexemes, IsCut(lexemes, file)
  PROVE  CharAt(Boundary(lexemes, Len(lexemes))) \in {EOF} \cup Unknown
<1> DEFINE end == Boundary(lexemes, Len(lexemes))
<1>1. end \in Nat /\ end <= Len(file) /\ Len(file) \in Nat
  <2>1. Len(lexemes) \in Nat /\ Len(file) \in Nat
    BY DEF IsCut
  <2>2. CASE Len(lexemes) = 0
    BY <2>1, <2>2 DEF Boundary
  <2>3. CASE Len(lexemes) # 0
    <3>1. PICK n \in 0 .. Len(lexemes) - 1 : n + 1 = Len(lexemes)
      BY <2>1, <2>3
    <3>2. /\ lexemes[n + 1].to \in Nat /\ lexemes[n + 1].to <= Len(file)
          /\ Boundary(lexemes, n + 1) = lexemes[n + 1].to
      BY CutType
    <3> QED
      BY <2>1, <3>1, <3>2
  <2> QED
    BY <2>2, <2>3
<1>2. end = Len(file) \/ file[end + 1] \in Unknown
  BY DEF IsCut, IsWhole
<1> HIDE DEF end
<1>3. CASE end = Len(file)
  BY <1>1, <1>3 DEF CharAt, end
<1>4. CASE end < Len(file)
  BY <1>1, <1>2, <1>4 DEF CharAt, end
<1> QED
  BY <1>1, <1>3, <1>4

\* A turn of the loop that stands at a lexeme reads it, and behind the last one ends.
LEMMA LexemeRead ==
  ASSUME TypeOK, NEW lexemes, IsCut(lexemes, file), NEW n \in 0 .. Len(lexemes),
         ReadUpTo(lexemes, n), status = "lexing", Next
  PROVE  \/ n = Len(lexemes) /\ ReadUpTo(lexemes, n)' /\ status' = "done"
         \/ n < Len(lexemes) /\ ReadUpTo(lexemes, n + 1)' /\ status' = "lexing"
<1>1. /\ pos \in Nat /\ file \in Seq(Char) /\ Len(file) \in Nat /\ unread = NoChar
      /\ Len(lexemes) \in Nat
  BY DEF TypeOK, ReadUpTo, IsCut
<1>2. CASE n = Len(lexemes)
  <2>1. Next1 \in {EOF} \cup Unknown
    BY <1>1, <1>2, BehindTheCut DEF ReadUpTo, Next1
  <2>2. EndOfFile \/ Invalid
    BY <1>1, <2>1, SpellingType DEF Next, Mark, Keyword, NotKeyword, Space, Number, String, NotString,
      Reading, EOF, PunctuationMarks, Spaces, Digits, Unknown, Char, Ascii, Letters
  <2>3. file' = file /\ tokens' = tokens /\ status' = "done"
    BY <2>2 DEF EndOfFile, Invalid
  <2>4. \A k : AsToken(lexemes[k])' = AsToken(lexemes[k])
    BY <2>3 DEF AsToken, TextOf
  <2> QED
    BY <1>2, <2>3, <2>4 DEF ReadUpTo
<1>3. CASE n < Len(lexemes)
  <2> DEFINE lexeme == lexemes[n + 1]
  <2>1. n \in 0 .. Len(lexemes) - 1
    BY <1>1, <1>3
  <2>2. /\ lexeme.from \in Nat /\ lexeme.to \in Nat /\ lexeme.to <= Len(file)
        /\ pos = lexeme.from /\ Boundary(lexemes, n + 1) = lexeme.to
    BY <1>1, <2>1, CutType DEF ReadUpTo
  <2>3. CASE IsBlank(lexeme, file)
    <3>1. CharAt(pos) \in Spaces /\ lexeme.to = pos + 1 /\ lexeme.type = "BLANK"
      BY <2>1, <2>3, AtLexemeStart DEF IsBlank
    <3>2. Space
      BY <1>1, <3>1, AtOther
    <3>3. \A k : AsToken(lexemes[k])' = AsToken(lexemes[k])
      BY <3>2 DEF Space, Reading, AsToken, TextOf
    <3>4. /\ Significant(lexemes, n + 1) = Significant(lexemes, n)
          /\ Count(lexemes, n + 1) = Count(lexemes, n)
      BY <2>1, <3>1, CountNext
    <3> QED
      BY <1>3, <2>2, <3>1, <3>2, <3>3, <3>4 DEF Space, Reading, Goto, ReadUpTo
  <2>4. CASE IsMark(lexeme, file)
    <3>1. /\ CharAt(pos) \in PunctuationMarks /\ lexeme.type = MarkType(CharAt(pos))
          /\ lexeme.to = pos + 1
      BY <2>1, <2>4, AtLexemeStart
    <3>2. Mark(CharAt(pos))
      BY <1>1, <3>1, AtOther
    <3>3. lexeme.type # "BLANK"
      BY <3>1 DEF MarkType, PunctuationMarks
    <3>4. CharAt(pos) = file[pos + 1]
      BY <1>1, <2>2, <3>1 DEF CharAt
    <3>5. <<CharAt(pos)>> = [k \in 1 .. lexeme.to - lexeme.from |-> file[lexeme.from + k]]
      <4>1. lexeme.to - lexeme.from = 1
        BY <1>1, <2>2, <3>1
      <4>2. <<CharAt(pos)>> = [k \in 1 .. 1 |-> CharAt(pos)]
        OBVIOUS
      <4>3. [k \in 1 .. 1 |-> CharAt(pos)] = [k \in 1 .. 1 |-> file[lexeme.from + k]]
        BY <2>2, <3>4
      <4> QED
        BY <4>1, <4>2, <4>3
    <3>6. /\ AddToken(MarkType(CharAt(pos)), <<CharAt(pos)>>) /\ Goto(lexeme.to)
          /\ UNCHANGED file /\ status' = "lexing"
      BY <3>1, <3>2 DEF Mark, Reading
    <3> HIDE DEF lexeme
    <3>7. ReadUpTo(lexemes, n + 1)'
      BY <2>1, <3>1, <3>3, <3>5, <3>6, LexemeAdded DEF lexeme
    <3> QED
      BY <1>3, <3>6, <3>7
  <2>5. CASE IsNumber(lexeme, file)
    <3>1. /\ CharAt(pos) \in Digits /\ Run(pos, NumberChars) = lexeme.to - pos
          /\ pos < lexeme.to /\ lexeme.to < Len(file) /\ lexeme.type = "NUMBER"
      BY <2>1, <2>5, AtLexemeStart DEF IsNumber
    <3>2. Number
      BY <1>1, <3>1, AtOther
    <3>3. pos + (lexeme.to - pos) = lexeme.to
      BY <1>1, <2>2
    <3>4. AddToken("NUMBER", Read(pos, lexeme.to - pos)) /\ Goto(lexeme.to)
      BY <1>1, <3>1, <3>2, <3>3, NumberGoes
    <3>5. Read(pos, lexeme.to - pos) = [k \in 1 .. lexeme.to - lexeme.from |-> file[lexeme.from + k]]
      <4>1. ASSUME NEW k \in 1 .. lexeme.to - lexeme.from
            PROVE  CharAt(pos + k - 1) = file[lexeme.from + k]
        BY <1>1, <2>2, <4>1 DEF CharAt
      <4> QED
        BY <2>2, <4>1 DEF Read
    <3> HIDE DEF lexeme
    <3>6. ReadUpTo(lexemes, n + 1)'
      BY <2>1, <3>1, <3>2, <3>4, <3>5, LexemeAdded DEF lexeme, Number, Reading
    <3> QED
      BY <1>3, <3>2, <3>6 DEF Number, Reading
  <2>6. CASE IsString(lexeme, file)
    <3>1. /\ CharAt(pos) = "\"" /\ Quoted = lexeme.to - pos - 2 /\ pos + 2 <= lexeme.to
          /\ CharAt(pos + 1 + Quoted) = "\"" /\ lexeme.type = "STRING"
      BY <2>1, <2>6, AtLexemeStart DEF IsString
    <3>2. String
      BY <1>1, <3>1, AtOther DEF NotString
    <3>3. pos + Quoted + 2 = lexeme.to /\ Quoted + 2 = lexeme.to - lexeme.from
      <4> DEFINE to == lexeme.to
      <4>1. to \in Nat /\ lexeme.from = pos /\ Quoted = to - pos - 2
        BY <2>2, <3>1
      <4> HIDE DEF to
      <4>2. pos + Quoted + 2 = to /\ Quoted + 2 = to - pos
        BY <1>1, <4>1
      <4> QED
        BY <4>1, <4>2 DEF to
    <3>4. AddToken("STRING", Read(pos, Quoted + 2)) /\ Goto(lexeme.to)
      BY <3>2, <3>3 DEF String
    <3>5. Read(pos, Quoted + 2) = [k \in 1 .. lexeme.to - lexeme.from |-> file[lexeme.from + k]]
      <4>1. ASSUME NEW k \in 1 .. lexeme.to - lexeme.from
            PROVE  CharAt(pos + k - 1) = file[lexeme.from + k]
        BY <1>1, <2>2, <4>1 DEF CharAt
      <4> QED
        BY <2>2, <3>3, <4>1 DEF Read
    <3> HIDE DEF lexeme
    <3>6. ReadUpTo(lexemes, n + 1)'
      BY <2>1, <3>1, <3>2, <3>4, <3>5, LexemeAdded DEF lexeme, String, Reading
    <3> QED
      BY <1>3, <3>2, <3>6 DEF String, Reading
  <2> QED
    BY <1>1, <2>1, <2>3, <2>4, <2>5, <2>6, CutType
<1> QED
  BY <1>1, <1>2, <1>3

\* Between lexemes there is no dead end.
LEMMA NoDeadEnd ==
  ASSUME TypeOK, NEW lexemes, IsCut(lexemes, file), NEW n \in 0 .. Len(lexemes),
         ReadUpTo(lexemes, n)
  PROVE  ~AtDeadEnd
<1>0. SUFFICES ASSUME status = "lexing" PROVE ~AtDeadEnd
  BY DEF AtDeadEnd
<1>1. /\ pos \in Nat /\ file \in Seq(Char) /\ Len(file) \in Nat /\ Len(lexemes) \in Nat
  BY DEF TypeOK, IsCut
<1>2. CASE n = Len(lexemes)
  <2>1. CharAt(pos) \in {EOF} \cup Unknown
    BY <1>0, <1>1, <1>2, BehindTheCut DEF ReadUpTo
  <2> QED
    BY <2>1, SpellingType DEF AtDeadEnd, Unknown, EOF, Digits
<1>3. CASE n < Len(lexemes)
  <2> DEFINE lexeme == lexemes[n + 1]
  <2>1. n \in 0 .. Len(lexemes) - 1
    BY <1>1, <1>3
  <2>2. CASE IsBlank(lexeme, file) \/ IsMark(lexeme, file)
    <3>1. CharAt(pos) \in Spaces \cup PunctuationMarks
      BY <1>0, <2>1, <2>2, AtLexemeStart
    <3> QED
      BY <3>1, SpellingType DEF AtDeadEnd, Spaces, PunctuationMarks, Digits
  <2>3. CASE IsNumber(lexeme, file)
    <3>1. CharAt(pos) \in Digits /\ Run(pos, NumberChars) = lexeme.to - pos /\ lexeme.to < Len(file)
          /\ lexeme.to \in Nat
      BY <1>0, <1>1, <2>1, <2>3, AtLexemeStart, CutType
    <3>2. pos + Run(pos, NumberChars) = lexeme.to
      BY <1>1, <3>1
    <3>3. CharAt(pos + Run(pos, NumberChars)) # EOF
      <4>1. file[lexeme.to + 1] \in Char
        BY <1>1, <3>1
      <4> QED
        BY <3>1, <3>2, <4>1 DEF CharAt, EOF, Char, Ascii, Digits, Spaces, PunctuationMarks, Letters
    <3> QED
      BY <3>1, <3>3, SpellingType DEF AtDeadEnd, Digits, NumberChars
  <2>4. CASE IsString(lexeme, file)
    <3>1. CharAt(pos) = "\"" /\ CharAt(pos + 1 + Quoted) = "\""
      BY <1>0, <2>1, <2>4, AtLexemeStart
    <3> QED
      BY <3>1, SpellingType DEF AtDeadEnd, EOF, Digits
  <2> QED
    BY <1>1, <2>1, <2>2, <2>3, <2>4, CutType
<1> QED
  BY <1>1, <1>2, <1>3

\* Of a file that is cut into lexemes, some have been read.
ReadAs(lexemes) ==
  IsCut(lexemes, file) =>
    \E n \in 0 .. Len(lexemes) :
      ReadUpTo(lexemes, n) /\ (status = "done" => n = Len(lexemes))

LEMMA NothingRead == \A lexemes : Start(file) => ReadAs(lexemes)
<1> SUFFICES ASSUME NEW lexemes, Start(file), IsCut(lexemes, file)
             PROVE  ReadUpTo(lexemes, 0) /\ status # "done" /\ 0 \in 0 .. Len(lexemes)
  BY DEF ReadAs
<1>1. tokens = <<>> /\ pos = 0 /\ unread = NoChar /\ status = "lexing"
  BY DEF Start
<1>2. Count(lexemes, 0) = 0 /\ Significant(lexemes, 0) = {} /\ Len(lexemes) \in Nat
  BY CountNext DEF Significant, IsCut
<1> QED
  BY <1>1, <1>2 DEF ReadUpTo, Boundary

LEMMA ReadAsKept == \A lexemes : TypeOK /\ ReadAs(lexemes) /\ [Next]_vars => ReadAs(lexemes)'
<1> SUFFICES ASSUME NEW lexemes, TypeOK, ReadAs(lexemes), [Next]_vars, IsCut(lexemes, file)'
             PROVE  \E n \in 0 .. Len(lexemes) :
                      (ReadUpTo(lexemes, n) /\ (status = "done" => n = Len(lexemes)))'
  BY DEF ReadAs
<1>1. file' = file
  BY DEF Next, vars, Mark, Keyword, NotKeyword, Space, Number, String, NotString, Invalid,
    EndOfFile, Reading
<1>2. IsCut(lexemes, file)
  BY <1>1
<1>3. PICK n \in 0 .. Len(lexemes) : ReadUpTo(lexemes, n) /\ (status = "done" => n = Len(lexemes))
  BY <1>2 DEF ReadAs
<1>4. CASE UNCHANGED vars
  <2>1. ReadUpTo(lexemes, n)'
    BY <1>3, <1>4 DEF vars, ReadUpTo, AsToken, TextOf
  <2> QED
    BY <1>3, <1>4, <2>1 DEF vars
<1>5. CASE Next
  <2>1. status = "lexing"
    BY <1>5 DEF Next, Mark, Keyword, NotKeyword, Space, Number, String, NotString, Invalid,
                EndOfFile, Reading
  <2>2. CASE n = Len(lexemes) /\ ReadUpTo(lexemes, n)'
    BY <2>2
  <2>3. CASE n < Len(lexemes) /\ ReadUpTo(lexemes, n + 1)' /\ status' = "lexing"
    <3>1. n + 1 \in 0 .. Len(lexemes)
      BY <1>2, <2>3 DEF IsCut
    <3> QED
      BY <2>3, <3>1
  <2> QED
    BY <1>2, <1>3, <1>5, <2>1, <2>2, <2>3, LexemeRead
<1> QED
  BY <1>4, <1>5

\* Every file that is cut into lexemes other than keywords is read lexeme by lexeme, to
\* its end or to a character the tokenizer does not know, with no character lost or read
\* twice (matchNumber, matchString and the ways back of lexer, 77, 234, 253).
THEOREM LexemesAreRead == Spec => []TokensAreTheLexemes
<1> DEFINE I == Inv /\ ReadAs(Lexemes[file])
<1>1. Init => I
  BY InitStarts, StartEstablishesInv, NothingRead
<1>2. I /\ [Next]_vars => I'
  <2> SUFFICES ASSUME I, [Next]_vars PROVE I'
    OBVIOUS
  <2>1. file' = file
    BY DEF Next, vars, Mark, Keyword, NotKeyword, Space, Number, String, NotString, Invalid,
      EndOfFile, Reading
  <2>2. PICK lexemes : lexemes = Lexemes[file]
    OBVIOUS
  <2>3. Inv' /\ ReadAs(lexemes)'
    BY <2>2, NextPreservesInv, ReadAsKept DEF Inv
  <2>4. Lexemes[file]' = lexemes
    BY <2>1, <2>2
  <2>5. ReadAs(Lexemes[file])' <=> ReadAs(lexemes)'
    BY <2>1, <2>4 DEF ReadAs, ReadUpTo
  <2> QED
    BY <2>3, <2>5
<1>3. I => TokensAreTheLexemes
  <2> SUFFICES ASSUME I, file \in DOMAIN Lexemes
               PROVE  /\ \E n \in 0 .. Len(Lexemes[file]) :
                           /\ ReadUpTo(Lexemes[file], n)
                           /\ status = "done" => n = Len(Lexemes[file])
                      /\ ~AtDeadEnd
    BY DEF TokensAreTheLexemes
  <2>1. IsCut(Lexemes[file], file)
    BY FilesAreCut
  <2> QED
    BY <2>1, NoDeadEnd DEF ReadAs, Inv
<1> QED
  BY <1>1, <1>2, <1>3, PTL DEF Spec
-----------------------------------------------------------------------------
(***************************************************************************)
(* Files that are written one behind the other.                            *)
(***************************************************************************)

\* The lexeme in a file that has so many characters before.
Moved(lexeme, d) == [type |-> lexeme.type, from |-> lexeme.from + d, to |-> lexeme.to + d]

\* The lexemes of the first file, and behind them those of the second.
Joined(lexemes, f, others) ==
  [k \in 1 .. Len(lexemes) + Len(others) |->
     IF k <= Len(lexemes) THEN lexemes[k] ELSE Moved(others[k - Len(lexemes)], Len(f))]

\* File f is part of file g, behind its first d characters.
IsPart(f, d, g) == d + Len(f) <= Len(g) /\ \A k \in 1 .. Len(f) : g[d + k] = f[k]

IsLexeme(lexeme, f) ==
  IsBlank(lexeme, f) \/ IsMark(lexeme, f) \/ IsNumber(lexeme, f) \/ IsString(lexeme, f)

LEMMA LexemeMoves ==
  ASSUME NEW f \in Seq(Char), NEW g \in Seq(Char), NEW d \in Nat, IsPart(f, d, g),
         NEW lexeme \in Place, lexeme.to <= Len(f), IsLexeme(lexeme, f)
  PROVE  /\ Moved(lexeme, d) \in Place /\ Moved(lexeme, d).to <= d + Len(f)
         /\ IsLexeme(Moved(lexeme, d), g)
         /\ TextOf(Moved(lexeme, d), g) = TextOf(lexeme, f)
<1> DEFINE moved == Moved(lexeme, d)
<1>1. PICK from \in Nat, to \in Nat, m \in Nat :
        /\ from = lexeme.from /\ to = lexeme.to /\ to <= m /\ m = Len(f)
  BY DEF Place
<1>0. from \in Int /\ from >= 0 /\ to \in Int /\ m \in Int /\ to <= m /\ d \in Int /\ d >= 0
  BY <1>1
<1>2. /\ moved.type = lexeme.type /\ moved.from = from + d /\ moved.to = to + d
      /\ moved \in Place /\ moved.to <= d + m
  BY <1>1 DEF Moved, Place
<1>3. \A k \in 1 .. m : g[k + d] = f[k]
  BY <1>1 DEF IsPart
<1>4. TextOf(moved, g) = TextOf(lexeme, f)
  <2>1. (to + d) - (from + d) = to - from
    BY <1>1
  <2>2. \A k \in 1 .. to - from : g[(from + d) + k] = f[from + k]
    <3> SUFFICES ASSUME NEW k \in 1 .. to - from PROVE g[(from + d) + k] = f[from + k]
      OBVIOUS
    <3>1. from + k \in 1 .. m /\ (from + d) + k = (from + k) + d
      BY <1>1
    <3> QED
      BY <1>3, <3>1
  <2> QED
    BY <1>1, <1>2, <2>1, <2>2 DEF TextOf
<1>5. CASE IsBlank(lexeme, f) \/ IsMark(lexeme, f)
  <2>1. to = from + 1 /\ to \in 1 .. m /\ to + d = (from + d) + 1
    BY <1>1, <1>5 DEF IsBlank, IsMark
  <2>2. g[to + d] = f[to]
    BY <1>3, <2>1
  <2> QED
    BY <1>1, <1>2, <1>4, <1>5, <2>1, <2>2 DEF IsBlank, IsMark, IsLexeme
<1>6. CASE IsNumber(lexeme, f)
  <2>1. from < to /\ to < m /\ from + 1 \in 1 .. m /\ to + 1 \in 1 .. m
    BY <1>1, <1>6 DEF IsNumber
  <2>2. /\ f[from + 1] \in Digits /\ f[to + 1] \notin NumberChars
        /\ \A k \in from + 1 .. to : f[k] \in NumberChars
    BY <1>1, <1>6 DEF IsNumber
  <2>3. g[(from + d) + 1] \in Digits /\ g[(to + d) + 1] \notin NumberChars
    <3>1. g[(from + 1) + d] = f[from + 1] /\ g[(to + 1) + d] = f[to + 1]
      BY <1>3, <2>1
    <3>2. (from + d) + 1 = (from + 1) + d /\ (to + d) + 1 = (to + 1) + d
      BY <1>1
    <3> QED
      BY <2>2, <3>1, <3>2
  <2>4. \A k \in (from + d) + 1 .. to + d : g[k] \in NumberChars
    <3> SUFFICES ASSUME NEW k \in (from + d) + 1 .. to + d PROVE g[k] \in NumberChars
      OBVIOUS
    <3>1. k - d \in from + 1 .. to /\ k - d \in 1 .. m /\ (k - d) + d = k
      BY <1>0, <2>1
    <3>2. g[(k - d) + d] = f[k - d] /\ f[k - d] \in NumberChars
      BY <1>3, <2>2, <3>1
    <3> QED
      BY <3>1, <3>2
  <2>5. from + d < to + d /\ to + d < Len(g)
    BY <1>1, <2>1 DEF IsPart
  <2>6. IsNumber(moved, g)
    BY <1>2, <1>6, <2>3, <2>4, <2>5 DEF IsNumber
  <2> QED
    BY <1>1, <1>2, <1>4, <2>6 DEF IsLexeme
<1>7. CASE IsString(lexeme, f)
  <2>0. from + 2 <= to
    BY <1>1, <1>7 DEF IsString
  <2>1. from + 2 <= to /\ from + 1 \in 1 .. m /\ to \in 1 .. m
    BY <1>0, <2>0
  <2>2. /\ f[from + 1] = "\"" /\ f[to] = "\""
        /\ \A k \in from + 2 .. to - 1 : f[k] \in InString
    BY <1>1, <1>7 DEF IsString
  <2>3. g[(from + d) + 1] = "\"" /\ g[to + d] = "\""
    <3>1. g[(from + 1) + d] = f[from + 1] /\ g[to + d] = f[to]
      BY <1>3, <2>1
    <3>2. (from + d) + 1 = (from + 1) + d
      BY <1>1
    <3> QED
      BY <2>2, <3>1, <3>2
  <2>4. \A k \in (from + d) + 2 .. (to + d) - 1 : g[k] \in InString
    <3> SUFFICES ASSUME NEW k \in (from + d) + 2 .. (to + d) - 1 PROVE g[k] \in InString
      OBVIOUS
    <3>1. k - d \in from + 2 .. to - 1 /\ k - d \in 1 .. m /\ (k - d) + d = k
      BY <1>0, <2>1
    <3>2. g[(k - d) + d] = f[k - d] /\ f[k - d] \in InString
      BY <1>3, <2>2, <3>1
    <3> QED
      BY <3>1, <3>2
  <2>5. (from + d) + 2 <= to + d
    BY <1>1, <2>1
  <2>6. IsString(moved, g)
    BY <1>2, <1>7, <2>3, <2>4, <2>5 DEF IsString
  <2> QED
    BY <1>1, <1>2, <1>4, <2>6 DEF IsLexeme
<1> QED
  BY <1>5, <1>6, <1>7 DEF IsLexeme

\* And in a file that goes on behind f it is where it was.
LEMMA LexemeStays ==
  ASSUME NEW f \in Seq(Char), NEW g \in Seq(Char), IsPart(f, 0, g),
         NEW lexeme \in Place, lexeme.to <= Len(f), IsLexeme(lexeme, f)
  PROVE  IsLexeme(lexeme, g) /\ TextOf(lexeme, g) = TextOf(lexeme, f)
<1>1. lexeme = [type |-> lexeme.type, from |-> lexeme.from, to |-> lexeme.to]
  BY DEF Place
<1>2. lexeme.from + 0 = lexeme.from /\ lexeme.to + 0 = lexeme.to
  BY DEF Place
<1>3. Moved(lexeme, 0) = lexeme
  BY <1>1, <1>2 DEF Moved
<1> QED
  BY <1>3, LexemeMoves

LEMMA Parts ==
  ASSUME NEW f \in Seq(Char), NEW g \in Seq(Char)
  PROVE  /\ f \o g \in Seq(Char) /\ Len(f \o g) = Len(f) + Len(g)
         /\ Len(f) \in Nat /\ Len(g) \in Nat
         /\ IsPart(f, 0, f \o g) /\ IsPart(g, Len(f), f \o g)
BY DEF IsPart

\* The lexemes of a cut are in its file.
LEMMA CutPlaces ==
  ASSUME NEW f \in Seq(Char), NEW lexemes, IsCut(lexemes, f)
  PROVE  /\ Len(lexemes) \in Nat /\ lexemes \in Seq(Place)
         /\ \A k \in 1 .. Len(lexemes) :
              /\ lexemes[k] \in Place /\ lexemes[k].from = Boundary(lexemes, k - 1)
              /\ lexemes[k].to <= Len(f) /\ IsLexeme(lexemes[k], f)
         /\ \A k \in 0 .. Len(lexemes) : Boundary(lexemes, k) \in 0 .. Len(f)
<1>1. lexemes \in Seq(Place) /\ Len(lexemes) \in Nat /\ Len(f) \in Nat
  BY DEF IsCut
<1>2. ASSUME NEW k \in 1 .. Len(lexemes)
      PROVE  /\ lexemes[k] \in Place /\ lexemes[k].from = Boundary(lexemes, k - 1)
             /\ lexemes[k].to <= Len(f) /\ IsLexeme(lexemes[k], f)
  BY <1>1 DEF IsCut, IsLexeme
<1>3. ASSUME NEW k \in 0 .. Len(lexemes) PROVE Boundary(lexemes, k) \in 0 .. Len(f)
  <2>1. CASE k = 0
    BY <1>1, <2>1 DEF Boundary
  <2>2. CASE k # 0
    <3>1. lexemes[k] \in Place /\ lexemes[k].to <= Len(f)
      BY <1>1, <1>2, <2>2
    <3>2. lexemes[k].to \in Nat
      BY <3>1 DEF Place
    <3> QED
      BY <1>1, <2>2, <3>1, <3>2 DEF Boundary
  <2> QED
    BY <2>1, <2>2
<1> QED
  BY <1>1, <1>2, <1>3

\* The two cuts are one.
LEMMA JoinedCut ==
  ASSUME NEW f \in Seq(Char), NEW g \in Seq(Char), NEW lexemes, NEW others,
         IsCut(lexemes, f), IsWhole(lexemes, f), IsCut(others, g)
  PROVE  /\ IsCut(Joined(lexemes, f, others), f \o g)
         /\ Len(Joined(lexemes, f, others)) = Len(lexemes) + Len(others)
         /\ IsWhole(Joined(lexemes, f, others), f \o g) <=> IsWhole(others, g)
<1> DEFINE all == Joined(lexemes, f, others)
<1>1. PICK n \in Nat, m \in Nat, d \in Nat, e \in Nat :
        n = Len(lexemes) /\ m = Len(others) /\ d = Len(f) /\ e = Len(g)
  BY CutPlaces
<1>2. /\ f \o g \in Seq(Char) /\ Len(f \o g) = d + e
      /\ IsPart(f, 0, f \o g) /\ IsPart(g, d, f \o g)
  BY <1>1, Parts
<1>3. ASSUME NEW k \in 1 .. n
      PROVE  /\ all[k] = lexemes[k] /\ all[k] \in Place /\ all[k].to <= d
             /\ all[k].from = Boundary(lexemes, k - 1) /\ IsLexeme(all[k], f \o g)
  <2>1. all[k] = lexemes[k]
    BY <1>1 DEF Joined
  <2>2. lexemes[k] \in Place /\ lexemes[k].to <= d /\ IsLexeme(lexemes[k], f)
        /\ lexemes[k].from = Boundary(lexemes, k - 1)
    BY <1>1, CutPlaces
  <2> QED
    BY <1>1, <1>2, <2>1, <2>2, LexemeStays
<1>4. ASSUME NEW k \in 1 .. m
      PROVE  /\ all[n + k] = Moved(others[k], d) /\ all[n + k] \in Place /\ all[n + k].to <= d + e
             /\ all[n + k].from = Boundary(others, k - 1) + d
             /\ all[n + k].to = others[k].to + d /\ IsLexeme(all[n + k], f \o g)
  <2>1. all[n + k] = Moved(others[k], d)
    <3>1. n + k \in 1 .. n + m /\ ~(n + k <= n) /\ (n + k) - n = k
      BY <1>1
    <3> QED
      BY <1>1, <3>1 DEF Joined
  <2>2. others[k] \in Place /\ others[k].to <= e /\ IsLexeme(others[k], g)
        /\ others[k].from = Boundary(others, k - 1)
    BY <1>1, CutPlaces
  <2>3. Moved(others[k], d) \in Place /\ Moved(others[k], d).to <= d + e
        /\ IsLexeme(Moved(others[k], d), f \o g)
    BY <1>1, <1>2, <2>2, LexemeMoves
  <2> QED
    BY <2>1, <2>2, <2>3 DEF Moved
<1>5. ASSUME NEW k \in 0 .. n PROVE Boundary(all, k) = Boundary(lexemes, k)
  BY <1>3 DEF Boundary
<1>6. ASSUME NEW k \in 0 .. m PROVE Boundary(all, n + k) = Boundary(others, k) + d
  <2>1. CASE k = 0
    <3>1. Boundary(all, n) = d
      BY <1>1, <1>5 DEF IsWhole
    <3> QED
      BY <1>1, <2>1, <3>1 DEF Boundary
  <2>2. CASE k # 0
    <3>1. k \in 1 .. m /\ n + k # 0
      BY <1>1, <2>2
    <3> QED
      BY <1>4, <2>2, <3>1 DEF Boundary
  <2> QED
    BY <2>1, <2>2
<1>7. all \in Seq(Place) /\ Len(all) = n + m
  <2>1. ASSUME NEW k \in 1 .. n + m PROVE all[k] \in Place
    <3>1. CASE k <= n
      BY <1>3, <3>1
    <3>2. CASE ~(k <= n)
      <4>1. k - n \in 1 .. m /\ n + (k - n) = k
        BY <1>1, <3>2
      <4>2. all[n + (k - n)] \in Place
        BY <1>4, <4>1
      <4> QED
        BY <4>1, <4>2
    <3> QED
      BY <3>1, <3>2
  <2>2. all = [k \in 1 .. n + m |-> all[k]] /\ n + m \in Nat
    BY <1>1 DEF Joined
  <2>3. all \in [1 .. n + m -> Place]
    BY <2>1, <2>2
  <2> QED
    BY <2>2, <2>3
<1>8. ASSUME NEW k \in 1 .. n + m
      PROVE  all[k].from = Boundary(all, k - 1) /\ all[k].to <= d + e /\ IsLexeme(all[k], f \o g)
  <2>1. CASE k <= n
    <3>1. k \in 1 .. n /\ k - 1 \in 0 .. n
      BY <1>1, <2>1
    <3>2. all[k].to \in Nat /\ all[k].to <= d
      BY <1>3, <3>1 DEF Place
    <3> QED
      BY <1>1, <1>3, <1>5, <3>1, <3>2
  <2>2. CASE ~(k <= n)
    <3>1. k - n \in 1 .. m /\ n + (k - n) = k /\ (k - n) - 1 \in 0 .. m
          /\ n + ((k - n) - 1) = k - 1
      BY <1>1, <2>2
    <3>2. /\ all[n + (k - n)].to <= d + e /\ IsLexeme(all[n + (k - n)], f \o g)
          /\ all[n + (k - n)].from = Boundary(others, (k - n) - 1) + d
      BY <1>4, <3>1
    <3>3. Boundary(all, n + ((k - n) - 1)) = Boundary(others, (k - n) - 1) + d
      BY <1>6, <3>1
    <3> QED
      BY <3>1, <3>2, <3>3
  <2> QED
    BY <2>1, <2>2
<1>9. Boundary(all, n + m) = Boundary(others, m) + d /\ Boundary(others, m) \in 0 .. e
  BY <1>1, <1>6, CutPlaces
<1>10. IsWhole(all, f \o g) <=> IsWhole(others, g)
  BY <1>1, <1>2, <1>7, <1>9 DEF IsWhole
<1>11. IsWhole(others, g) \/ (f \o g)[Boundary(all, n + m) + 1] \in Unknown
  <2> SUFFICES ASSUME ~IsWhole(others, g)
               PROVE  (f \o g)[Boundary(all, n + m) + 1] \in Unknown
    OBVIOUS
  <2>1. PICK b \in Nat : b = Boundary(others, m)
    BY <1>9
  <2>2. g[b + 1] \in Unknown /\ b # e
    BY <1>1, <2>1 DEF IsCut, IsWhole
  <2>3. b + 1 \in 1 .. e /\ (b + d) + 1 = d + (b + 1)
    BY <1>1, <1>9, <2>1, <2>2
  <2>4. (f \o g)[d + (b + 1)] = g[b + 1]
    BY <1>1, <1>2, <2>3 DEF IsPart
  <2> QED
    BY <1>9, <2>1, <2>2, <2>3, <2>4
<1>12. IsCut(all, f \o g)
  BY <1>2, <1>7, <1>8, <1>10, <1>11 DEF IsCut, IsLexeme
<1> QED
  BY <1>1, <1>7, <1>10, <1>12

\* A cut that stops before the end of its file stops there whatever comes behind.
LEMMA StoppedCut ==
  ASSUME NEW f \in Seq(Char), NEW g \in Seq(Char), NEW lexemes,
         IsCut(lexemes, f), ~IsWhole(lexemes, f)
  PROVE  IsCut(lexemes, f \o g) /\ ~IsWhole(lexemes, f \o g)
<1>1. PICK n \in Nat, d \in Nat, e \in Nat, b \in Nat :
        n = Len(lexemes) /\ d = Len(f) /\ e = Len(g) /\ b = Boundary(lexemes, n) /\ b <= d
  BY CutPlaces
<1>2. f \o g \in Seq(Char) /\ Len(f \o g) = d + e /\ IsPart(f, 0, f \o g)
  BY <1>1, Parts
<1>3. b # d /\ f[b + 1] \in Unknown
  BY <1>1 DEF IsCut, IsWhole
<1>4. (f \o g)[b + 1] \in Unknown
  <2>1. b + 1 \in 1 .. d /\ 0 + (b + 1) = b + 1
    BY <1>1, <1>3
  <2>2. (f \o g)[0 + (b + 1)] = f[b + 1]
    BY <1>1, <1>2, <2>1 DEF IsPart
  <2> QED
    BY <1>3, <2>1, <2>2
<1>5. ASSUME NEW k \in 1 .. Len(lexemes)
      PROVE  /\ lexemes[k].from = Boundary(lexemes, k - 1) /\ lexemes[k].to <= Len(f \o g)
             /\ IsLexeme(lexemes[k], f \o g)
  <2>1. /\ lexemes[k] \in Place /\ lexemes[k].from = Boundary(lexemes, k - 1)
        /\ lexemes[k].to <= d /\ IsLexeme(lexemes[k], f)
    BY <1>1, CutPlaces
  <2>2. lexemes[k].to <= d + e
    BY <1>1, <2>1 DEF Place
  <2> QED
    BY <1>1, <1>2, <2>1, <2>2, LexemeStays
<1>6. b # d + e
  BY <1>1, <1>3
<1> QED
  BY <1>1, <1>2, <1>4, <1>5, <1>6, CutPlaces DEF IsCut, IsWhole, IsLexeme

\* What the lexemes of the first file are, and how many tokens they make, they are and
\* make of both; those of the second are as many further on.
LEMMA JoinedFirst ==
  ASSUME NEW f \in Seq(Char), NEW g \in Seq(Char), NEW lexemes, NEW others,
         IsCut(lexemes, f), IsCut(others, g), NEW k \in 0 .. Len(lexemes)
  PROVE  /\ Count(Joined(lexemes, f, others), k) = Count(lexemes, k)
         /\ k # 0 => /\ k \in 1 .. Len(Joined(lexemes, f, others))
                     /\ Joined(lexemes, f, others)[k] = lexemes[k]
                     /\ TextOf(lexemes[k], f \o g) = TextOf(lexemes[k], f)
<1> DEFINE all == Joined(lexemes, f, others)
<1>1. PICK n \in Nat, m \in Nat : n = Len(lexemes) /\ m = Len(others)
  BY CutPlaces
<1>2. \A j \in 1 .. n : j \in 1 .. n + m /\ all[j] = lexemes[j]
  BY <1>1 DEF Joined
<1>3. Len(all) = n + m
  BY <1>1 DEF Joined
<1>4. Significant(all, k) = Significant(lexemes, k)
  <2>1. \A j \in 1 .. k : j \in 1 .. n
    BY <1>1
  <2> QED
    BY <1>2, <2>1 DEF Significant
<1>5. ASSUME k # 0
      PROVE  TextOf(lexemes[k], f \o g) = TextOf(lexemes[k], f)
  <2>1. lexemes[k] \in Place /\ lexemes[k].to <= Len(f) /\ IsLexeme(lexemes[k], f)
    BY <1>1, <1>5, CutPlaces
  <2>2. f \o g \in Seq(Char) /\ IsPart(f, 0, f \o g)
    BY Parts
  <2> QED
    BY <2>1, <2>2, LexemeStays
<1> QED
  BY <1>1, <1>2, <1>3, <1>4, <1>5 DEF Count

LEMMA JoinedSecond ==
  ASSUME NEW f \in Seq(Char), NEW g \in Seq(Char), NEW lexemes, NEW others,
         IsCut(lexemes, f), IsCut(others, g), NEW k \in 0 .. Len(others),
         NEW j, j = Len(lexemes) + k
  PROVE  /\ Count(Joined(lexemes, f, others), j) =
              Count(lexemes, Len(lexemes)) + Count(others, k)
         /\ k # 0 => /\ j \in 1 .. Len(Joined(lexemes, f, others))
                     /\ Joined(lexemes, f, others)[j].type = others[k].type
                     /\ TextOf(Joined(lexemes, f, others)[j], f \o g) = TextOf(others[k], g)
<1> DEFINE all == Joined(lexemes, f, others)
<1>1. PICK n \in Nat, m \in Nat : n = Len(lexemes) /\ m = Len(others)
  BY CutPlaces
<1>2. ASSUME NEW i \in 1 .. m
      PROVE  n + i \in 1 .. n + m /\ all[n + i] = Moved(others[i], Len(f))
  <2>1. n + i \in 1 .. n + m /\ ~(n + i <= n) /\ (n + i) - n = i
    BY <1>1
  <2> QED
    BY <1>1, <2>1 DEF Joined
<1>3. \A i \in 1 .. n : all[i] = lexemes[i] /\ Len(all) = n + m
  BY <1>1 DEF Joined
<1>4. Len(all) = n + m
  BY <1>1 DEF Joined
<1> DEFINE behind == {n + i : i \in Significant(others, k)}
<1>5. \A i \in 1 .. k : i \in 1 .. m
  BY <1>1
<1>6. Significant(all, n + k) = Significant(lexemes, n) \cup behind
  <2>1. ASSUME NEW i \in 1 .. n + k
        PROVE  all[i].type # "BLANK" <=> i \in Significant(lexemes, n) \cup behind
    <3>1. CASE i <= n
      <4>1. i \in 1 .. n /\ i \notin behind
        BY <1>1, <3>1 DEF Significant
      <4> QED
        BY <1>3, <4>1 DEF Significant
    <3>2. CASE ~(i <= n)
      <4>1. i - n \in 1 .. k /\ n + (i - n) = i /\ i \notin 1 .. n
        BY <1>1, <3>2
      <4>2. all[i].type = others[i - n].type
        <5>1. all[n + (i - n)] = Moved(others[i - n], Len(f))
          BY <1>2, <1>5, <4>1
        <5> QED
          BY <4>1, <5>1 DEF Moved
      <4>3. i \in behind <=> i - n \in Significant(others, k)
        <5>1. ASSUME NEW h \in Significant(others, k), i = n + h PROVE h = i - n
          BY <1>1, <5>1 DEF Significant
        <5> QED
          BY <4>1, <5>1
      <4> QED
        BY <4>1, <4>2, <4>3 DEF Significant
    <3> QED
      BY <3>1, <3>2
  <2>2. ASSUME NEW i \in Significant(lexemes, n) \cup behind PROVE i \in 1 .. n + k
    BY <1>1 DEF Significant
  <2> QED
    BY <2>1, <2>2 DEF Significant
<1>7. /\ IsFiniteSet(Significant(lexemes, n)) /\ IsFiniteSet(Significant(others, k))
      /\ Count(lexemes, n) \in Nat /\ Count(others, k) \in Nat
  BY <1>1, SignificantFinite
<1>8. IsFiniteSet(behind) /\ Cardinality(behind) = Count(others, k)
  <2> DEFINE move == [i \in Significant(others, k) |-> n + i]
  <2>1. move \in Bijection(Significant(others, k), behind)
    <3>1. \A a, b \in Significant(others, k) : n + a = n + b => a = b
      BY <1>1 DEF Significant
    <3> QED
      BY <3>1 DEF Bijection, Injection, Surjection, IsInjective
  <2> QED
    BY <1>7, <2>1, FS_Bijection DEF ExistsBijection, Count
<1>9. Significant(lexemes, n) \cap behind = {}
  BY <1>1 DEF Significant
<1>10. Count(all, n + k) = Count(lexemes, n) + Count(others, k)
  <2>1. Cardinality({}) = 0
    BY FS_EmptySet
  <2>2. Cardinality(Significant(all, n + k)) =
          Cardinality(Significant(lexemes, n)) + Cardinality(behind) - 0
    BY <1>6, <1>7, <1>8, <1>9, <2>1, FS_Union
  <2> QED
    BY <1>7, <1>8, <2>2 DEF Count
<1>11. ASSUME k # 0
       PROVE  /\ n + k \in 1 .. n + m /\ all[n + k].type = others[k].type
              /\ TextOf(all[n + k], f \o g) = TextOf(others[k], g)
  <2>1. k \in 1 .. m
    BY <1>1, <1>11
  <2>2. others[k] \in Place /\ others[k].to <= Len(g) /\ IsLexeme(others[k], g)
    BY <1>1, <2>1, CutPlaces
  <2>3. f \o g \in Seq(Char) /\ IsPart(g, Len(f), f \o g) /\ Len(f) \in Nat
    BY Parts
  <2>4. TextOf(Moved(others[k], Len(f)), f \o g) = TextOf(others[k], g)
    BY <2>2, <2>3, LexemeMoves
  <2>5. n + k \in 1 .. n + m /\ all[n + k] = Moved(others[k], Len(f))
    BY <1>2, <2>1
  <2>6. Moved(others[k], Len(f)).type = others[k].type
    BY DEF Moved
  <2> QED
    BY <2>4, <2>5, <2>6
<1> QED
  BY <1>1, <1>4, <1>10, <1>11

\* Of every token there is the lexeme.
LEMMA LexemeOf ==
  ASSUME NEW lexemes, NEW n \in Nat, NEW p \in 1 .. Count(lexemes, n)
  PROVE  \E k \in Significant(lexemes, n) : Count(lexemes, k) = p
<1> DEFINE S == Significant(lexemes, n)
           T == 1 .. Count(lexemes, n)
           count == [k \in S |-> Count(lexemes, k)]
<1>1. IsFiniteSet(S) /\ Cardinality(S) = Count(lexemes, n) /\ Count(lexemes, n) \in Nat
  BY SignificantFinite DEF Count
<1>2. IsFiniteSet(T) /\ Cardinality(T) = Count(lexemes, n)
  BY <1>1, FS_Interval
<1>3. ASSUME NEW j \in S, NEW k \in S, j < k
      PROVE  Count(lexemes, j) < Count(lexemes, k)
  <2>1. j \in Nat /\ k \in Nat /\ k - 1 \in Nat /\ (k - 1) + 1 = k /\ lexemes[k].type # "BLANK"
    BY <1>3 DEF Significant
  <2>2. Count(lexemes, k) = Count(lexemes, k - 1) + 1
    BY <2>1, CountNext
  <2>3. Significant(lexemes, j) \subseteq Significant(lexemes, k - 1)
    BY <1>3, <2>1 DEF Significant
  <2>4. Count(lexemes, j) <= Count(lexemes, k - 1) /\ Count(lexemes, k - 1) \in Nat
        /\ Count(lexemes, j) \in Nat
    BY <2>1, <2>3, SignificantFinite, FS_Subset DEF Count
  <2> QED
    BY <2>2, <2>4
<1>4. count \in Injection(S, T)
  <2>1. count \in [S -> T]
    BY CountWithin
  <2>2. ASSUME NEW j \in S, NEW k \in S, Count(lexemes, j) = Count(lexemes, k)
        PROVE  j = k
    <3>1. j \in Nat /\ k \in Nat
      BY DEF Significant
    <3>2. Count(lexemes, j) \in Nat /\ Count(lexemes, k) \in Nat
      BY <3>1, SignificantFinite
    <3>3. j < k \/ k < j \/ j = k
      BY <3>1
    <3> QED
      BY <1>3, <2>2, <3>2, <3>3
  <2> QED
    BY <2>1, <2>2 DEF Injection, IsInjective
<1>5. count \in Surjection(S, T)
  BY <1>1, <1>2, <1>4, FS_Injection
<1> QED
  BY <1>5 DEF Surjection

-----------------------------------------------------------------------------
(***************************************************************************)
(* Texts by the tokens that are made of them.                              *)
(***************************************************************************)

\* A token as it is told from others: a number by its text.
Sign(type) == [type |-> type, text |-> <<>>]
Numeral(text) == [type |-> "NUMBER", text |-> text]

Signs == Seq([type : TokenTypes, text : Seq(Char)])

\* The tokens of a text are these, or the first of these if it is not cut to its end.
Spells(lexemes, f, signs) ==
  /\ IsCut(lexemes, f)
  /\ Count(lexemes, Len(lexemes)) <= Len(signs)
  /\ IsWhole(lexemes, f) => Count(lexemes, Len(lexemes)) = Len(signs)
  /\ \A k \in Significant(lexemes, Len(lexemes)) :
       /\ lexemes[k].type = signs[Count(lexemes, k)].type
       /\ lexemes[k].type = "NUMBER" => TextOf(lexemes[k], f) = signs[Count(lexemes, k)].text

Reads(f, signs, whole) ==
  \E lexemes : Spells(lexemes, f, signs) /\ (whole => IsWhole(lexemes, f))

LEMMA OneBehindTheOther ==
  ASSUME NEW S, NEW a \in Seq(S), NEW b \in Seq(S), NEW n \in Nat, n = Len(a)
  PROVE  /\ a \o b \in Seq(S) /\ Len(b) \in Nat /\ Len(a \o b) = n + Len(b)
         /\ \A k \in 1 .. n : (a \o b)[k] = a[k]
         /\ \A k \in 1 .. Len(b) : (a \o b)[n + k] = b[k]
OBVIOUS

LEMMA SingleSeq == ASSUME NEW S, NEW c \in S PROVE <<c>> \in Seq(S) /\ Len(<<c>>) = 1 /\ <<c>>[1] = c
OBVIOUS

LEMMA LargerSeq == ASSUME NEW S, NEW T, NEW s \in Seq(S), S \subseteq T PROVE s \in Seq(T)
OBVIOUS

LEMMA SpelledBehind ==
  ASSUME NEW f \in Seq(Char), NEW g \in Seq(Char), NEW signs \in Signs, NEW more \in Signs,
         NEW lexemes, NEW others,
         Spells(lexemes, f, signs), IsWhole(lexemes, f), Spells(others, g, more)
  PROVE  /\ Spells(Joined(lexemes, f, others), f \o g, signs \o more)
         /\ IsWhole(Joined(lexemes, f, others), f \o g) <=> IsWhole(others, g)
<1> DEFINE all == Joined(lexemes, f, others)
<1>0. IsCut(lexemes, f) /\ IsCut(others, g)
  BY DEF Spells
<1>1. PICK n \in Nat, m \in Nat, c \in Nat, e \in Nat :
        /\ n = Len(lexemes) /\ m = Len(others)
        /\ c = Count(lexemes, n) /\ e = Count(others, m)
  BY <1>0, CutPlaces, SignificantFinite
<1>2. /\ IsCut(all, f \o g) /\ Len(all) = n + m
      /\ IsWhole(all, f \o g) <=> IsWhole(others, g)
  BY <1>0, <1>1, JoinedCut
<1>3. /\ Len(signs) = c /\ Len(more) \in Nat /\ e <= Len(more)
      /\ IsWhole(others, g) => e = Len(more)
  BY <1>1 DEF Spells, Signs
<1>4. Count(all, n + m) = c + e
  <2>1. PICK j : j = Len(lexemes) + m
    OBVIOUS
  <2>2. m \in 0 .. Len(others)
    BY <1>1
  <2>3. Count(all, j) = Count(lexemes, Len(lexemes)) + Count(others, m)
    BY <1>0, <2>1, <2>2, JoinedSecond
  <2> QED
    BY <1>1, <2>1, <2>3
<1>5. /\ Len(signs \o more) = c + Len(more)
      /\ \A p \in 1 .. c : (signs \o more)[p] = signs[p]
      /\ \A p \in 1 .. Len(more) : (signs \o more)[c + p] = more[p]
  <2>1. PICK S : Signs = Seq(S)
    BY DEF Signs
  <2>2. signs \in Seq(S) /\ more \in Seq(S) /\ c = Len(signs)
    BY <1>3, <2>1
  <2> QED
    BY <2>2, OneBehindTheOther
<1>6. ASSUME NEW k \in Significant(all, n + m)
      PROVE  /\ all[k].type = (signs \o more)[Count(all, k)].type
             /\ all[k].type = "NUMBER" => TextOf(all[k], f \o g) = (signs \o more)[Count(all, k)].text
  <2>1. k \in 1 .. n + m /\ all[k].type # "BLANK"
    BY DEF Significant
  <2>2. CASE k <= n
    <3>1. k \in 0 .. Len(lexemes) /\ k # 0 /\ k \in 1 .. n
      BY <1>1, <2>1, <2>2
    <3>2. /\ all[k] = lexemes[k] /\ Count(all, k) = Count(lexemes, k)
          /\ TextOf(lexemes[k], f \o g) = TextOf(lexemes[k], f)
      BY <1>0, <3>1, JoinedFirst
    <3>3. k \in Significant(lexemes, n)
      BY <2>1, <3>1, <3>2 DEF Significant
    <3>4. Count(lexemes, k) \in 1 .. c
      BY <1>1, <3>3, CountWithin
    <3> QED
      BY <1>1, <1>5, <3>2, <3>3, <3>4 DEF Spells
  <2>3. CASE ~(k <= n)
    <3>1. PICK h \in 0 .. Len(others) : k = Len(lexemes) + h /\ h # 0 /\ h \in 1 .. m
      <4>1. k - n \in 1 .. m /\ k - n \in 0 .. m /\ k - n # 0 /\ k = n + (k - n)
        BY <1>1, <2>1, <2>3
      <4>2. PICK h : h = k - n
        OBVIOUS
      <4> QED
        BY <1>1, <4>1, <4>2
    <3>2. /\ Count(all, k) = Count(lexemes, Len(lexemes)) + Count(others, h)
          /\ all[k].type = others[h].type
          /\ TextOf(all[k], f \o g) = TextOf(others[h], g)
      BY <1>0, <3>1, JoinedSecond
    <3>3. h \in Significant(others, m)
      BY <2>1, <3>1, <3>2 DEF Significant
    <3>4. Count(others, h) \in 1 .. Len(more)
      <4>1. Count(others, h) \in 1 .. e
        BY <1>1, <3>3, CountWithin
      <4> QED
        BY <1>3, <4>1
    <3>5. (signs \o more)[Count(all, k)] = more[Count(others, h)]
      BY <1>1, <1>5, <3>2, <3>4
    <3> QED
      BY <1>1, <3>2, <3>3, <3>5 DEF Spells
  <2> QED
    BY <2>2, <2>3
<1>7. c + e <= c + Len(more) /\ (IsWhole(others, g) => c + e = c + Len(more))
  BY <1>3
<1> QED
  BY <1>2, <1>4, <1>5, <1>6, <1>7 DEF Spells

\* What is not cut to its end goes on as it may.
LEMMA SpelledNoFurther ==
  ASSUME NEW f \in Seq(Char), NEW g \in Seq(Char), NEW signs \in Signs, NEW more \in Signs,
         NEW lexemes, Spells(lexemes, f, signs), ~IsWhole(lexemes, f)
  PROVE  Spells(lexemes, f \o g, signs \o more) /\ ~IsWhole(lexemes, f \o g)
<1>0. IsCut(lexemes, f)
  BY DEF Spells
<1>1. PICK n \in Nat, c \in Nat, d \in Nat, e \in Nat :
        n = Len(lexemes) /\ c = Count(lexemes, n) /\ d = Len(signs) /\ e = Len(more)
  <2>1. Len(signs) \in Nat /\ Len(more) \in Nat
    BY DEF Signs
  <2> QED
    BY <1>0, <2>1, CutPlaces, SignificantFinite
<1>2. IsCut(lexemes, f \o g) /\ ~IsWhole(lexemes, f \o g)
  BY <1>0, StoppedCut
<1>3. c <= d /\ Len(signs \o more) = d + e /\ \A p \in 1 .. d : (signs \o more)[p] = signs[p]
  <2>1. c <= d
    BY <1>1 DEF Spells
  <2>2. PICK S : Signs = Seq(S)
    BY DEF Signs
  <2>3. signs \in Seq(S) /\ more \in Seq(S)
    BY <2>2
  <2> QED
    BY <1>1, <2>1, <2>3, OneBehindTheOther
<1>4. ASSUME NEW k \in Significant(lexemes, n)
      PROVE  /\ Count(lexemes, k) \in 1 .. d
             /\ TextOf(lexemes[k], f \o g) = TextOf(lexemes[k], f)
  <2>1. Count(lexemes, k) \in 1 .. c
    BY <1>1, CountWithin
  <2>2. k \in 1 .. Len(lexemes)
    BY <1>1 DEF Significant
  <2>3. lexemes[k] \in Place /\ lexemes[k].to <= Len(f) /\ IsLexeme(lexemes[k], f)
    BY <1>0, <2>2, CutPlaces
  <2>4. f \o g \in Seq(Char) /\ IsPart(f, 0, f \o g)
    BY Parts
  <2>5. Count(lexemes, k) \in 1 .. d
    BY <1>1, <1>3, <2>1
  <2> QED
    BY <2>3, <2>4, <2>5, LexemeStays
<1>5. ASSUME NEW k \in Significant(lexemes, n)
      PROVE  /\ lexemes[k].type = (signs \o more)[Count(lexemes, k)].type
             /\ lexemes[k].type = "NUMBER" =>
                  TextOf(lexemes[k], f \o g) = (signs \o more)[Count(lexemes, k)].text
  <2>1. (signs \o more)[Count(lexemes, k)] = signs[Count(lexemes, k)]
    BY <1>3, <1>4
  <2> QED
    BY <1>1, <1>4, <2>1 DEF Spells
<1>6. c <= d + e
  BY <1>1, <1>3
<1> QED
  BY <1>1, <1>2, <1>3, <1>5, <1>6 DEF Spells

\* A text behind another.
LEMMA ReadsOn ==
  ASSUME NEW f \in Seq(Char), NEW g \in Seq(Char), NEW signs \in Signs, NEW more \in Signs,
         NEW whole, Reads(f, signs, whole), Reads(g, more, whole)
  PROVE  Reads(f \o g, signs \o more, whole)
<1>1. PICK lexemes : Spells(lexemes, f, signs) /\ (whole => IsWhole(lexemes, f))
  BY DEF Reads
<1>2. PICK others : Spells(others, g, more) /\ (whole => IsWhole(others, g))
  BY DEF Reads
<1>3. CASE IsWhole(lexemes, f)
  <2>1. /\ Spells(Joined(lexemes, f, others), f \o g, signs \o more)
        /\ IsWhole(Joined(lexemes, f, others), f \o g) <=> IsWhole(others, g)
    BY <1>1, <1>2, <1>3, SpelledBehind
  <2> QED
    BY <1>2, <2>1 DEF Reads
<1>4. CASE ~IsWhole(lexemes, f)
  <2>1. Spells(lexemes, f \o g, signs \o more) /\ ~whole
    BY <1>1, <1>4, SpelledNoFurther
  <2> QED
    BY <2>1 DEF Reads
<1> QED
  BY <1>3, <1>4

\* One lexeme alone.
LEMMA OneLexeme ==
  ASSUME NEW f \in Seq(Char), NEW lexeme \in Place, lexeme.from = 0, lexeme.to = Len(f),
         IsLexeme(lexeme, f), lexeme.type # "NUMBER", NEW signs,
         \/ lexeme.type = "BLANK" /\ signs = <<>>
         \/ lexeme.type # "BLANK" /\ signs = <<Sign(lexeme.type)>>
  PROVE  Spells(<<lexeme>>, f, signs) /\ IsWhole(<<lexeme>>, f)
<1> DEFINE one == <<lexeme>>
<1>1. /\ one \in Seq(Place) /\ Len(one) = 1 /\ one[1] = lexeme
      /\ \A k \in 1 .. 1 : k = 1
  OBVIOUS
<1>2. Boundary(one, 0) = 0 /\ Boundary(one, 1) = Len(f)
  BY <1>1 DEF Boundary
<1>3. IsCut(one, f) /\ IsWhole(one, f)
  <2>1. one[1].from = Boundary(one, 1 - 1) /\ one[1].to <= Len(f) /\ IsLexeme(one[1], f)
    BY <1>1, <1>2
  <2> QED
    BY <1>1, <1>2, <2>1 DEF IsCut, IsWhole, IsLexeme
<1>4. /\ Count(one, 0) = 0 /\ Significant(one, 0) = {} /\ 0 + 1 = 1
      /\ one[0 + 1].type = "BLANK" =>
           Significant(one, 0 + 1) = Significant(one, 0) /\ Count(one, 0 + 1) = Count(one, 0)
      /\ one[0 + 1].type # "BLANK" => Count(one, 0 + 1) = Count(one, 0) + 1
  BY CountNext DEF Significant
<1>5. CASE lexeme.type = "BLANK"
  <2>1. Count(one, 1) = 0 /\ Significant(one, 1) = {} /\ Len(signs) = 0
    BY <1>1, <1>4, <1>5
  <2> QED
    BY <1>1, <1>3, <2>1 DEF Spells
<1>6. CASE lexeme.type # "BLANK"
  <2>1. Count(one, 1) = 1 /\ Len(signs) = 1 /\ signs[1].type = lexeme.type
    BY <1>1, <1>4, <1>6 DEF Sign
  <2>2. \A k \in Significant(one, 1) : k = 1
    BY DEF Significant
  <2> QED
    BY <1>1, <1>3, <2>1, <2>2 DEF Spells
<1> QED
  BY <1>5, <1>6

\* The characters that make a blank or a string are named: they stand for no identifier.
Blank == " "
Quote == "\""

LEMMA Characters ==
  /\ Blank \in Spaces /\ Spaces \subseteq Char
  /\ Quote \in Char /\ InString \subseteq Char
  /\ \A lexeme, f :
       IsString(lexeme, f) <=>
         /\ lexeme.type = "STRING" /\ lexeme.from + 2 <= lexeme.to
         /\ f[lexeme.from + 1] = Quote /\ f[lexeme.to] = Quote
         /\ \A k \in lexeme.from + 2 .. lexeme.to - 1 : f[k] \in InString
<1>1. Blank \in Spaces
  BY Zenon DEF Blank, Spaces
<1>2. Spaces \subseteq Char /\ InString \subseteq Char
  BY Zenon DEF Char, Ascii, InString
<1>3. Quote \in Char
  BY Zenon DEF Char, Ascii, Quote
<1>4. \A lexeme, f :
        IsString(lexeme, f) <=>
          /\ lexeme.type = "STRING" /\ lexeme.from + 2 <= lexeme.to
          /\ f[lexeme.from + 1] = Quote /\ f[lexeme.to] = Quote
          /\ \A k \in lexeme.from + 2 .. lexeme.to - 1 : f[k] \in InString
  BY Zenon DEF IsString, Quote
<1> QED
  BY <1>1, <1>2, <1>3, <1>4

LEMMA BlankReads ==
  ASSUME NEW whole
  PROVE  <<Blank>> \in Seq(Char) /\ <<>> \in Signs /\ Reads(<<Blank>>, <<>>, whole)
<1> DEFINE lexeme == [type |-> "BLANK", from |-> 0, to |-> 1]
           f == <<Blank>>
<1>1. f \in Seq(Char) /\ Len(f) = 1 /\ f[1] \in Spaces
  <2>1. Blank \in Char /\ Blank \in Spaces
    BY Characters
  <2> QED
    BY <2>1, SingleSeq
<1>2. lexeme \in Place /\ lexeme.type = "BLANK" /\ lexeme.from = 0 /\ lexeme.to = 1
  BY DEF Place
<1> HIDE DEF lexeme, f
<1>3. IsBlank(lexeme, f)
  BY <1>1, <1>2 DEF IsBlank
<1>4. Spells(<<lexeme>>, f, <<>>) /\ IsWhole(<<lexeme>>, f)
  BY <1>1, <1>2, <1>3, OneLexeme DEF IsLexeme
<1> QED
  BY <1>1, <1>4 DEF Reads, Signs, f

LEMMA MarkReads ==
  ASSUME NEW c \in PunctuationMarks, NEW whole
  PROVE  /\ <<c>> \in Seq(Char) /\ <<Sign(MarkType(c))>> \in Signs
         /\ Reads(<<c>>, <<Sign(MarkType(c))>>, whole)
<1> DEFINE lexeme == [type |-> MarkType(c), from |-> 0, to |-> 1]
           f == <<c>>
<1>1. f \in Seq(Char) /\ Len(f) = 1 /\ f[1] = c
  <2>1. c \in Char
    BY DEF Char, Ascii
  <2> QED
    BY <2>1, SingleSeq
<1>2. MarkType(c) \in TokenTypes /\ MarkType(c) # "NUMBER" /\ MarkType(c) # "BLANK"
  <2>1. MarkType(c) \in {"LBRACE", "RBRACE", "LBRACKET", "RBRACKET", "COLON", "COMMA"}
    BY Zenon DEF MarkType, PunctuationMarks
  <2> QED
    BY <2>1 DEF TokenTypes
<1>3. lexeme \in Place /\ lexeme.type = MarkType(c) /\ lexeme.from = 0 /\ lexeme.to = 1
  BY <1>2 DEF Place
<1>4. IsLexeme(lexeme, f)
  BY <1>1, <1>3 DEF IsLexeme, IsMark
<1>5. Spells(<<lexeme>>, f, <<Sign(MarkType(c))>>) /\ IsWhole(<<lexeme>>, f)
  <2> HIDE DEF lexeme, f
  <2> QED
    BY <1>1, <1>2, <1>3, <1>4, OneLexeme
<1>6. <<Sign(MarkType(c))>> \in Signs
  BY <1>2 DEF Sign, Signs
<1> QED
  BY <1>1, <1>5, <1>6 DEF Reads

LEMMA StringReads ==
  ASSUME NEW name \in Seq(InString), NEW whole
  PROVE  /\ <<Quote>> \o name \o <<Quote>> \in Seq(Char)
         /\ <<Sign("STRING")>> \in Signs
         /\ Reads(<<Quote>> \o name \o <<Quote>>, <<Sign("STRING")>>, whole)
<1>0. PICK n \in Nat : n = Len(name)
  OBVIOUS
<1> DEFINE quote == <<Quote>>
           h == quote \o name
           f == h \o quote
           lexeme == [type |-> "STRING", from |-> 0, to |-> n + 2]
<1>1. name \in Seq(Char) /\ quote \in Seq(Char) /\ Len(quote) = 1 /\ quote[1] = Quote
  BY Characters, SingleSeq, LargerSeq
<1> HIDE DEF quote
<1>2. /\ h \in Seq(Char) /\ Len(h) = 1 + n /\ h[1] = Quote
      /\ \A k \in 1 .. n : h[1 + k] = name[k]
  <2>1. PICK m \in Nat : m = Len(quote) /\ m = 1
    BY <1>1
  <2>2. /\ h \in Seq(Char) /\ Len(h) = m + Len(name)
        /\ \A k \in 1 .. m : h[k] = quote[k]
        /\ \A k \in 1 .. Len(name) : h[m + k] = name[k]
    <3>1. m = Len(quote)
      BY <2>1
    <3>2. quote \in Seq(Char) /\ name \in Seq(Char)
      BY <1>1
    <3> QED
      BY <3>1, <3>2, OneBehindTheOther
  <2> QED
    BY <1>0, <1>1, <2>1, <2>2
<1> HIDE DEF h
<1>3. /\ f \in Seq(Char) /\ Len(f) = n + 2 /\ f[1] = Quote /\ f[n + 2] = Quote
      /\ \A k \in 2 .. n + 1 : f[k] \in InString
  <2>1. PICK m \in Nat : m = Len(h) /\ m = 1 + n
    BY <1>0, <1>2
  <2>2. /\ f \in Seq(Char) /\ Len(f) = m + Len(quote)
        /\ \A k \in 1 .. m : f[k] = h[k]
        /\ \A k \in 1 .. Len(quote) : f[m + k] = quote[k]
    <3>1. m = Len(h)
      BY <2>1
    <3>2. quote \in Seq(Char) /\ h \in Seq(Char)
      BY <1>1, <1>2
    <3> QED
      BY <3>1, <3>2, OneBehindTheOther
  <2>3. Len(f) = n + 2 /\ f[n + 2] = Quote /\ f[1] = Quote
    <3>1. m + 1 = n + 2 /\ 1 \in 1 .. m /\ 1 \in 1 .. 1
      BY <1>0, <2>1
    <3>2. f[m + 1] = quote[1] /\ f[1] = h[1] /\ Len(f) = m + 1
      BY <1>1, <2>2, <3>1
    <3> QED
      BY <1>1, <1>2, <3>1, <3>2
  <2>4. ASSUME NEW k \in 2 .. n + 1 PROVE f[k] \in InString
    <3>1. k - 1 \in 1 .. n /\ 1 + (k - 1) = k /\ k \in 1 .. m
      BY <1>0, <2>1
    <3>2. h[1 + (k - 1)] = name[k - 1] /\ name[k - 1] \in InString
      BY <1>0, <1>2, <3>1
    <3> QED
      BY <2>2, <3>1, <3>2
  <2> QED
    BY <2>2, <2>3, <2>4
<1>4. /\ lexeme \in Place /\ lexeme.type = "STRING" /\ lexeme.from = 0 /\ lexeme.to = n + 2
      /\ <<Sign("STRING")>> \in Signs
  BY <1>0 DEF Place, TokenTypes, Sign, Signs
<1> HIDE DEF f, lexeme
<1>5. IsString(lexeme, f)
  <2>1. n \in Int /\ n >= 0
    BY <1>0
  <2>2. /\ lexeme.from + 2 <= lexeme.to /\ lexeme.from + 1 = 1 /\ lexeme.from + 2 = 2
        /\ lexeme.to - 1 = n + 1
    BY <1>4, <2>1
  <2> QED
    BY <1>3, <1>4, <2>2, Characters
<1>6. Spells(<<lexeme>>, f, <<Sign("STRING")>>) /\ IsWhole(<<lexeme>>, f)
  BY <1>3, <1>4, <1>5, OneLexeme DEF IsLexeme
<1> QED
  BY <1>3, <1>4, <1>6 DEF Reads, f, h, quote

\* A number, with the mark it is followed by.
LEMMA NumberReads ==
  ASSUME NEW text \in Seq(NumberChars), Len(text) # 0, text[1] \in Digits,
         NEW c \in PunctuationMarks, NEW whole
  PROVE  LET signs == <<Numeral(text), Sign(MarkType(c))>> IN
         text \o <<c>> \in Seq(Char) /\ signs \in Signs /\ Reads(text \o <<c>>, signs, whole)
<1> DEFINE f == text \o <<c>>
           signs == <<Numeral(text), Sign(MarkType(c))>>
<1>0. PICK n \in Nat : n = Len(text) /\ n >= 1
  OBVIOUS
<1> DEFINE number == [type |-> "NUMBER", from |-> 0, to |-> n]
           mark == [type |-> MarkType(c), from |-> n, to |-> n + 1]
           two == <<number, mark>>
<1>1. /\ f \in Seq(Char) /\ Len(f) = n + 1 /\ f[n + 1] = c
      /\ \A k \in 1 .. n : f[k] = text[k] /\ f[k] \in NumberChars
      /\ text \in Seq(Char)
  <2>1. NumberChars \subseteq Char /\ c \in Char
    BY DEF NumberChars, Char, Ascii
  <2>2. PICK last : last = <<c>>
    OBVIOUS
  <2>3. /\ text \in Seq(Char) /\ last \in Seq(Char) /\ Len(last) = 1 /\ last[1] = c
        /\ f = text \o last
    BY <2>1, <2>2, SingleSeq, LargerSeq
  <2>4. /\ f \in Seq(Char) /\ Len(f) = n + Len(last) /\ \A k \in 1 .. n : f[k] = text[k]
        /\ \A k \in 1 .. Len(last) : f[n + k] = last[k]
    BY <1>0, <2>3, OneBehindTheOther
  <2>5. \A k \in 1 .. n : text[k] \in NumberChars
    BY <1>0
  <2> QED
    BY <2>3, <2>4, <2>5
<1>2. MarkType(c) \in TokenTypes /\ MarkType(c) # "NUMBER" /\ MarkType(c) # "BLANK"
  <2>1. MarkType(c) \in {"LBRACE", "RBRACE", "LBRACKET", "RBRACKET", "COLON", "COMMA"}
    BY Zenon DEF MarkType, PunctuationMarks
  <2> QED
    BY <2>1 DEF TokenTypes
<1>3. /\ number \in Place /\ number.type = "NUMBER" /\ number.from = 0 /\ number.to = n
      /\ mark \in Place /\ mark.type = MarkType(c) /\ mark.from = n /\ mark.to = n + 1
  BY <1>0, <1>2 DEF Place, TokenTypes
<1>4. signs \in Signs /\ Len(signs) = 2 /\ signs[1] = Numeral(text) /\ signs[2].type = MarkType(c)
  BY <1>1, <1>2 DEF Numeral, Sign, Signs, TokenTypes
<1>5. TextOf(number, f) = text
  <2>1. TextOf(number, f) = [k \in 1 .. n |-> f[k]]
    BY <1>0, <1>3 DEF TextOf
  <2>2. text = [k \in 1 .. n |-> text[k]]
    BY <1>0
  <2> QED
    BY <1>1, <2>1, <2>2
<1>6. /\ two \in Seq(Place) /\ Len(two) = 2 /\ two[1] = number /\ two[2] = mark
      /\ \A k \in 1 .. 2 : k = 1 \/ k = 2
  BY <1>3
<1> HIDE DEF f, signs, number, mark, two
<1>7. IsNumber(number, f) /\ IsMark(mark, f)
  <2>1. c \notin NumberChars
    BY DEF NumberChars, Digits, PunctuationMarks
  <2>2. n \in Int /\ n >= 1 /\ 0 + 1 = 1 /\ 1 \in 1 .. n
    BY <1>0
  <2>3. IsNumber(number, f)
    BY <1>1, <1>3, <2>1, <2>2 DEF IsNumber
  <2> QED
    BY <1>1, <1>3, <2>3 DEF IsMark
<1>8. Boundary(two, 0) = 0 /\ Boundary(two, 1) = n /\ Boundary(two, 2) = n + 1
  BY <1>3, <1>6 DEF Boundary
<1>9. IsCut(two, f) /\ IsWhole(two, f)
  <2>1. /\ two[1].from = Boundary(two, 0) /\ two[1].to <= Len(f) /\ IsLexeme(two[1], f)
        /\ two[2].from = Boundary(two, 1) /\ two[2].to <= Len(f) /\ IsLexeme(two[2], f)
        /\ 1 - 1 = 0 /\ 2 - 1 = 1
    BY <1>0, <1>1, <1>3, <1>6, <1>7, <1>8 DEF IsLexeme
  <2>2. \A k \in 1 .. 2 : two[k].from = Boundary(two, k - 1) /\ two[k].to <= Len(f)
                          /\ IsLexeme(two[k], f)
    BY <1>6, <2>1
  <2> QED
    BY <1>1, <1>6, <1>8, <2>2 DEF IsCut, IsWhole, IsLexeme
<1>10. Count(two, 1) = 1 /\ Count(two, 2) = 2
  <2>1. Count(two, 0) = 0 /\ (two[0 + 1].type # "BLANK" => Count(two, 0 + 1) = Count(two, 0) + 1)
        /\ (two[1 + 1].type # "BLANK" => Count(two, 1 + 1) = Count(two, 1) + 1)
    BY CountNext
  <2>2. 0 + 1 = 1 /\ 1 + 1 = 2 /\ two[1].type # "BLANK" /\ two[2].type # "BLANK"
    BY <1>2, <1>3, <1>6
  <2> QED
    BY <2>1, <2>2
<1>11. \A k \in Significant(two, 2) : k = 1 \/ k = 2
  BY <1>6 DEF Significant
<1>12. Spells(two, f, signs)
  <2>1. signs[1].type = "NUMBER" /\ signs[1].text = text
    BY <1>4 DEF Numeral
  <2> QED
    BY <1>2, <1>3, <1>4, <1>5, <1>6, <1>9, <1>10, <1>11, <2>1 DEF Spells
<1> QED
  BY <1>1, <1>4, <1>9, <1>12 DEF Reads, f, signs

\* A text that begins with an unknown character is read as nothing.
LEMMA UnknownReads ==
  ASSUME NEW f \in Seq(Char), Len(f) # 0, f[1] \in Unknown, NEW signs \in Signs
  PROVE  Reads(f, signs, FALSE)
<1>1. Len(f) \in Nat /\ Len(f) # 0 /\ Len(signs) \in Nat
  BY DEF Signs
<1> DEFINE none == <<>>
<1>2. none \in Seq(Place) /\ Len(none) = 0 /\ Boundary(none, 0) = 0 /\ 0 + 1 = 1
  BY DEF Boundary
<1>3. IsCut(none, f)
  BY <1>2 DEF IsCut
<1>4. Count(none, 0) = 0 /\ Significant(none, 0) = {}
  BY CountNext DEF Significant
<1>5. Spells(none, f, signs)
  BY <1>1, <1>2, <1>3, <1>4 DEF Spells, IsWhole
<1> QED
  BY <1>5 DEF Reads
=============================================================================
