--------------------------- MODULE Roundtrip_proofs ---------------------------
(***************************************************************************)
(* The two programs together, for any number of pairs: what is summed is   *)
(* what the answers were computed from, and a file of clusters is read.    *)
(***************************************************************************)
EXTENDS Roundtrip, Generator_proofs

LEMMA ReaderAssumptions ==
  /\ H!Sizes /\ H!Capacities /\ H!FilesType /\ H!FilesAreCut /\ H!Format
<1>1. H!Sizes
  BY ShortEnough, Sizes DEF H!Sizes
<1>2. H!Capacities
  BY ReaderSizes DEF H!Capacities
<1>3. H!FilesType
  BY DEF H!FilesType
<1>4. H!FilesAreCut /\ H!Format
  BY DEF H!FilesAreCut, H!Format
<1> QED
  BY <1>1, <1>2, <1>3, <1>4

-----------------------------------------------------------------------------
(***************************************************************************)
(* A degree as it is printed.                                              *)
(***************************************************************************)

LEMMA NumberCharacters ==
  /\ "0" \in H!L!Digits /\ "1" \in H!L!Digits /\ H!L!Digits \subseteq H!L!Char
  /\ "." \notin H!L!Digits /\ "." \in H!L!Char /\ "-" \in H!L!Char /\ "-" \in H!L!Unknown
  /\ H!L!NumberChars = H!L!Digits \cup {"."}
<1>1. /\ "0" \in H!L!Digits /\ "1" \in H!L!Digits /\ H!L!Digits \subseteq H!L!Char
      /\ "." \notin H!L!Digits /\ "." \in H!L!Char /\ "-" \in H!L!Char
  BY Zenon DEF H!L!Digits, H!L!Char, H!L!Ascii
<1>2. "-" \in H!L!Unknown
  BY <1>1, Zenon DEF H!L!Unknown, H!L!PunctuationMarks, H!L!Digits, H!L!Spaces
<1> QED
  BY <1>1, <1>2 DEF H!L!NumberChars

\* It is characters, with one point among them, and begins like a number unless it is
\* negative.
LEMMA PrintedIs ==
  ASSUME NEW x \in Int
  PROVE  /\ Printed(x) \in Seq(H!L!Char) /\ Len(Printed(x)) >= 3
         /\ H!OnePoint(Printed(x), Len(Printed(x)))
         /\ x >= 0 => Printed(x) \in Seq(H!L!NumberChars) /\ Printed(x)[1] \in H!L!Digits
         /\ x < 0 => Printed(x)[1] \in H!L!Unknown
<1> DEFINE magnitude == IF x < 0 THEN -x ELSE x
           sign == IF x < 0 THEN <<"-">> ELSE <<>>
           digits == IF magnitude = 0 THEN <<"0">> ELSE [k \in 1 .. magnitude |-> "1"]
           end == <<".", "0">>
           before == sign \o digits
<1>1. PICK n \in Nat : /\ digits \in Seq(H!L!Digits) /\ n = Len(digits) /\ n >= 1
                       /\ digits[1] \in H!L!Digits
  <2>1. magnitude \in Nat
    OBVIOUS
  <2>2. CASE magnitude = 0
    BY <2>2, NumberCharacters
  <2>3. CASE magnitude # 0
    <3>1. PICK m \in Nat : m = magnitude /\ m >= 1
      BY <2>1, <2>3
    <3>2. digits = [k \in 1 .. m |-> "1"]
      BY <2>3, <3>1
    <3> QED
      BY <3>1, <3>2, NumberCharacters
  <2> QED
    BY <2>2, <2>3
<1> HIDE DEF digits
<1>2. Printed(x) = before \o end
  BY DEF Printed, digits
<1>3. /\ end \in Seq(H!L!NumberChars) /\ end \in Seq(H!L!Char)
      /\ Len(end) = 2 /\ end[1] = "." /\ end[2] = "0"
  BY NumberCharacters
<1> HIDE DEF end
<1>4. (x < 0 => sign = <<"-">>) /\ (x >= 0 => sign = <<>>)
  OBVIOUS
<1> HIDE DEF sign
<1>5. PICK S, m :
        /\ before \in Seq(S) /\ "." \notin S /\ S \subseteq H!L!Char
        /\ m \in Nat /\ m = Len(before) /\ m >= 1
        /\ x >= 0 => S \subseteq H!L!NumberChars /\ before[1] \in H!L!Digits
        /\ x < 0 => before[1] = "-"
  <2>1. CASE x < 0
    <3>1. sign = <<"-">>
      BY <2>1, <1>4
    <3> DEFINE Alphabet == H!L!Digits \cup {"-"}
    <3>2. /\ digits \in Seq(Alphabet) /\ sign \in Seq(Alphabet)
          /\ Len(sign) = 1 /\ sign[1] = "-" /\ 1 \in 1 .. 1
      <4>1. H!L!Digits \subseteq Alphabet /\ "-" \in Alphabet
        OBVIOUS
      <4>2. <<"-">> \in Seq(Alphabet) /\ Len(<<"-">>) = 1 /\ <<"-">>[1] = "-"
        OBVIOUS
      <4>3. digits \in Seq(Alphabet)
        BY <1>1, <4>1, H!L!LargerSeq, ReaderAssumptions
      <4> QED
        BY <3>1, <4>2, <4>3
    <3>3. before \in Seq(Alphabet) /\ Len(before) = 1 + n /\ before[1] = "-"
      <4> HIDE DEF Alphabet
      <4>1. 1 \in Nat /\ 1 = Len(sign)
        BY <3>2
      <4>2. sign \in Seq(Alphabet) /\ digits \in Seq(Alphabet)
        BY <3>2
      <4>3. /\ before \in Seq(Alphabet) /\ Len(before) = 1 + Len(digits)
            /\ \A k \in 1 .. 1 : before[k] = sign[k]
        BY <4>1, <4>2, H!L!OneBehindTheOther, ReaderAssumptions
      <4> QED
        BY <1>1, <3>2, <4>3
    <3>4. "." \notin Alphabet /\ Alphabet \subseteq H!L!Char
      BY NumberCharacters
    <3> QED
      BY <1>1, <2>1, <3>3, <3>4
  <2>2. CASE x >= 0
    <3>1. sign = <<>>
      BY <2>2, <1>4
    <3>2. <<>> \o digits = digits
      BY <1>1
    <3>3. before = digits
      BY <3>1, <3>2
    <3>4. /\ before \in Seq(H!L!Digits) /\ "." \notin H!L!Digits /\ H!L!Digits \subseteq H!L!Char
          /\ H!L!Digits \subseteq H!L!NumberChars
      BY <1>1, <3>3, NumberCharacters
    <3> HIDE DEF before
    <3> QED
      BY <1>1, <2>2, <3>3, <3>4
  <2> QED
    BY <2>1, <2>2
<1> HIDE DEF before
<1>6. /\ before \o end \in Seq(S \cup H!L!NumberChars) /\ Len(before \o end) = m + 2
      /\ \A k \in 1 .. m : (before \o end)[k] = before[k] /\ before[k] \in S
      /\ (before \o end)[m + 1] = "." /\ (before \o end)[m + 2] = "0"
  <2> DEFINE Alphabet == S \cup H!L!NumberChars
  <2>1. S \subseteq Alphabet /\ H!L!NumberChars \subseteq Alphabet
    OBVIOUS
  <2> HIDE DEF Alphabet
  <2>2. before \in Seq(Alphabet) /\ end \in Seq(Alphabet)
    BY <1>3, <1>5, <2>1, H!L!LargerSeq, ReaderAssumptions
  <2>3. m \in Nat /\ m = Len(before)
    BY <1>5
  <2>4. /\ before \o end \in Seq(Alphabet) /\ Len(before \o end) = m + Len(end)
        /\ \A k \in 1 .. m : (before \o end)[k] = before[k]
        /\ \A k \in 1 .. Len(end) : (before \o end)[m + k] = end[k]
    BY <2>2, <2>3, H!L!OneBehindTheOther, ReaderAssumptions
  <2>5. \A k \in 1 .. m : before[k] \in S
    BY <1>5
  <2>6. 1 \in 1 .. Len(end) /\ 2 \in 1 .. Len(end)
    BY <1>3
  <2> QED
    BY <1>3, <2>4, <2>5, <2>6 DEF Alphabet
<1>7. \A k \in 1 .. m + 2 : (before \o end)[k] = "." => k = m + 1
  <2> SUFFICES ASSUME NEW k \in 1 .. m + 2, (before \o end)[k] = "." PROVE k = m + 1
    OBVIOUS
  <2>1. k \in 1 .. m \/ k = m + 1 \/ k = m + 2
    BY <1>5
  <2> QED
    BY <1>5, <1>6, <2>1
<1>8. H!OnePoint(before \o end, m + 2)
  BY <1>7 DEF H!OnePoint
<1>9. (before \o end)[1] = before[1]
  BY <1>5, <1>6
<1>10. /\ before \o end \in Seq(H!L!Char)
      /\ x >= 0 => before \o end \in Seq(H!L!NumberChars)
  <2>1. S \cup H!L!NumberChars \subseteq H!L!Char
    BY <1>5, NumberCharacters
  <2>2. x >= 0 => S \cup H!L!NumberChars \subseteq H!L!NumberChars
    BY <1>5
  <2> QED
    BY <1>6, <2>1, <2>2
<1> QED
  BY <1>2, <1>5, <1>6, <1>8, <1>9, <1>10, NumberCharacters
-----------------------------------------------------------------------------
(***************************************************************************)
(* The text of the file, piece by piece, and the tokens of each.           *)
(***************************************************************************)

LBrace == "{"
RBrace == "}"
LBracket == "["
RBracket == "]"
Colon == ":"
Comma == ","

LEMMA Marks ==
  /\ \A c \in {LBrace, RBrace, LBracket, RBracket, Colon, Comma} : c \in H!L!PunctuationMarks
  /\ H!L!MarkType(LBrace) = "LBRACE" /\ H!L!MarkType(RBrace) = "RBRACE"
  /\ H!L!MarkType(LBracket) = "LBRACKET" /\ H!L!MarkType(RBracket) = "RBRACKET"
  /\ H!L!MarkType(Colon) = "COLON" /\ H!L!MarkType(Comma) = "COMMA"
BY Zenon DEF LBrace, RBrace, LBracket, RBracket, Colon, Comma, H!L!PunctuationMarks, H!L!MarkType

\* The tokens of a piece, or of as much as is read of it unless it is read whole.
Piece(f, signs, whole) ==
  f \in Seq(H!L!Char) /\ signs \in H!L!Signs /\ H!L!Reads(f, signs, whole)

LEMMA PiecesJoin ==
  ASSUME NEW f, NEW g, NEW signs, NEW more, NEW whole, Piece(f, signs, whole), Piece(g, more, whole)
  PROVE  Piece(f \o g, signs \o more, whole)
<1>1. f \o g \in Seq(H!L!Char)
  BY DEF Piece
<1>2. signs \o more \in H!L!Signs
  BY DEF Piece, H!L!Signs
<1>3. H!L!Reads(f \o g, signs \o more, whole)
  BY H!L!ReadsOn, ReaderAssumptions DEF Piece
<1> QED
  BY <1>1, <1>2, <1>3 DEF Piece

LEMMA MarkPiece ==
  ASSUME NEW c \in H!L!PunctuationMarks, NEW whole
  PROVE  Piece(<<c>>, <<H!L!Sign(H!L!MarkType(c))>>, whole)
BY H!L!MarkReads, ReaderAssumptions DEF Piece

LEMMA BlankPiece ==
  ASSUME NEW f, NEW signs, NEW whole, Piece(f, signs, whole)
  PROVE  Piece(f \o <<H!L!Blank>>, signs, whole)
<1>1. Piece(<<H!L!Blank>>, <<>>, whole)
  BY H!L!BlankReads, ReaderAssumptions DEF Piece
<1>2. Piece(f \o <<H!L!Blank>>, signs \o <<>>, whole)
  BY <1>1, PiecesJoin
<1>3. signs \o <<>> = signs
  BY DEF Piece, H!L!Signs
<1> QED
  BY <1>2, <1>3

\* The keys of the file are such names.
LEMMA NamePiece ==
  ASSUME NEW name \in Seq(H!L!InString), NEW whole
  PROVE  Piece(<<H!L!Quote>> \o name \o <<H!L!Quote>>, <<H!L!Sign("STRING")>>, whole)
BY H!L!StringReads, ReaderAssumptions DEF Piece

\* Of a negative number nothing is read.
LEMMA NumberPiece ==
  ASSUME NEW x \in Int, NEW c \in H!L!PunctuationMarks, NEW whole \in BOOLEAN, whole => x >= 0
  PROVE  Piece(Printed(x) \o <<c>>,
               <<H!L!Numeral(Printed(x)), H!L!Sign(H!L!MarkType(c))>>, whole)
<1> DEFINE text == Printed(x)
           signs == <<H!L!Numeral(text), H!L!Sign(H!L!MarkType(c))>>
<1>1. <<c>> \in Seq(H!L!Char) /\ <<H!L!Sign(H!L!MarkType(c))>> \in H!L!Signs
  BY MarkPiece DEF Piece
<1>2. text \in Seq(H!L!Char) /\ Len(text) >= 3
  BY PrintedIs
<1>3. text \o <<c>> \in Seq(H!L!Char) /\ signs \in H!L!Signs
  <2>1. text \o <<c>> \in Seq(H!L!Char)
    BY <1>1, <1>2
  <2>2. H!L!Numeral(text) \in [type : H!L!TokenTypes, text : Seq(H!L!Char)]
    BY <1>2 DEF H!L!Numeral, H!L!TokenTypes
  <2>3. signs \in H!L!Signs
    BY <1>1, <2>2 DEF H!L!Signs
  <2> QED
    BY <2>1, <2>3
<1>4. CASE x >= 0
  <2>1. text \in Seq(H!L!NumberChars) /\ text[1] \in H!L!Digits /\ Len(text) # 0
    BY <1>2, <1>4, PrintedIs
  <2> HIDE DEF text
  <2>2. H!L!Reads(text \o <<c>>, signs, whole)
    BY <2>1, H!L!NumberReads, ReaderAssumptions
  <2> QED
    BY <1>3, <2>2 DEF Piece, text
<1>5. CASE x < 0
  <2>1. whole = FALSE
    BY <1>5
  <2>2. text[1] \in H!L!Unknown
    BY <1>5, PrintedIs
  <2> HIDE DEF text
  <2>3. Len(text \o <<c>>) # 0 /\ (text \o <<c>>)[1] \in H!L!Unknown
    BY <1>1, <1>2, <2>2
  <2>4. H!L!Reads(text \o <<c>>, signs, FALSE)
    BY <1>3, <2>3, H!L!UnknownReads, ReaderAssumptions
  <2> QED
    BY <1>3, <2>1, <2>4 DEF Piece, text
<1> QED
  BY <1>4, <1>5

\* The names there are, and the texts of the file in the characters named above.
LEMMA Names ==
  /\ <<"x", "0">> \in Seq(H!L!InString) /\ <<"x", "1">> \in Seq(H!L!InString)
  /\ <<"x", "a", "x", "r", "s">> \in Seq(H!L!InString)
<1>1. /\ "x" \in H!L!InString /\ "0" \in H!L!InString /\ "1" \in H!L!InString
      /\ "a" \in H!L!InString /\ "r" \in H!L!InString /\ "s" \in H!L!InString
  BY Zenon DEF H!L!InString, H!L!Ascii, H!L!Digits, H!L!Letters
<1> QED
  BY <1>1

LEMMA KeyedIs ==
  \A name, text : Keyed(name, text) =
    <<H!L!Quote>> \o name \o <<H!L!Quote>> \o <<Colon>> \o <<H!L!Blank>> \o text
BY Zenon DEF Keyed, H!L!Quote, Colon, H!L!Blank

LEMMA PairTextIs ==
  \A p : PairText(p) =
    <<LBrace>> \o Keyed(<<"x", "0">>, Printed(p.x0) \o <<Comma>>) \o <<H!L!Blank>>
               \o Keyed(<<"x", "1">>, Printed(p.x1) \o <<Comma>>) \o <<H!L!Blank>>
               \o Keyed(<<"x", "0">>, Printed(p.y0) \o <<Comma>>) \o <<H!L!Blank>>
               \o Keyed(<<"x", "1">>, Printed(p.y1) \o <<RBrace>>)
BY Zenon DEF PairText, LBrace, RBrace, Comma, H!L!Blank

LEMMA TextIs ==
  /\ Text("head") = <<LBrace>> \o Keyed(<<"x", "a", "x", "r", "s">>, <<LBracket>>) \o <<H!L!Blank>>
  /\ Text("pair") = PairText(pair')
  /\ Text(",") = <<Comma>> \o <<H!L!Blank>>
  /\ Text("tail") = <<RBracket>> \o <<RBrace>>
BY Zenon DEF Text, LBrace, RBrace, LBracket, RBracket, Comma, H!L!Blank

LEMMA TwoAre ==
  ASSUME NEW S, NEW a \in S, NEW b \in S
  PROVE  <<a>> \o <<b>> = <<a, b>>
<1> DEFINE s == <<a>> \o <<b>>
           t == <<a, b>>
<1>1. s \in Seq(S) /\ t \in Seq(S) /\ Len(s) = 2 /\ Len(t) = 2 /\ s[1] = t[1] /\ s[2] = t[2]
  OBVIOUS
<1> HIDE DEF s, t
<1>2. \A k \in 1 .. Len(s) : k = 1 \/ k = 2
  BY <1>1
<1>3. s = t
  BY <1>1, <1>2, SeqEqual
<1> QED
  BY <1>3 DEF s, t

LEMMA FourAre ==
  ASSUME NEW S, NEW a \in S, NEW b \in S, NEW c \in S, NEW d \in S
  PROVE  <<a, b>> \o <<c, d>> = <<a, b, c, d>>
<1> DEFINE s == <<a, b>> \o <<c, d>>
           t == <<a, b, c, d>>
<1>1. /\ s \in Seq(S) /\ t \in Seq(S) /\ Len(s) = 4 /\ Len(t) = 4
      /\ s[1] = t[1] /\ s[2] = t[2] /\ s[3] = t[3] /\ s[4] = t[4]
  OBVIOUS
<1> HIDE DEF s, t
<1>2. \A k \in 1 .. Len(s) : k = 1 \/ k = 2 \/ k = 3 \/ k = 4
  BY <1>1
<1>3. s = t
  BY <1>1, <1>2, SeqEqual
<1> QED
  BY <1>3 DEF s, t

SignType == [type : H!L!TokenTypes, text : Seq(H!L!Char)]

LEMMA SignsAre ==
  /\ H!L!Signs = Seq(SignType)
  /\ \A type \in H!L!TokenTypes : H!L!Sign(type) \in SignType /\ H!L!Sign(type).type = type
  /\ \A text \in Seq(H!L!Char) :
       H!L!Numeral(text) \in SignType /\ H!L!Numeral(text).type = "NUMBER"
  /\ {"LBRACE", "RBRACE", "LBRACKET", "RBRACKET", "COLON", "COMMA", "STRING", "NUMBER"}
       \subseteq H!L!TokenTypes
  /\ \A c \in H!L!PunctuationMarks : H!L!MarkType(c) \in H!L!TokenTypes
<1>1. {"LBRACE", "RBRACE", "LBRACKET", "RBRACKET", "COLON", "COMMA", "STRING", "NUMBER"}
        \subseteq H!L!TokenTypes
  BY DEF H!L!TokenTypes
<1>2. \A c \in H!L!PunctuationMarks : H!L!MarkType(c) \in H!L!TokenTypes
  BY Zenon DEF H!L!PunctuationMarks, H!L!MarkType, H!L!TokenTypes
<1>3. H!L!Signs = Seq(SignType)
  BY DEF H!L!Signs, SignType
<1>4. \A type \in H!L!TokenTypes : H!L!Sign(type) \in SignType /\ H!L!Sign(type).type = type
  BY DEF H!L!Sign, SignType
<1>5. \A text \in Seq(H!L!Char) :
        H!L!Numeral(text) \in SignType /\ H!L!Numeral(text).type = "NUMBER"
  BY <1>1 DEF H!L!Numeral, SignType
<1> QED
  BY <1>1, <1>2, <1>3, <1>4, <1>5

LEMMA KeyedPiece ==
  ASSUME NEW name \in Seq(H!L!InString), NEW text, NEW signs, NEW whole, Piece(text, signs, whole)
  PROVE  Piece(Keyed(name, text), <<H!L!Sign("STRING"), H!L!Sign("COLON")>> \o signs, whole)
<1> DEFINE quoted == <<H!L!Quote>> \o name \o <<H!L!Quote>>
           string == <<H!L!Sign("STRING")>>
           colon == <<H!L!Sign("COLON")>>
<1>1. Piece(quoted, string, whole) /\ Piece(<<Colon>>, colon, whole)
  BY NamePiece, MarkPiece, Marks
<1>2. Piece(quoted \o <<Colon>> \o <<H!L!Blank>>, string \o colon, whole)
  <2> HIDE DEF quoted, string, colon
  <2>1. Piece(quoted \o <<Colon>>, string \o colon, whole)
    BY <1>1, PiecesJoin
  <2> QED
    BY <2>1, BlankPiece
<1>3. Piece(quoted \o <<Colon>> \o <<H!L!Blank>> \o text, (string \o colon) \o signs, whole)
  BY <1>2, PiecesJoin
<1>4. string \o colon = <<H!L!Sign("STRING"), H!L!Sign("COLON")>>
  BY SignsAre, TwoAre
<1> QED
  BY <1>3, <1>4, KeyedIs

EntrySigns(text, type) ==
  <<H!L!Sign("STRING"), H!L!Sign("COLON"), H!L!Numeral(text), H!L!Sign(type)>>

LEMMA EntryPiece ==
  ASSUME NEW name \in Seq(H!L!InString), NEW x \in Int, NEW c \in H!L!PunctuationMarks,
         NEW whole \in BOOLEAN, whole => x >= 0
  PROVE  Piece(Keyed(name, Printed(x) \o <<c>>), EntrySigns(Printed(x), H!L!MarkType(c)), whole)
<1> DEFINE signs == <<H!L!Numeral(Printed(x)), H!L!Sign(H!L!MarkType(c))>>
<1>1. Piece(Printed(x) \o <<c>>, signs, whole)
  BY NumberPiece
<1>2. Piece(Keyed(name, Printed(x) \o <<c>>),
            <<H!L!Sign("STRING"), H!L!Sign("COLON")>> \o signs, whole)
  BY <1>1, KeyedPiece
<1>3. <<H!L!Sign("STRING"), H!L!Sign("COLON")>> \o signs = EntrySigns(Printed(x), H!L!MarkType(c))
  BY PrintedIs, SignsAre, FourAre DEF EntrySigns
<1> QED
  BY <1>2, <1>3

PairSigns(e) ==
  <<H!L!Sign("LBRACE")>> \o EntrySigns(e[1], "COMMA") \o EntrySigns(e[2], "COMMA")
                         \o EntrySigns(e[3], "COMMA") \o EntrySigns(e[4], "RBRACE")

LEMMA EntryIs ==
  ASSUME NEW text \in Seq(H!L!Char), NEW type \in H!L!TokenTypes
  PROVE  LET s == EntrySigns(text, type) IN
         /\ s \in Seq(SignType) /\ Len(s) = 4
         /\ s[1].type = "STRING" /\ s[2].type = "COLON" /\ s[3] = H!L!Numeral(text)
         /\ s[4].type = type
BY SignsAre DEF EntrySigns

\* Behind n tokens there is an entry.
EntryAt(t, s, n, text, type) ==
  /\ t \in Seq(SignType) /\ Len(t) = n + 4 /\ \A p \in 1 .. n : t[p] = s[p]
  /\ t[n + 1].type = "STRING" /\ t[n + 2].type = "COLON" /\ t[n + 3] = H!L!Numeral(text)
  /\ t[n + 4].type = type

LEMMA EntryBehind ==
  ASSUME NEW s \in Seq(SignType), NEW n \in Nat, n = Len(s),
         NEW text \in Seq(H!L!Char), NEW type \in H!L!TokenTypes
  PROVE  EntryAt(s \o EntrySigns(text, type), s, n, text, type)
<1> DEFINE entry == EntrySigns(text, type)
<1>1. /\ entry \in Seq(SignType) /\ Len(entry) = 4
      /\ entry[1].type = "STRING" /\ entry[2].type = "COLON" /\ entry[3] = H!L!Numeral(text)
      /\ entry[4].type = type
  BY EntryIs
<1> HIDE DEF entry
<1> DEFINE t == s \o entry
<1>3. entry \in Seq(SignType)
  BY <1>1
<1>4. /\ s \o entry \in Seq(SignType) /\ Len(s \o entry) = n + Len(entry)
      /\ \A k \in 1 .. n : (s \o entry)[k] = s[k]
      /\ \A k \in 1 .. Len(entry) : (s \o entry)[n + k] = entry[k]
  BY <1>3, H!L!OneBehindTheOther, ReaderAssumptions
<1>5. 1 \in 1 .. Len(entry) /\ 2 \in 1 .. Len(entry) /\ 3 \in 1 .. Len(entry) /\ 4 \in 1 .. Len(entry)
  BY <1>1
<1>6. /\ t[n + 1] = entry[1] /\ t[n + 2] = entry[2] /\ t[n + 3] = entry[3] /\ t[n + 4] = entry[4]
  BY <1>4, <1>5
<1> QED
  BY <1>1, <1>4, <1>6 DEF EntryAt, entry

\* Seventeen tokens.
LEMMA PairSignsAre ==
  ASSUME NEW e, \A k \in 1 .. 4 : e[k] \in Seq(H!L!Char)
  PROVE  /\ PairSigns(e) \in H!L!Signs /\ Len(PairSigns(e)) = 17
         /\ PairSigns(e)[1].type = "LBRACE"
         /\ \A k \in 1 .. 4 :
              /\ PairSigns(e)[4 * k - 2].type = "STRING" /\ PairSigns(e)[4 * k - 1].type = "COLON"
              /\ PairSigns(e)[4 * k] = H!L!Numeral(e[k])
              /\ PairSigns(e)[4 * k + 1].type = IF k = 4 THEN "RBRACE" ELSE "COMMA"
<1>1. PICK s0 : /\ s0 = <<H!L!Sign("LBRACE")>> /\ s0 \in Seq(SignType) /\ Len(s0) = 1
                /\ s0[1].type = "LBRACE"
  <2>1. H!L!Sign("LBRACE") \in SignType /\ H!L!Sign("LBRACE").type = "LBRACE"
    BY SignsAre
  <2> DEFINE single == <<H!L!Sign("LBRACE")>>
  <2>2. single \in Seq(SignType) /\ Len(single) = 1 /\ single[1] = H!L!Sign("LBRACE")
    BY <2>1
  <2>3. single = <<H!L!Sign("LBRACE")>>
    OBVIOUS
  <2> HIDE DEF single
  <2> QED
    BY <2>1, <2>2, <2>3
<1>2. /\ "COMMA" \in H!L!TokenTypes /\ "RBRACE" \in H!L!TokenTypes
      /\ e[1] \in Seq(H!L!Char) /\ e[2] \in Seq(H!L!Char) /\ e[3] \in Seq(H!L!Char)
      /\ e[4] \in Seq(H!L!Char)
  BY SignsAre
<1>3. PICK s1 : s1 = s0 \o EntrySigns(e[1], "COMMA")
  OBVIOUS
<1>4. PICK s2 : s2 = s1 \o EntrySigns(e[2], "COMMA")
  OBVIOUS
<1>5. PICK s3 : s3 = s2 \o EntrySigns(e[3], "COMMA")
  OBVIOUS
<1>6. PICK s4 : s4 = s3 \o EntrySigns(e[4], "RBRACE")
  OBVIOUS
<1>7. /\ s1 \in Seq(SignType) /\ Len(s1) = 5 /\ s1[1].type = "LBRACE"
      /\ s1[2].type = "STRING" /\ s1[3].type = "COLON" /\ s1[4] = H!L!Numeral(e[1])
      /\ s1[5].type = "COMMA"
  <2>1. 1 \in Nat /\ 1 = Len(s0)
    BY <1>1
  <2>2. EntryAt(s1, s0, 1, e[1], "COMMA")
    BY <1>1, <1>2, <1>3, <2>1, EntryBehind
  <2> QED
    BY <1>1, <2>2 DEF EntryAt
<1>8. /\ s2 \in Seq(SignType) /\ Len(s2) = 9 /\ \A p \in 1 .. 5 : s2[p] = s1[p]
      /\ s2[6].type = "STRING" /\ s2[7].type = "COLON" /\ s2[8] = H!L!Numeral(e[2])
      /\ s2[9].type = "COMMA"
  <2>1. 5 \in Nat /\ 5 = Len(s1)
    BY <1>7
  <2>2. EntryAt(s2, s1, 5, e[2], "COMMA")
    BY <1>7, <1>2, <1>4, <2>1, EntryBehind
  <2> QED
    BY <2>2 DEF EntryAt
<1>9. /\ s3 \in Seq(SignType) /\ Len(s3) = 13 /\ \A p \in 1 .. 9 : s3[p] = s2[p]
      /\ s3[10].type = "STRING" /\ s3[11].type = "COLON" /\ s3[12] = H!L!Numeral(e[3])
      /\ s3[13].type = "COMMA"
  <2>1. 9 \in Nat /\ 9 = Len(s2)
    BY <1>8
  <2>2. EntryAt(s3, s2, 9, e[3], "COMMA")
    BY <1>8, <1>2, <1>5, <2>1, EntryBehind
  <2> QED
    BY <2>2 DEF EntryAt
<1>10. /\ s4 \in Seq(SignType) /\ Len(s4) = 17 /\ \A p \in 1 .. 13 : s4[p] = s3[p]
       /\ s4[14].type = "STRING" /\ s4[15].type = "COLON" /\ s4[16] = H!L!Numeral(e[4])
       /\ s4[17].type = "RBRACE"
  <2>1. 13 \in Nat /\ 13 = Len(s3)
    BY <1>9
  <2>2. EntryAt(s4, s3, 13, e[4], "RBRACE")
    BY <1>9, <1>2, <1>6, <2>1, EntryBehind
  <2> QED
    BY <2>2 DEF EntryAt
<1>11. \A p \in 1 .. 5 : p \in 1 .. 9 /\ p \in 1 .. 13 /\ s4[p] = s1[p]
  <2> TAKE p \in 1 .. 5
  <2>1. p \in 1 .. 9 /\ p \in 1 .. 13
    OBVIOUS
  <2>2. s4[p] = s3[p] /\ s3[p] = s2[p] /\ s2[p] = s1[p]
    BY <1>8, <1>9, <1>10, <2>1
  <2> QED
    BY <2>1, <2>2
<1>12. \A p \in 1 .. 9 : p \in 1 .. 13 /\ s4[p] = s2[p]
  <2> TAKE p \in 1 .. 9
  <2>1. p \in 1 .. 13
    OBVIOUS
  <2>2. s4[p] = s3[p] /\ s3[p] = s2[p]
    BY <1>9, <1>10, <2>1
  <2> QED
    BY <2>1, <2>2
<1>13. /\ s4[1] = s1[1] /\ s4[2] = s1[2] /\ s4[3] = s1[3] /\ s4[4] = s1[4] /\ s4[5] = s1[5]
       /\ s4[6] = s2[6] /\ s4[7] = s2[7] /\ s4[8] = s2[8] /\ s4[9] = s2[9]
       /\ s4[10] = s3[10] /\ s4[11] = s3[11] /\ s4[12] = s3[12] /\ s4[13] = s3[13]
  BY <1>10, <1>11, <1>12
<1>14. ASSUME NEW k \in 1 .. 4, NEW a, NEW b, NEW c, NEW d,
              a = 4 * k - 2, b = 4 * k - 1, c = 4 * k, d = 4 * k + 1
       PROVE  /\ s4[a].type = "STRING" /\ s4[b].type = "COLON" /\ s4[c] = H!L!Numeral(e[k])
              /\ s4[d].type = IF k = 4 THEN "RBRACE" ELSE "COMMA"
  <2>1. CASE k = 1
    <3>1. a = 2 /\ b = 3 /\ c = 4 /\ d = 5
      BY <1>14, <2>1
    <3> QED
      BY <1>7, <1>13, <2>1, <3>1
  <2>2. CASE k = 2
    <3>1. a = 6 /\ b = 7 /\ c = 8 /\ d = 9
      BY <1>14, <2>2
    <3> QED
      BY <1>8, <1>13, <2>2, <3>1
  <2>3. CASE k = 3
    <3>1. a = 10 /\ b = 11 /\ c = 12 /\ d = 13
      BY <1>14, <2>3
    <3> QED
      BY <1>9, <1>13, <2>3, <3>1
  <2>4. CASE k = 4
    <3>1. a = 14 /\ b = 15 /\ c = 16 /\ d = 17
      BY <1>14, <2>4
    <3> QED
      BY <1>10, <2>4, <3>1
  <2> QED
    BY <2>1, <2>2, <2>3, <2>4
<1>15. PairSigns(e) = s4
  BY <1>1, <1>3, <1>4, <1>5, <1>6 DEF PairSigns
<1>16. s4[1].type = "LBRACE"
  BY <1>7, <1>13
<1> QED
  BY <1>10, <1>14, <1>15, <1>16, SignsAre

\* The texts of a pair, in the order they are written.
PrintedPair(p) == [k \in 1 .. 4 |-> Printed(Coordinates(p)[k])]

IsPair(p) == p.x0 \in Int /\ p.x1 \in Int /\ p.y0 \in Int /\ p.y1 \in Int

NotNegative(p) == p.x0 >= 0 /\ p.x1 >= 0 /\ p.y0 >= 0 /\ p.y1 >= 0

LEMMA PrintedPairIs ==
  ASSUME NEW p, IsPair(p)
  PROVE  /\ PrintedPair(p)[1] = Printed(p.x0) /\ PrintedPair(p)[2] = Printed(p.x1)
         /\ PrintedPair(p)[3] = Printed(p.y0) /\ PrintedPair(p)[4] = Printed(p.y1)
         /\ \A k \in 1 .. 4 :
              /\ PrintedPair(p)[k] \in Seq(H!L!Char)
              /\ H!OnePoint(PrintedPair(p)[k], Len(PrintedPair(p)[k]))
         /\ PrintedPair(p) \in H!Element
<1>1. /\ Coordinates(p)[1] = p.x0 /\ Coordinates(p)[2] = p.x1
      /\ Coordinates(p)[3] = p.y0 /\ Coordinates(p)[4] = p.y1
  BY DEF Coordinates
<1>2. \A k \in 1 .. 4 : Coordinates(p)[k] \in Int
  <2> TAKE k \in 1 .. 4
  <2>1. k = 1 \/ k = 2 \/ k = 3 \/ k = 4
    OBVIOUS
  <2> QED
    BY <1>1, <2>1 DEF IsPair
<1>3. \A k \in 1 .. 4 : PrintedPair(p)[k] = Printed(Coordinates(p)[k])
  BY DEF PrintedPair
<1>4. \A k \in 1 .. 4 :
        /\ PrintedPair(p)[k] \in Seq(H!L!Char)
        /\ H!OnePoint(PrintedPair(p)[k], Len(PrintedPair(p)[k]))
  BY <1>2, <1>3, PrintedIs
<1>5. PrintedPair(p) \in [1 .. 4 -> Seq(H!L!Char)]
  BY <1>4 DEF PrintedPair
<1>6. PrintedPair(p) \in H!Element
  BY <1>4, <1>5 DEF H!Element
<1> QED
  BY <1>1, <1>3, <1>4, <1>6

LEMMA PairPiece ==
  ASSUME NEW p, IsPair(p), NEW whole \in BOOLEAN, whole => NotNegative(p)
  PROVE  Piece(PairText(p), PairSigns(PrintedPair(p)), whole)
<1> DEFINE b == H!L!Blank
           t1 == Keyed(<<"x", "0">>, Printed(p.x0) \o <<Comma>>)
           t2 == Keyed(<<"x", "1">>, Printed(p.x1) \o <<Comma>>)
           t3 == Keyed(<<"x", "0">>, Printed(p.y0) \o <<Comma>>)
           t4 == Keyed(<<"x", "1">>, Printed(p.y1) \o <<RBrace>>)
           s0 == <<H!L!Sign("LBRACE")>>
           s1 == EntrySigns(Printed(p.x0), "COMMA")
           s2 == EntrySigns(Printed(p.x1), "COMMA")
           s3 == EntrySigns(Printed(p.y0), "COMMA")
           s4 == EntrySigns(Printed(p.y1), "RBRACE")
<1>1. /\ p.x0 \in Int /\ p.x1 \in Int /\ p.y0 \in Int /\ p.y1 \in Int
      /\ whole => p.x0 >= 0 /\ p.x1 >= 0 /\ p.y0 >= 0 /\ p.y1 >= 0
  BY DEF IsPair, NotNegative
<1>2. Comma \in H!L!PunctuationMarks /\ RBrace \in H!L!PunctuationMarks /\ LBrace \in H!L!PunctuationMarks
  BY Marks
<1>3. Piece(<<LBrace>>, s0, whole)
  BY <1>2, MarkPiece, Marks
<1>4. Piece(t1, s1, whole)
  BY <1>1, <1>2, EntryPiece, Names, Marks
<1>5. Piece(t2, s2, whole)
  BY <1>1, <1>2, EntryPiece, Names, Marks
<1>6. Piece(t3, s3, whole)
  BY <1>1, <1>2, EntryPiece, Names, Marks
<1>7. Piece(t4, s4, whole)
  BY <1>1, <1>2, EntryPiece, Names, Marks
<1>8. PairText(p) = <<LBrace>> \o t1 \o <<b>> \o t2 \o <<b>> \o t3 \o <<b>> \o t4
  BY PairTextIs
<1>9. PairSigns(PrintedPair(p)) = s0 \o s1 \o s2 \o s3 \o s4
  BY PrintedPairIs DEF PairSigns
<1> HIDE DEF b, t1, t2, t3, t4, s0, s1, s2, s3, s4
<1>10. Piece(<<LBrace>> \o t1 \o <<b>>, s0 \o s1, whole)
  BY <1>3, <1>4, PiecesJoin, BlankPiece DEF b
<1>11. Piece(<<LBrace>> \o t1 \o <<b>> \o t2 \o <<b>>, s0 \o s1 \o s2, whole)
  BY <1>5, <1>10, PiecesJoin, BlankPiece DEF b
<1>12. Piece(<<LBrace>> \o t1 \o <<b>> \o t2 \o <<b>> \o t3 \o <<b>>, s0 \o s1 \o s2 \o s3, whole)
  BY <1>6, <1>11, PiecesJoin, BlankPiece DEF b
<1>13. Piece(<<LBrace>> \o t1 \o <<b>> \o t2 \o <<b>> \o t3 \o <<b>> \o t4,
             s0 \o s1 \o s2 \o s3 \o s4, whole)
  BY <1>7, <1>12, PiecesJoin
<1> QED
  BY <1>8, <1>9, <1>13

LEMMA HeadPiece ==
  ASSUME NEW whole
  PROVE  Piece(Text("head"), <<H!L!Sign("LBRACE")>> \o (<<H!L!Sign("STRING"), H!L!Sign("COLON")>>
                               \o <<H!L!Sign("LBRACKET")>>), whole)
<1>1. /\ Piece(<<LBrace>>, <<H!L!Sign("LBRACE")>>, whole)
      /\ Piece(<<LBracket>>, <<H!L!Sign("LBRACKET")>>, whole)
  BY MarkPiece, Marks
<1>2. Piece(Keyed(<<"x", "a", "x", "r", "s">>, <<LBracket>>),
            <<H!L!Sign("STRING"), H!L!Sign("COLON")>> \o <<H!L!Sign("LBRACKET")>>, whole)
  BY <1>1, KeyedPiece, Names
<1> QED
  BY <1>1, <1>2, PiecesJoin, BlankPiece, TextIs

LEMMA SeparatorPiece ==
  ASSUME NEW whole
  PROVE  Piece(Text(","), <<H!L!Sign("COMMA")>>, whole)
<1>1. Piece(<<Comma>>, <<H!L!Sign("COMMA")>>, whole)
  BY MarkPiece, Marks
<1> QED
  BY <1>1, BlankPiece, TextIs

LEMMA TailPiece ==
  ASSUME NEW whole
  PROVE  Piece(Text("tail"), <<H!L!Sign("RBRACKET"), H!L!Sign("RBRACE")>>, whole)
<1>1. /\ Piece(<<RBracket>>, <<H!L!Sign("RBRACKET")>>, whole)
      /\ Piece(<<RBrace>>, <<H!L!Sign("RBRACE")>>, whole)
  BY MarkPiece, Marks
<1>2. <<H!L!Sign("RBRACKET")>> \o <<H!L!Sign("RBRACE")>>
        = <<H!L!Sign("RBRACKET"), H!L!Sign("RBRACE")>>
  BY SignsAre, TwoAre
<1> QED
  BY <1>1, <1>2, PiecesJoin, TextIs

\* The shortest pair is as long as that.
LEMMA KeyedLong ==
  ASSUME NEW x \in Int, NEW c \in H!L!PunctuationMarks, NEW name \in Seq(H!L!InString),
         Len(name) = 2
  PROVE  /\ Keyed(name, Printed(x) \o <<c>>) \in Seq(H!L!Char)
         /\ Len(Keyed(name, Printed(x) \o <<c>>)) >= 10
<1>1. PICK q \in H!L!Char : q = H!L!Quote
  BY H!L!Characters, ReaderAssumptions
<1>2. PICK b \in H!L!Char : b = H!L!Blank
  BY H!L!Characters, ReaderAssumptions
<1>3. PICK d \in H!L!Char : d = Colon
  BY MarkPiece, Marks DEF H!L!Char, H!L!Ascii
<1>4. c \in H!L!Char
  BY DEF H!L!Char, H!L!Ascii
<1>5. name \in Seq(H!L!Char)
  <2>1. H!L!InString \subseteq H!L!Char
    BY H!L!Characters, ReaderAssumptions
  <2> QED
    BY <2>1, H!L!LargerSeq, ReaderAssumptions
<1>6. PICK text : text = Printed(x) /\ text \in Seq(H!L!Char) /\ Len(text) >= 3
  BY PrintedIs
<1>7. Keyed(name, text \o <<c>>) = <<q>> \o name \o <<q>> \o <<d>> \o <<b>> \o (text \o <<c>>)
  BY <1>1, <1>2, <1>3, KeyedIs
<1>8. /\ <<q>> \o name \o <<q>> \o <<d>> \o <<b>> \in Seq(H!L!Char)
      /\ Len(<<q>> \o name \o <<q>> \o <<d>> \o <<b>>) = 6
  <2>1. <<q>> \o name \in Seq(H!L!Char) /\ Len(<<q>> \o name) = 3
    <3> DEFINE quote == <<q>>
    <3>1. quote \in Seq(H!L!Char) /\ 1 = Len(quote) /\ 1 \in Nat
      OBVIOUS
    <3> HIDE DEF quote
    <3>2. quote \o name \in Seq(H!L!Char) /\ Len(quote \o name) = Len(quote) + Len(name)
      BY <1>5, <3>1, ConcatProperties
    <3> QED
      BY <3>1, <3>2 DEF quote
  <2>2. <<q>> \o name \o <<q>> \in Seq(H!L!Char) /\ Len(<<q>> \o name \o <<q>>) = 4
    BY <2>1
  <2>3. /\ <<q>> \o name \o <<q>> \o <<d>> \in Seq(H!L!Char)
        /\ Len(<<q>> \o name \o <<q>> \o <<d>>) = 5
    BY <2>2
  <2> QED
    BY <2>3
<1>9. text \o <<c>> \in Seq(H!L!Char) /\ Len(text \o <<c>>) >= 4
  BY <1>4, <1>6
<1> DEFINE before == <<q>> \o name \o <<q>> \o <<d>> \o <<b>>
           behind == text \o <<c>>
<1>10. before \in Seq(H!L!Char) /\ Len(before) = 6
  BY <1>8
<1>11. behind \in Seq(H!L!Char) /\ Len(behind) >= 4
  BY <1>9
<1>12. Keyed(name, Printed(x) \o <<c>>) = before \o behind
  BY <1>6, <1>7
<1> HIDE DEF before, behind
<1>13. before \o behind \in Seq(H!L!Char) /\ Len(before \o behind) >= 10
  <2>1. 6 = Len(before) /\ 6 \in Nat /\ before \in Seq(H!L!Char) /\ behind \in Seq(H!L!Char)
    BY <1>10, <1>11
  <2>2. before \o behind \in Seq(H!L!Char) /\ Len(before \o behind) = Len(before) + Len(behind)
    BY <2>1, ConcatProperties
  <2> QED
    BY <1>10, <1>11, <2>2
<1> QED
  BY <1>12, <1>13

LEMMA PairLong ==
  ASSUME NEW p, IsPair(p)
  PROVE  Len(PairText(p)) >= 44
<1> DEFINE t1 == Keyed(<<"x", "0">>, Printed(p.x0) \o <<Comma>>)
           t2 == Keyed(<<"x", "1">>, Printed(p.x1) \o <<Comma>>)
           t3 == Keyed(<<"x", "0">>, Printed(p.y0) \o <<Comma>>)
           t4 == Keyed(<<"x", "1">>, Printed(p.y1) \o <<RBrace>>)
<1>1. Len(<<"x", "0">>) = 2 /\ Len(<<"x", "1">>) = 2
  OBVIOUS
<1>2. p.x0 \in Int /\ p.x1 \in Int /\ p.y0 \in Int /\ p.y1 \in Int
  BY DEF IsPair
<1>3. /\ t1 \in Seq(H!L!Char) /\ Len(t1) >= 10 /\ t2 \in Seq(H!L!Char) /\ Len(t2) >= 10
      /\ t3 \in Seq(H!L!Char) /\ Len(t3) >= 10 /\ t4 \in Seq(H!L!Char) /\ Len(t4) >= 10
  BY <1>1, <1>2, KeyedLong, Names, Marks
<1>4. PICK b \in H!L!Char : b = H!L!Blank
  BY H!L!Characters, ReaderAssumptions
<1>5. PICK l \in H!L!Char : l = LBrace
  BY Marks DEF H!L!Char, H!L!Ascii
<1>6. PairText(p) = <<l>> \o t1 \o <<b>> \o t2 \o <<b>> \o t3 \o <<b>> \o t4
  BY <1>4, <1>5, PairTextIs
<1> HIDE DEF t1, t2, t3, t4
<1> DEFINE u1 == <<l>> \o t1 \o <<b>>
           u2 == u1 \o t2 \o <<b>>
           u3 == u2 \o t3 \o <<b>>
<1>7. u1 \in Seq(H!L!Char) /\ Len(u1) >= 12
  BY <1>3
<1> HIDE DEF u1
<1>8. u2 \in Seq(H!L!Char) /\ Len(u2) >= 23
  BY <1>3, <1>7
<1> HIDE DEF u2
<1>9. u3 \in Seq(H!L!Char) /\ Len(u3) >= 34
  BY <1>3, <1>8
<1> HIDE DEF u3
<1>10. Len(u3 \o t4) >= 44
  BY <1>3, <1>9
<1> QED
  BY <1>6, <1>10 DEF u1, u2, u3

-----------------------------------------------------------------------------
(***************************************************************************)
(* The tokens of the file, as it grows.                                    *)
(***************************************************************************)

\* What is there stays where it is.
LEMMA SignsBehind ==
  ASSUME NEW signs \in H!L!Signs, NEW more \in H!L!Signs, NEW d \in Nat, d = Len(signs)
  PROVE  /\ signs \o more \in H!L!Signs /\ Len(more) \in Nat /\ Len(signs \o more) = d + Len(more)
         /\ \A p \in 1 .. d : (signs \o more)[p] = signs[p]
         /\ \A p \in 1 .. Len(more) : (signs \o more)[d + p] = more[p]
<1>1. PICK S : H!L!Signs = Seq(S)
  BY SignsAre
<1>2. signs \in Seq(S) /\ more \in Seq(S)
  BY <1>1
<1>3. /\ signs \o more \in Seq(S) /\ Len(more) \in Nat /\ Len(signs \o more) = d + Len(more)
      /\ \A k \in 1 .. d : (signs \o more)[k] = signs[k]
      /\ \A k \in 1 .. Len(more) : (signs \o more)[d + k] = more[k]
  BY <1>2, H!L!OneBehindTheOther, ReaderAssumptions
<1> QED
  BY <1>1, <1>3

LEMMA Places ==
  ASSUME NEW n \in Nat, n >= 1, NEW k \in 1 .. 4
  PROVE  /\ H!ElementAt(n) \in Nat /\ H!ElementAt(n) >= 5 /\ H!ElementAt(n) = 18 * n - 13
         /\ H!NumberAt(n, k) \in Nat /\ H!NumberAt(n, k) = H!ElementAt(n) + 4 * k - 1
         /\ H!NumberAt(n, k) >= H!ElementAt(n) + 3 /\ H!NumberAt(n, k) <= H!ElementAt(n) + 15
<1>1. k = 1 \/ k = 2 \/ k = 3 \/ k = 4
  OBVIOUS
<1> QED
  BY <1>1 DEF H!ElementAt, H!NumberAt

LEMMA BeginKept ==
  ASSUME NEW signs \in H!L!Signs, NEW more \in H!L!Signs, NEW elements, Len(elements) \in Nat,
         H!Begin(signs, elements)
  PROVE  H!Begin(signs \o more, elements)
<1> DEFINE all == signs \o more
<1>1. PICK d \in Nat : d = Len(signs)
  BY SignsAre
<1>2. PICK l \in Nat : l = Len(all) /\ l >= d
  BY <1>1, SignsBehind
<1>3. \A p \in 1 .. d : all[p] = signs[p]
  BY <1>1, SignsBehind
<1> HIDE DEF all
<1>4. d >= 4 /\ 1 \in 1 .. d /\ 2 \in 1 .. d /\ 3 \in 1 .. d /\ 4 \in 1 .. d
  BY <1>1 DEF H!Begin
<1>5. /\ Len(all) >= 4 /\ all[1].type = "LBRACE" /\ all[2].type = "STRING"
      /\ all[3].type = "COLON" /\ all[4].type = "LBRACKET"
  BY <1>2, <1>3, <1>4 DEF H!Begin
<1>6. ASSUME NEW n \in 1 .. Len(elements)
      PROVE  /\ H!ElementAt(n) + 16 <= Len(all)
             /\ all[H!ElementAt(n)].type = "LBRACE"
             /\ \A k \in 1 .. 4 :
                  /\ all[H!NumberAt(n, k) - 2].type = "STRING"
                  /\ all[H!NumberAt(n, k) - 1].type = "COLON"
                  /\ all[H!NumberAt(n, k)] = H!L!Numeral(elements[n][k])
                  /\ all[H!NumberAt(n, k) + 1].type = IF k = 4 THEN "RBRACE" ELSE "COMMA"
             /\ n > 1 => all[H!ElementAt(n) - 1].type = "COMMA"
  <2>1. n \in Nat /\ n >= 1 /\ 1 \in 1 .. 4
    OBVIOUS
  <2>2. PICK at \in Nat : at = H!ElementAt(n) /\ at >= 5
    BY <2>1, Places
  <2>3. at + 16 <= d
    BY <1>1, <2>2 DEF H!Begin
  <2>4. at \in 1 .. d /\ at - 1 \in 1 .. d
    BY <1>1, <2>2, <2>3
  <2>5. /\ at + 16 <= l /\ all[at].type = "LBRACE" /\ (n > 1 => all[at - 1].type = "COMMA")
    <3>1. signs[at].type = "LBRACE" /\ (n > 1 => signs[at - 1].type = "COMMA")
      BY <2>2 DEF H!Begin
    <3>2. all[at] = signs[at] /\ all[at - 1] = signs[at - 1]
      BY <1>3, <2>4
    <3>3. at + 16 <= l
      BY <1>1, <1>2, <2>2, <2>3
    <3> QED
      BY <3>1, <3>2, <3>3
  <2>6. ASSUME NEW k \in 1 .. 4
        PROVE  /\ all[H!NumberAt(n, k) - 2].type = "STRING"
               /\ all[H!NumberAt(n, k) - 1].type = "COLON"
               /\ all[H!NumberAt(n, k)] = H!L!Numeral(elements[n][k])
               /\ all[H!NumberAt(n, k) + 1].type = IF k = 4 THEN "RBRACE" ELSE "COMMA"
    <3>1. PICK p \in Nat : p = H!NumberAt(n, k) /\ p >= at + 3 /\ p <= at + 15
      BY <2>1, <2>2, Places
    <3>2. /\ signs[p - 2].type = "STRING" /\ signs[p - 1].type = "COLON"
          /\ signs[p] = H!L!Numeral(elements[n][k])
          /\ signs[p + 1].type = IF k = 4 THEN "RBRACE" ELSE "COMMA"
      BY <3>1 DEF H!Begin
    <3>3. at \in Int /\ d \in Int /\ p \in Int /\ at >= 5 /\ at + 16 <= d /\ p >= at + 3 /\ p <= at + 15
      BY <1>1, <2>2, <2>3, <3>1
    <3>4. p \in 1 .. d /\ p - 2 \in 1 .. d /\ p - 1 \in 1 .. d /\ p + 1 \in 1 .. d
      BY <3>3
    <3>5. /\ all[p] = signs[p] /\ all[p - 2] = signs[p - 2] /\ all[p - 1] = signs[p - 1]
          /\ all[p + 1] = signs[p + 1]
      BY <1>3, <3>4
    <3> QED
      BY <3>1, <3>2, <3>5
  <2> QED
    BY <1>2, <2>2, <2>5, <2>6
<1>7. H!Begin(all, elements)
  BY <1>5, <1>6 DEF H!Begin
<1> QED
  BY <1>7 DEF all

LEMMA CloseKept ==
  ASSUME NEW signs \in H!L!Signs, NEW more \in H!L!Signs, H!CloseElements(signs),
         \A q \in 1 .. Len(more) : more[q].type \in H!P!ClosingTypes =>
           Len(signs) + q > 17 /\ (signs \o more)[Len(signs) + q - 16].type = "LBRACE"
  PROVE  H!CloseElements(signs \o more)
<1> DEFINE all == signs \o more
<1>1. PICK d \in Nat, m \in Nat : d = Len(signs) /\ m = Len(more) /\ Len(all) = d + m
  <2>1. PICK d \in Nat : d = Len(signs)
    BY SignsAre
  <2> QED
    BY <2>1, SignsBehind
<1>2. /\ \A p \in 1 .. d : all[p] = signs[p]
      /\ \A p \in 1 .. m : all[d + p] = more[p]
  BY <1>1, SignsBehind
<1>3. \A q \in 1 .. m : more[q].type \in H!P!ClosingTypes => d + q > 17 /\ all[d + q - 16].type = "LBRACE"
  BY <1>1
<1> HIDE DEF all
<1> SUFFICES ASSUME NEW p \in 1 .. d + m, all[p].type \in H!P!ClosingTypes
             PROVE  p > 17 /\ all[p - 16].type = "LBRACE"
  BY <1>1 DEF H!CloseElements, all
<1>4. CASE p \in 1 .. d
  <2>1. p > 17 /\ signs[p - 16].type = "LBRACE"
    BY <1>1, <1>2, <1>4 DEF H!CloseElements
  <2>2. p - 16 \in 1 .. d
    BY <1>4, <2>1
  <2> QED
    BY <1>2, <2>1, <2>2
<1>5. CASE p \notin 1 .. d
  <2>1. PICK q \in 1 .. m : p = d + q
    <3>1. p - d \in 1 .. m /\ p = d + (p - d)
      BY <1>5
    <3> QED
      BY <3>1
  <2>2. more[q].type \in H!P!ClosingTypes
    BY <1>2, <2>1
  <2> QED
    BY <1>3, <2>1, <2>2
<1> QED
  BY <1>4, <1>5

\* The tokens of a pair close nothing but the pair.
LEMMA PairCloses ==
  ASSUME NEW e, \A k \in 1 .. 4 : e[k] \in Seq(H!L!Char), NEW q \in 1 .. 17,
         PairSigns(e)[q].type \in H!P!ClosingTypes
  PROVE  q = 17
<1>1. PICK s : s = PairSigns(e)
  OBVIOUS
<1>2. /\ s[1].type = "LBRACE"
      /\ \A k \in 1 .. 4 :
           /\ s[4 * k - 2].type = "STRING" /\ s[4 * k - 1].type = "COLON"
           /\ s[4 * k] = H!L!Numeral(e[k])
           /\ s[4 * k + 1].type = IF k = 4 THEN "RBRACE" ELSE "COMMA"
  BY <1>1, PairSignsAre
<1>3. \A k \in 1 .. 4 : s[4 * k].type = "NUMBER"
  BY <1>2, SignsAre
<1>4. s[q].type = "RBRACE" \/ s[q].type = "RBRACKET"
  BY <1>1 DEF H!P!ClosingTypes
<1>5. PICK k \in 1 .. 4 : q = 1 \/ q = 4 * k - 2 \/ q = 4 * k - 1 \/ q = 4 * k \/ q = 4 * k + 1
  <2>1. q \in 1 .. 5 \/ q \in 6 .. 9 \/ q \in 10 .. 13 \/ q \in 14 .. 17
    OBVIOUS
  <2>2. CASE q \in 1 .. 5
    <3>1. q = 1 \/ q = 4 * 1 - 2 \/ q = 4 * 1 - 1 \/ q = 4 * 1 \/ q = 4 * 1 + 1
      BY <2>2
    <3> QED
      BY <3>1
  <2>3. CASE q \in 6 .. 9
    <3>1. q = 1 \/ q = 4 * 2 - 2 \/ q = 4 * 2 - 1 \/ q = 4 * 2 \/ q = 4 * 2 + 1
      BY <2>3
    <3> QED
      BY <3>1
  <2>4. CASE q \in 10 .. 13
    <3>1. q = 1 \/ q = 4 * 3 - 2 \/ q = 4 * 3 - 1 \/ q = 4 * 3 \/ q = 4 * 3 + 1
      BY <2>4
    <3> QED
      BY <3>1
  <2>5. CASE q \in 14 .. 17
    <3>1. q = 1 \/ q = 4 * 4 - 2 \/ q = 4 * 4 - 1 \/ q = 4 * 4 \/ q = 4 * 4 + 1
      BY <2>5
    <3> QED
      BY <3>1
  <2> QED
    BY <2>1, <2>2, <2>3, <2>4, <2>5
<1>6. k # 4 => s[q].type \in {"LBRACE", "STRING", "COLON", "NUMBER", "COMMA"}
  BY <1>2, <1>3, <1>5
<1>7. q # 17 => s[q].type \in {"LBRACE", "STRING", "COLON", "NUMBER", "COMMA"}
  BY <1>2, <1>3, <1>5, <1>6
<1> QED
  BY <1>4, <1>7

\* Another pair may follow: it is the first, or there is a comma.
MayFollow(signs, n) ==
  Len(signs) = 18 * n + 4 /\ (n > 0 => signs[18 * n + 4].type = "COMMA")

LEMMA PairFollows ==
  ASSUME NEW signs \in H!L!Signs, NEW elements \in Seq(H!Element), NEW e \in H!Element,
         NEW n \in Nat, n = Len(elements),
         H!Begin(signs, elements), H!CloseElements(signs), MayFollow(signs, n)
  PROVE  LET all == signs \o PairSigns(e) IN
         /\ all \in H!L!Signs /\ Len(all) = 18 * (n + 1) + 3
         /\ H!Begin(all, Append(elements, e)) /\ H!CloseElements(all)
<1> DEFINE s == PairSigns(e)
           all == signs \o s
           more == Append(elements, e)
<1>1. \A k \in 1 .. 4 : e[k] \in Seq(H!L!Char)
  BY DEF H!Element
<1>2. /\ s \in H!L!Signs /\ Len(s) = 17 /\ s[1].type = "LBRACE"
      /\ \A k \in 1 .. 4 :
           /\ s[4 * k - 2].type = "STRING" /\ s[4 * k - 1].type = "COLON"
           /\ s[4 * k] = H!L!Numeral(e[k])
           /\ s[4 * k + 1].type = IF k = 4 THEN "RBRACE" ELSE "COMMA"
  BY <1>1, PairSignsAre
<1>3. \A q \in 1 .. 17 : s[q].type \in H!P!ClosingTypes => q = 17
  BY <1>1, PairCloses
<1> HIDE DEF s
<1>4. PICK d \in Nat : d = 18 * n + 4 /\ d = Len(signs) /\ (n > 0 => signs[d].type = "COMMA")
  BY DEF MayFollow
<1>19. /\ all \in H!L!Signs /\ Len(all) = d + Len(s)
       /\ \A p \in 1 .. d : all[p] = signs[p]
       /\ \A q \in 1 .. Len(s) : all[d + q] = s[q]
  <2>1. s \in H!L!Signs /\ d = Len(signs)
    BY <1>2, <1>4
  <2> QED
    BY <2>1, SignsBehind
<1>20. Len(s) = 17
  BY <1>2
<1>5. all \in H!L!Signs /\ Len(all) = d + 17
  BY <1>19, <1>20
<1>6. /\ \A p \in 1 .. d : all[p] = signs[p]
      /\ \A q \in 1 .. 17 : all[d + q] = s[q]
  BY <1>19, <1>20
<1>7. H!Begin(all, elements)
  BY <1>2, BeginKept
<1>8. /\ Len(more) = n + 1 /\ more[n + 1] = e
      /\ \A j \in 1 .. n : more[j] = elements[j]
  OBVIOUS
<1> HIDE DEF all, more
<1>9. d + 1 \in Nat /\ d + 1 = H!ElementAt(n + 1) /\ d \in 1 .. d
  BY <1>4 DEF H!ElementAt
<1>10. all[d + 1].type = "LBRACE"
  <2>1. 1 \in 1 .. 17
    OBVIOUS
  <2>2. all[d + 1] = s[1]
    BY <1>6, <2>1
  <2> QED
    BY <1>2, <2>2
<1>11. ASSUME NEW k \in 1 .. 4
       PROVE  /\ all[H!NumberAt(n + 1, k) - 2].type = "STRING"
              /\ all[H!NumberAt(n + 1, k) - 1].type = "COLON"
              /\ all[H!NumberAt(n + 1, k)] = H!L!Numeral(e[k])
              /\ all[H!NumberAt(n + 1, k) + 1].type = IF k = 4 THEN "RBRACE" ELSE "COMMA"
  <2>1. H!NumberAt(n + 1, k) = d + 4 * k
    BY <1>9 DEF H!NumberAt
  <2>2. k = 1 \/ k = 2 \/ k = 3 \/ k = 4
    OBVIOUS
  <2>3. PICK q \in Nat : q = 4 * k /\ q >= 4 /\ q <= 16
    BY <2>2
  <2>4. q - 2 \in 1 .. 17 /\ q - 1 \in 1 .. 17 /\ q \in 1 .. 17 /\ q + 1 \in 1 .. 17
    BY <2>3
  <2>5. /\ all[d + (q - 2)] = s[q - 2] /\ all[d + (q - 1)] = s[q - 1] /\ all[d + q] = s[q]
        /\ all[d + (q + 1)] = s[q + 1]
    BY <1>6, <2>4
  <2>6. /\ s[q - 2].type = "STRING" /\ s[q - 1].type = "COLON" /\ s[q] = H!L!Numeral(e[k])
        /\ s[q + 1].type = IF k = 4 THEN "RBRACE" ELSE "COMMA"
    BY <1>2, <2>3
  <2>7. /\ H!NumberAt(n + 1, k) - 2 = d + (q - 2) /\ H!NumberAt(n + 1, k) - 1 = d + (q - 1)
        /\ H!NumberAt(n + 1, k) = d + q /\ H!NumberAt(n + 1, k) + 1 = d + (q + 1)
    BY <2>1, <2>3
  <2> QED
    BY <2>5, <2>6, <2>7
<1>12. n + 1 > 1 => all[H!ElementAt(n + 1) - 1].type = "COMMA"
  <2>1. H!ElementAt(n + 1) - 1 = d
    BY <1>9
  <2>2. all[d] = signs[d]
    BY <1>6, <1>9
  <2> QED
    BY <1>4, <2>1, <2>2
<1>13. H!ElementAt(n + 1) + 16 <= Len(all)
  BY <1>5, <1>9
<1>14. \A j \in 1 .. n + 1 : j \in 1 .. n \/ j = n + 1
  OBVIOUS
<1>15. ASSUME NEW j \in 1 .. n + 1
       PROVE  /\ H!ElementAt(j) + 16 <= Len(all)
              /\ all[H!ElementAt(j)].type = "LBRACE"
              /\ \A k \in 1 .. 4 :
                   /\ all[H!NumberAt(j, k) - 2].type = "STRING"
                   /\ all[H!NumberAt(j, k) - 1].type = "COLON"
                   /\ all[H!NumberAt(j, k)] = H!L!Numeral(more[j][k])
                   /\ all[H!NumberAt(j, k) + 1].type = IF k = 4 THEN "RBRACE" ELSE "COMMA"
              /\ j > 1 => all[H!ElementAt(j) - 1].type = "COMMA"
  <2>1. CASE j = n + 1
    BY <1>8, <1>9, <1>10, <1>11, <1>12, <1>13, <2>1
  <2>2. CASE j \in 1 .. n
    BY <1>7, <1>8, <2>2 DEF H!Begin
  <2> QED
    BY <1>14, <2>1, <2>2
<1>16. H!Begin(all, more)
  BY <1>7, <1>8, <1>15 DEF H!Begin
<1>17. H!CloseElements(all)
  <2>1. ASSUME NEW q \in 1 .. 17, s[q].type \in H!P!ClosingTypes
        PROVE  d + q > 17 /\ all[d + q - 16].type = "LBRACE"
    <3>1. q = 17 /\ d >= 4
      BY <1>3, <1>4, <2>1
    <3>2. d + q - 16 = d + 1 /\ d + q > 17
      BY <3>1
    <3> QED
      BY <1>10, <3>2
  <2>2. s \in H!L!Signs /\ Len(s) = 17
    BY <1>2
  <2>3. \A q \in 1 .. Len(s) : s[q].type \in H!P!ClosingTypes =>
          Len(signs) + q > 17 /\ (signs \o s)[Len(signs) + q - 16].type = "LBRACE"
    BY <1>4, <2>1, <2>2 DEF all
  <2>4. H!CloseElements(signs \o s)
    BY <2>2, <2>3, CloseKept
  <2> QED
    BY <2>4 DEF all
<1>18. Len(all) = 18 * (n + 1) + 3
  BY <1>4, <1>5
<1> QED
  BY <1>5, <1>16, <1>17, <1>18 DEF all, more, s

\* The list may be closed: there is no comma behind the last pair.
MayEnd(signs, n) == Len(signs) + 1 = H!ArrayEnd(n)

LEMMA HeadBegins ==
  LET signs == <<H!L!Sign("LBRACE")>>
                 \o (<<H!L!Sign("STRING"), H!L!Sign("COLON")>> \o <<H!L!Sign("LBRACKET")>>) IN
  /\ signs \in H!L!Signs /\ H!Begin(signs, <<>>) /\ H!CloseElements(signs)
  /\ MayFollow(signs, 0) /\ MayEnd(signs, 0)
<1> DEFINE one == <<H!L!Sign("LBRACE")>>
           two == <<H!L!Sign("STRING"), H!L!Sign("COLON")>>
           last == <<H!L!Sign("LBRACKET")>>
           signs == one \o (two \o last)
<1>1. /\ H!L!Sign("LBRACE") \in SignType /\ H!L!Sign("STRING") \in SignType
      /\ H!L!Sign("COLON") \in SignType /\ H!L!Sign("LBRACKET") \in SignType
      /\ H!L!Sign("LBRACE").type = "LBRACE" /\ H!L!Sign("STRING").type = "STRING"
      /\ H!L!Sign("COLON").type = "COLON" /\ H!L!Sign("LBRACKET").type = "LBRACKET"
  BY SignsAre
<1>2. /\ one \in Seq(SignType) /\ Len(one) = 1 /\ one[1].type = "LBRACE"
      /\ two \in Seq(SignType) /\ Len(two) = 2 /\ two[1].type = "STRING" /\ two[2].type = "COLON"
      /\ last \in Seq(SignType) /\ Len(last) = 1 /\ last[1].type = "LBRACKET"
  BY <1>1
<1> HIDE DEF one, two, last
<1>3. /\ one \in H!L!Signs /\ two \in H!L!Signs /\ last \in H!L!Signs
      /\ 1 = Len(one) /\ 2 = Len(two) /\ 1 = Len(last)
      /\ 1 \in 1 .. Len(last) /\ 1 \in 1 .. 2 /\ 2 \in 1 .. 2 /\ 1 \in 1 .. 1
  BY <1>2, SignsAre
<1>4. PICK rest \in H!L!Signs :
        /\ rest = two \o last /\ Len(rest) = 3
        /\ rest[1] = two[1] /\ rest[2] = two[2] /\ rest[3] = last[1]
  <2>1. PICK d \in Nat : d = 2 /\ d = Len(two)
    BY <1>3
  <2>2. /\ two \o last \in H!L!Signs /\ Len(two \o last) = d + Len(last)
        /\ \A p \in 1 .. d : (two \o last)[p] = two[p]
        /\ \A p \in 1 .. Len(last) : (two \o last)[d + p] = last[p]
    BY <1>3, <2>1, SignsBehind
  <2>3. PICK s : s = two \o last
    OBVIOUS
  <2>4. /\ s \in H!L!Signs /\ Len(s) = d + Len(last)
        /\ \A p \in 1 .. d : s[p] = two[p]
        /\ \A p \in 1 .. Len(last) : s[d + p] = last[p]
    BY <2>2, <2>3
  <2>6. 1 \in 1 .. d /\ 2 \in 1 .. d /\ d + 1 = 3 /\ Len(last) = 1
    <3>1. d = 2
      BY <2>1
    <3>2. Len(last) = 1
      BY <1>3
    <3> QED
      BY <3>1, <3>2
  <2>7. Len(s) = 3 /\ s[1] = two[1] /\ s[2] = two[2] /\ s[d + 1] = last[1]
    BY <1>3, <2>4, <2>6
  <2>5. s[3] = last[1]
    BY <2>1, <2>7
  <2> QED
    BY <2>3, <2>4, <2>5, <2>7
<1>5. /\ signs \in H!L!Signs /\ Len(signs) = 4
      /\ signs[1].type = "LBRACE" /\ signs[2].type = "STRING" /\ signs[3].type = "COLON"
      /\ signs[4].type = "LBRACKET"
  <2>1. PICK d \in Nat : d = 1 /\ d = Len(one)
    BY <1>3
  <2>2. /\ one \o rest \in H!L!Signs /\ Len(one \o rest) = d + Len(rest)
        /\ \A p \in 1 .. d : (one \o rest)[p] = one[p]
        /\ \A p \in 1 .. Len(rest) : (one \o rest)[d + p] = rest[p]
    <3>1. one \in H!L!Signs /\ rest \in H!L!Signs /\ d = Len(one)
      BY <1>3, <1>4, <2>1
    <3> QED
      BY <3>1, SignsBehind
  <2>3. 1 \in 1 .. Len(rest) /\ 2 \in 1 .. Len(rest) /\ 3 \in 1 .. Len(rest) /\ 1 \in 1 .. d
    BY <1>4, <2>1
  <2>4. PICK s : s = one \o rest
    OBVIOUS
  <2>5. /\ s \in H!L!Signs /\ Len(s) = 4 /\ s[1] = one[1] /\ s[d + 1] = rest[1]
        /\ s[d + 2] = rest[2] /\ s[d + 3] = rest[3]
    BY <1>4, <2>1, <2>2, <2>3, <2>4
  <2>6. s[2] = rest[1] /\ s[3] = rest[2] /\ s[4] = rest[3]
    BY <2>1, <2>5
  <2>7. signs = s
    BY <1>4, <2>4
  <2> QED
    BY <1>2, <1>4, <2>5, <2>6, <2>7
<1> HIDE DEF signs
<1>6. H!Begin(signs, <<>>)
  BY <1>5 DEF H!Begin
<1>7. H!CloseElements(signs)
  <2>1. \A p \in 1 .. Len(signs) : p = 1 \/ p = 2 \/ p = 3 \/ p = 4
    BY <1>5
  <2>2. \A p \in 1 .. Len(signs) : signs[p].type \in {"LBRACE", "STRING", "COLON", "LBRACKET"}
    BY <1>5, <2>1
  <2> QED
    BY <2>2 DEF H!CloseElements, H!P!ClosingTypes
<1>8. MayFollow(signs, 0) /\ MayEnd(signs, 0)
  BY <1>5 DEF MayFollow, MayEnd, H!ArrayEnd
<1>9. signs \in H!L!Signs
  BY <1>5
<1> QED
  BY <1>6, <1>7, <1>8, <1>9 DEF signs, one, two, last

LEMMA SeparatorFollows ==
  ASSUME NEW signs \in H!L!Signs, NEW elements \in Seq(H!Element),
         NEW n \in Nat, n = Len(elements), Len(signs) = 18 * n + 3,
         H!Begin(signs, elements), H!CloseElements(signs)
  PROVE  LET all == signs \o <<H!L!Sign("COMMA")>> IN
         /\ all \in H!L!Signs
         /\ H!Begin(all, elements) /\ H!CloseElements(all) /\ MayFollow(all, n)
<1> DEFINE comma == <<H!L!Sign("COMMA")>>
           all == signs \o comma
<1>1. /\ comma \in H!L!Signs /\ Len(comma) = 1 /\ comma[1].type = "COMMA"
  <2>1. H!L!Sign("COMMA") \in SignType /\ H!L!Sign("COMMA").type = "COMMA"
    BY SignsAre
  <2>2. comma \in Seq(SignType) /\ Len(comma) = 1 /\ comma[1] = H!L!Sign("COMMA")
    BY <2>1
  <2> QED
    BY <2>1, <2>2, SignsAre
<1> HIDE DEF comma
<1>2. PICK d \in Nat : d = 18 * n + 3 /\ d = Len(signs)
  OBVIOUS
<1>3. /\ all \in H!L!Signs /\ Len(all) = d + Len(comma)
      /\ \A q \in 1 .. Len(comma) : all[d + q] = comma[q]
  <2>1. d = Len(signs)
    BY <1>2
  <2> QED
    BY <1>1, <2>1, SignsBehind
<1>4. Len(all) = d + 1 /\ all[d + 1].type = "COMMA"
  BY <1>1, <1>3
<1>5. H!Begin(all, elements)
  BY <1>1, BeginKept
<1>6. H!CloseElements(all)
  <2>1. \A q \in 1 .. Len(comma) : comma[q].type \notin H!P!ClosingTypes
    BY <1>1 DEF H!P!ClosingTypes
  <2> QED
    BY <1>1, <2>1, CloseKept
<1> HIDE DEF all
<1>7. MayFollow(all, n)
  BY <1>2, <1>4 DEF MayFollow
<1> QED
  BY <1>3, <1>5, <1>6, <1>7 DEF all, comma

\* A pair that has no other behind it: the list may be closed.
LEMMA LastPair ==
  ASSUME NEW signs, NEW n \in Nat, n >= 1, Len(signs) = 18 * n + 3
  PROVE  MayEnd(signs, n)
BY DEF MayEnd, H!ArrayEnd

\* The tokens of a text with as many elements, and of its end.
Ended(all, elements, n) ==
  /\ all \in H!L!Signs /\ H!Begin(all, elements)
  /\ H!ArrayEnd(n) \in Nat /\ H!ArrayEnd(n) # 0 /\ H!ArrayEnd(n) + 1 <= Len(all)
  /\ all[H!ArrayEnd(n)].type = "RBRACKET" /\ all[H!ArrayEnd(n) + 1].type = "RBRACE"

LEMMA TailFollows ==
  ASSUME NEW signs \in H!L!Signs, NEW elements \in Seq(H!Element),
         NEW n \in Nat, n = Len(elements), MayEnd(signs, n), H!Begin(signs, elements)
  PROVE  Ended(signs \o <<H!L!Sign("RBRACKET"), H!L!Sign("RBRACE")>>, elements, n)
<1> DEFINE tail == <<H!L!Sign("RBRACKET"), H!L!Sign("RBRACE")>>
           all == signs \o tail
           e == H!ArrayEnd(n)
<1>1. /\ tail \in H!L!Signs /\ Len(tail) = 2 /\ tail[1].type = "RBRACKET" /\ tail[2].type = "RBRACE"
  <2>1. /\ H!L!Sign("RBRACKET") \in SignType /\ H!L!Sign("RBRACKET").type = "RBRACKET"
        /\ H!L!Sign("RBRACE") \in SignType /\ H!L!Sign("RBRACE").type = "RBRACE"
    BY SignsAre
  <2>2. /\ tail \in Seq(SignType) /\ Len(tail) = 2
        /\ tail[1] = H!L!Sign("RBRACKET") /\ tail[2] = H!L!Sign("RBRACE")
    BY <2>1
  <2> QED
    BY <2>1, <2>2, SignsAre
<1> HIDE DEF tail
<1>2. PICK d \in Nat : d = Len(signs)
  BY SignsAre
<1>3. /\ all \in H!L!Signs /\ Len(all) = d + Len(tail)
      /\ \A q \in 1 .. Len(tail) : all[d + q] = tail[q]
  BY <1>1, <1>2, SignsBehind
<1>4. Len(all) = d + 2 /\ all[d + 1].type = "RBRACKET" /\ all[d + 2].type = "RBRACE"
  <2>1. 1 \in 1 .. Len(tail) /\ 2 \in 1 .. Len(tail)
    BY <1>1
  <2> QED
    BY <1>1, <1>3, <2>1
<1>5. e = d + 1
  BY <1>2 DEF MayEnd
<1>6. H!Begin(all, elements)
  BY <1>1, BeginKept
<1> HIDE DEF all, e
<1>7. e \in Nat /\ e # 0 /\ e + 1 = d + 2 /\ e + 1 <= Len(all)
  BY <1>4, <1>5
<1> QED
  BY <1>3, <1>4, <1>5, <1>6, <1>7 DEF all, tail, e, Ended
-----------------------------------------------------------------------------
(***************************************************************************)
(* What a step of the generator writes.                                    *)
(***************************************************************************)

LEMMA GeneratorInside == RoundtripSpec => Spec
<1>1. RoundtripInit => Init
  BY DEF RoundtripInit
<1>2. [RoundtripNext]_roundtripVars => [Next]_vars
  BY DEF RoundtripNext, Write, Read, roundtripVars
<1> QED
  BY <1>1, <1>2, PTL DEF RoundtripSpec, Spec

GeneratorInv == GlobeInv /\ IInv /\ FileInv

LEMMA GeneratorAlways == RoundtripSpec => []GeneratorInv
BY GeneratorInside, AlwaysGlobeInv, FileAlways, PTL DEF GeneratorInv

NothingBehind(f) == f \o <<>> = f

LEMMA NothingIsBehind == \A f \in Seq(H!L!Char) : NothingBehind(f)
BY DEF NothingBehind

LEMMA HeadWritten ==
  ASSUME Begin, json = <<>>, file \in Seq(H!L!Char), file \o Text("head") \in Seq(H!L!Char)
  PROVE  file \o PartText(Len(json) + 1) \o PartText(Len(json) + 2) = file \o Text("head")
<1>1. Len(json) = 0 /\ Len(json') = 1 /\ json'[1] = "head"
  BY DEF Begin
<1>2. PartText(1) = Text("head") /\ PartText(2) = <<>>
  BY <1>1 DEF PartText
<1>3. NothingBehind(file \o Text("head"))
  BY NothingIsBehind
<1> QED
  BY <1>1, <1>2, <1>3 DEF NothingBehind

LEMMA NothingWritten ==
  ASSUME json' = json, Len(json) \in Nat, file \in Seq(H!L!Char)
  PROVE  file \o PartText(Len(json) + 1) \o PartText(Len(json) + 2) = file
<1>1. PartText(Len(json) + 1) = <<>> /\ PartText(Len(json) + 2) = <<>>
  BY DEF PartText
<1>2. NothingBehind(file)
  BY NothingIsBehind
<1> QED
  BY <1>1, <1>2 DEF NothingBehind

LEMMA PairWritten ==
  ASSUME WritePair, IInv, FileInv, file \in Seq(H!L!Char),
         file \o PairText(pair') \in Seq(H!L!Char)
  PROVE  LET grown == file \o PartText(Len(json) + 1) \o PartText(Len(json) + 2) IN
         /\ i + 1 < pairCount => grown = file \o PairText(pair') \o Text(",")
         /\ i + 1 = pairCount => grown = file \o PairText(pair')
<1>1. /\ json \in Seq(Parts) /\ json' = Append(json, "pair") \o Separator
      /\ i \in Nat /\ pairCount \in Nat
  BY DEF WritePair, FileInv, IInv, CountersInv
<1>2. PICK n \in Nat : n = Len(json)
  BY <1>1
<1>3. /\ Append(json, "pair") \in Seq(Parts) /\ Len(Append(json, "pair")) = n + 1
      /\ Append(json, "pair")[n + 1] = "pair"
  <2>1. "pair" \in Parts
    BY DEF Parts
  <2> HIDE DEF Parts
  <2> QED
    BY <1>1, <1>2, <2>1, OnePartMore
<1>4. PICK s \in Seq(Parts) : s = Append(json, "pair") /\ Len(s) = n + 1 /\ s[n + 1] = "pair"
  BY <1>3
<1>5. file \o PartText(Len(json) + 1) \o PartText(Len(json) + 2)
        = file \o PartText(n + 1) \o PartText(n + 2)
  BY <1>2
<1>6. CASE i + 1 < pairCount
  <2>1. i < pairCount - 1
    BY <1>1, <1>6
  <2>2. json' = s \o <<Comma>> /\ Comma \in Parts
    BY <1>1, <1>4, <2>1, Zenon DEF Separator, Parts, Comma
  <2>3. Len(json') = n + 2 /\ json'[n + 1] = "pair" /\ json'[n + 2] = Comma
    <3> HIDE DEF Parts
    <3>1. json' = Append(s, Comma)
      BY <2>2, AppendIsConcat
    <3>2. PICK m \in Nat : m = n + 1
      OBVIOUS
    <3>3. /\ Len(Append(s, Comma)) = m + 1 /\ Append(s, Comma)[m + 1] = Comma
          /\ \A k \in 1 .. m : Append(s, Comma)[k] = s[k]
      <4>1. Len(s) = m
        BY <1>4, <3>2
      <4> QED
        BY <2>2, <4>1, OnePartMore
    <3>4. n + 1 \in 1 .. m /\ m + 1 = n + 2
      BY <3>2
    <3> QED
      BY <1>4, <3>1, <3>3, <3>4
  <2>4. PartText(n + 1) = Text("pair") /\ PartText(n + 2) = Text(Comma)
    BY <2>3 DEF PartText
  <2>5. file \o PartText(n + 1) \o PartText(n + 2) = file \o PairText(pair') \o Text(",")
    BY <2>4, TextIs, Zenon DEF Comma
  <2>6. i + 1 # pairCount
    BY <1>1, <1>6
  <2> QED
    BY <1>5, <2>5, <2>6, Zenon
<1>7. CASE i + 1 = pairCount
  <2>1. ~(i < pairCount - 1)
    BY <1>1, <1>7
  <2>2. json' = s \o <<>>
    BY <1>1, <1>4, <2>1, Zenon DEF Separator
  <2>3. json' = s
    BY <2>2
  <2>4. PartText(n + 1) = Text("pair") /\ PartText(n + 2) = <<>>
    BY <1>4, <2>3 DEF PartText
  <2>5. NothingBehind(file \o PairText(pair'))
    BY NothingIsBehind
  <2>6. file \o PartText(n + 1) \o PartText(n + 2) = file \o PairText(pair')
    BY <2>4, <2>5, TextIs, Zenon DEF NothingBehind
  <2>7. ~(i + 1 < pairCount)
    BY <1>1, <1>7
  <2> QED
    BY <1>5, <2>6, <2>7, Zenon
<1> QED
  BY <1>1, <1>6, <1>7

LEMMA TailWritten ==
  ASSUME Finish, FileInv, file \in Seq(H!L!Char), file \o Text("tail") \in Seq(H!L!Char)
  PROVE  file \o PartText(Len(json) + 1) \o PartText(Len(json) + 2) = file \o Text("tail")
<1>1. json \in Seq(Parts) /\ json' = Append(json, "tail") /\ "tail" \in Parts
  BY DEF Finish, FileInv, Parts
<1>2. PICK n \in Nat : n = Len(json)
  BY <1>1
<1>3. Len(json') = n + 1 /\ json'[n + 1] = "tail"
  <2> HIDE DEF Parts
  <2> QED
    BY <1>1, <1>2, OnePartMore
<1>4. PartText(n + 1) = Text("tail") /\ PartText(n + 2) = <<>>
  BY <1>3 DEF PartText
<1>5. NothingBehind(file \o Text("tail"))
  BY NothingIsBehind
<1> QED
  BY <1>2, <1>4, <1>5 DEF NothingBehind

-----------------------------------------------------------------------------
(***************************************************************************)
(* What was sent.                                                          *)
(***************************************************************************)

Quads == [1 .. 4 -> Degrees]

PrintedQuad(q) == [k \in 1 .. 4 |-> Printed(q[k])]

PrintedItem == [1 .. 4 -> {Printed(degree) : degree \in Degrees}]

LEMMA PrintedQuadIs ==
  \A q \in Quads : PrintedQuad(q) \in PrintedItem /\ PrintedQuad(q) \in H!Element
<1> TAKE q \in Quads
<1>1. \A k \in 1 .. 4 : q[k] \in Degrees /\ q[k] \in Int
  BY Sizes DEF Quads, Degrees
<1>2. \A k \in 1 .. 4 : PrintedQuad(q)[k] = Printed(q[k])
  BY DEF PrintedQuad
<1>3. \A k \in 1 .. 4 :
        /\ PrintedQuad(q)[k] \in Seq(H!L!Char)
        /\ H!OnePoint(PrintedQuad(q)[k], Len(PrintedQuad(q)[k]))
  BY <1>1, <1>2, PrintedIs
<1>4. PrintedQuad(q) \in [1 .. 4 -> Seq(H!L!Char)]
  BY <1>2, <1>3 DEF PrintedQuad
<1>5. PrintedQuad(q) \in PrintedItem
  BY <1>1, <1>2 DEF PrintedQuad, PrintedItem
<1> QED
  BY <1>3, <1>4, <1>5 DEF H!Element

LEMMA SentIs ==
  distances \in Seq(Quads) =>
    /\ Sent \in Seq(PrintedItem) /\ Sent \in Seq(H!Element)
    /\ Len(Sent) = Len(distances) /\ Len(Sent) \in Nat
<1> SUFFICES ASSUME distances \in Seq(Quads)
             PROVE  /\ Sent \in Seq(PrintedItem) /\ Sent \in Seq(H!Element)
                    /\ Len(Sent) = Len(distances) /\ Len(Sent) \in Nat
  OBVIOUS
<1>1. PICK n \in Nat : n = Len(distances) /\ DOMAIN distances = 1 .. n
  OBVIOUS
<1>2. \A k \in 1 .. n : distances[k] \in Quads
  BY <1>1
<1>3. Sent = [k \in 1 .. n |-> PrintedQuad(distances[k])]
  BY <1>1 DEF Sent, PrintedQuad
<1>4. \A k \in 1 .. n : PrintedQuad(distances[k]) \in PrintedItem /\ PrintedQuad(distances[k]) \in H!Element
  BY <1>2, PrintedQuadIs
<1> QED
  BY <1>1, <1>3, <1>4

LEMMA SentGrows ==
  ASSUME distances \in Seq(Quads), NEW q \in Quads, distances' = Append(distances, q)
  PROVE  distances' \in Seq(Quads) /\ Sent' = Append(Sent, PrintedQuad(q))
<1>1. PICK n \in Nat : n = Len(distances) /\ DOMAIN distances = 1 .. n
  OBVIOUS
<1>2. /\ distances' \in Seq(Quads) /\ DOMAIN distances' = 1 .. n + 1
      /\ \A k \in 1 .. n : distances'[k] = distances[k]
      /\ distances'[n + 1] = q
  <2> HIDE DEF Quads
  <2> QED
    BY <1>1, AppendProperties
<1>3. Sent' = [k \in 1 .. n + 1 |-> PrintedQuad(distances'[k])]
  BY <1>2 DEF Sent, PrintedQuad
<1>4. Sent = [k \in 1 .. n |-> PrintedQuad(distances[k])]
  BY <1>1 DEF Sent, PrintedQuad
<1>5. Sent \in Seq(H!Element) /\ Len(Sent) = n
  BY <1>1, SentIs
<1>6. PICK e \in H!Element : e = PrintedQuad(q)
  BY PrintedQuadIs
<1>7. /\ Append(Sent, e) \in Seq(H!Element) /\ Len(Append(Sent, e)) = n + 1
      /\ Append(Sent, e)[n + 1] = e /\ \A k \in 1 .. n : Append(Sent, e)[k] = Sent[k]
  BY <1>5, AppendProperties
<1>8. /\ Sent' \in Seq(H!Element) /\ Len(Sent') = n + 1
      /\ Sent'[n + 1] = e /\ \A k \in 1 .. n : Sent'[k] = Sent[k]
  <2>1. n + 1 \in 1 .. n + 1 /\ \A k \in 1 .. n : k \in 1 .. n + 1
    OBVIOUS
  <2>2. \A k \in 1 .. n + 1 : PrintedQuad(distances'[k]) \in H!Element
    BY <1>2, PrintedQuadIs
  <2>3. Sent' \in Seq(H!Element) /\ Len(Sent') = n + 1
    <3>1. PICK t : t = distances'
      OBVIOUS
    <3>2. Sent' = [k \in 1 .. n + 1 |-> PrintedQuad(t[k])] /\ n + 1 \in Nat
      BY <1>3, <3>1
    <3>3. \A k \in 1 .. n + 1 : PrintedQuad(t[k]) \in H!Element
      BY <2>2, <3>1
    <3> QED
      BY <3>2, <3>3
  <2> QED
    BY <1>2, <1>3, <1>4, <1>6, <2>1, <2>3
<1>9. Sent' = Append(Sent, e)
  <2>1. \A k \in 1 .. n + 1 : k \in 1 .. n \/ k = n + 1
    OBVIOUS
  <2>2. \A k \in 1 .. n + 1 : Sent'[k] = Append(Sent, e)[k]
    BY <1>7, <1>8, <2>1
  <2> QED
    BY <1>7, <1>8, <2>2, SeqEqual
<1> QED
  BY <1>2, <1>6, <1>9

-----------------------------------------------------------------------------
(***************************************************************************)
(* The file, as it grows.                                                  *)
(***************************************************************************)

LEMMA EmptyPiece ==
  ASSUME NEW whole
  PROVE  Piece(<<>>, <<>>, whole)
<1>1. <<>> \in Seq(H!L!Char) /\ <<>> \in H!L!Signs
  BY SignsAre
<1>2. H!L!Significant(<<>>, 0) = {} /\ H!L!Count(<<>>, 0) = 0
  <2>1. H!L!Significant(<<>>, 0) = {}
    BY DEF H!L!Significant
  <2>2. H!L!Count(<<>>, 0) = 0
    BY H!L!CountNext, ReaderAssumptions
  <2> QED
    BY <2>1, <2>2
<1>3. H!L!IsWhole(<<>>, <<>>)
  BY DEF H!L!IsWhole, H!L!Boundary
<1>4. H!L!IsCut(<<>>, <<>>)
  BY <1>3 DEF H!L!IsCut
<1>5. H!L!Spells(<<>>, <<>>, <<>>)
  BY <1>2, <1>4 DEF H!L!Spells
<1> QED
  BY <1>1, <1>3, <1>5 DEF Piece, H!L!Reads

\* A file with the first n of m pairs.
Written(f, signs, whole, sent, n, m) ==
  /\ Piece(f, signs, whole)
  /\ H!Begin(signs, sent) /\ H!CloseElements(signs)
  /\ n < m => MayFollow(signs, n)
  /\ n = m => MayEnd(signs, n)
  /\ Len(f) >= 44 * n

LEMMA Longer ==
  ASSUME NEW f \in Seq(H!L!Char), NEW g \in Seq(H!L!Char)
  PROVE  Len(f) \in Nat /\ Len(g) \in Nat /\ Len(f \o g) = Len(f) + Len(g)
OBVIOUS

LEMMA PairKept ==
  ASSUME NEW f, NEW signs, NEW whole \in BOOLEAN, NEW sent \in Seq(H!Element),
         NEW n \in Nat, n = Len(sent), NEW m \in Nat, n < m,
         NEW p, IsPair(p), whole => NotNegative(p),
         NEW c, Piece(c, <<H!L!Sign("COMMA")>>, whole), NEW g,
         n + 1 < m => g = f \o PairText(p) \o c, n + 1 = m => g = f \o PairText(p),
         Written(f, signs, whole, sent, n, m)
  PROVE  \E all : Written(g, all, whole, Append(sent, PrintedPair(p)), n + 1, m)
<1> DEFINE e == PrintedPair(p)
           next == signs \o PairSigns(e)
           more == Append(sent, e)
           h == f \o PairText(p)
<1>1. e \in H!Element
  BY PrintedPairIs
<1> HIDE DEF e
<1>2. more \in Seq(H!Element) /\ Len(more) = n + 1
  BY <1>1, AppendProperties
<1>3. Piece(PairText(p), PairSigns(e), whole)
  BY PairPiece DEF e
<1>4. Piece(h, next, whole)
  BY <1>3, PiecesJoin DEF Written
<1>5. signs \in H!L!Signs /\ f \in Seq(H!L!Char) /\ PairText(p) \in Seq(H!L!Char)
  BY <1>3 DEF Written, Piece
<1>6. /\ next \in H!L!Signs /\ Len(next) = 18 * (n + 1) + 3
      /\ H!Begin(next, more) /\ H!CloseElements(next)
  BY <1>1, <1>5, PairFollows DEF Written
<1>7. Len(h) \in Nat /\ Len(h) >= 44 * (n + 1)
  <2>1. PICK a \in Nat, b \in Nat : a = Len(f) /\ b = Len(PairText(p)) /\ Len(h) = a + b
    BY <1>5, Longer
  <2>2. a >= 44 * n /\ b >= 44
    BY <2>1, PairLong DEF Written
  <2> QED
    BY <2>1, <2>2
<1> HIDE DEF next, more, h
<1>8. CASE n + 1 < m
  <2>1. Piece(h \o c, next \o <<H!L!Sign("COMMA")>>, whole)
    BY <1>4, PiecesJoin
  <2>2. PICK k \in Nat : k = n + 1
    OBVIOUS
  <2>3. /\ k = Len(more) /\ Len(next) = 18 * k + 3
    BY <1>2, <1>6, <2>2
  <2>4. LET all == next \o <<H!L!Sign("COMMA")>> IN
        /\ all \in H!L!Signs /\ H!Begin(all, more) /\ H!CloseElements(all) /\ MayFollow(all, k)
    BY <1>2, <1>6, <2>3, SeparatorFollows
  <2>5. c \in Seq(H!L!Char) /\ h \in Seq(H!L!Char)
    BY <1>4 DEF Piece
  <2>6. Len(h \o c) >= 44 * k
    <3>1. PICK a \in Nat, b \in Nat : a = Len(h) /\ b = Len(c) /\ Len(h \o c) = a + b
      BY <2>5, Longer
    <3>2. a >= 44 * k
      BY <1>7, <2>2, <3>1
    <3> QED
      BY <3>1, <3>2
  <2>7. k < m /\ k # m
    BY <1>8, <2>2
  <2>8. Written(h \o c, next \o <<H!L!Sign("COMMA")>>, whole, more, k, m)
    BY <2>1, <2>4, <2>6, <2>7 DEF Written
  <2>9. g = h \o c
    BY <1>8 DEF h
  <2> QED
    BY <2>2, <2>8, <2>9 DEF more, e
<1>9. CASE n + 1 = m
  <2>1. PICK k \in Nat : k = n + 1 /\ k >= 1
    OBVIOUS
  <2>2. MayEnd(next, k)
    BY <1>6, <2>1, LastPair
  <2>3. k = m /\ ~(k < m) /\ Len(h) >= 44 * k
    BY <1>7, <1>9, <2>1
  <2>4. Written(h, next, whole, more, k, m)
    BY <1>4, <1>6, <2>2, <2>3 DEF Written
  <2>5. g = h
    BY <1>9 DEF h
  <2> QED
    BY <2>1, <2>4, <2>5 DEF more, e
<1> QED
  BY <1>8, <1>9

\* The whole file: it is in the format if it is read to its end, and if not, its
\* first brace is never closed.
LEMMA TailKept ==
  ASSUME NEW f, NEW signs, NEW whole, NEW sent \in Seq(H!Element), NEW n \in Nat, n = Len(sent),
         Written(f, signs, whole, sent, n, n),
         NEW t, Piece(t, <<H!L!Sign("RBRACKET"), H!L!Sign("RBRACE")>>, TRUE)
  PROVE  \E lexemes :
           /\ H!L!IsCut(lexemes, f \o t)
           /\ \/ H!HasFormat(lexemes, f \o t, sent)
              \/ ~whole /\ H!Unclosed(lexemes)
<1> DEFINE tail == <<H!L!Sign("RBRACKET"), H!L!Sign("RBRACE")>>
           all == signs \o tail
           e == H!ArrayEnd(n)
<1>1. /\ f \in Seq(H!L!Char) /\ signs \in H!L!Signs /\ t \in Seq(H!L!Char) /\ tail \in H!L!Signs
      /\ f \o t \in Seq(H!L!Char)
  BY DEF Written, Piece
<1>2. PICK lexemes : H!L!Spells(lexemes, f, signs) /\ (whole => H!L!IsWhole(lexemes, f))
  BY DEF Written, Piece, H!L!Reads
<1>3. PICK others : H!L!Spells(others, t, tail) /\ H!L!IsWhole(others, t)
  BY DEF Piece, H!L!Reads
<1>4. /\ all \in H!L!Signs /\ H!Begin(all, sent)
      /\ e \in Nat /\ e # 0 /\ e + 1 <= Len(all)
      /\ all[e].type = "RBRACKET" /\ all[e + 1].type = "RBRACE"
  <2>1. MayEnd(signs, n) /\ H!Begin(signs, sent)
    BY DEF Written
  <2>2. signs \in H!L!Signs
    BY <1>1
  <2>3. Ended(all, sent, n)
    BY <2>1, <2>2, TailFollows
  <2> QED
    BY <2>3 DEF Ended
<1> HIDE DEF tail
<1>5. CASE H!L!IsWhole(lexemes, f)
  <2>1. PICK joined : joined = H!L!Joined(lexemes, f, others)
    OBVIOUS
  <2>2. H!L!Spells(joined, f \o t, all) /\ H!L!IsWhole(joined, f \o t)
    BY <1>1, <1>2, <1>3, <1>5, <2>1, H!L!SpelledBehind, ReaderAssumptions
  <2> HIDE DEF all
  <2>3. e = H!ArrayEnd(Len(sent)) /\ Len(sent) \in Nat
    OBVIOUS
  <2> HIDE DEF e
  <2>4. H!HasFormat(joined, f \o t, sent)
    BY <1>1, <1>4, <2>2, <2>3, H!FormatSpelled, ReaderAssumptions
  <2>5. H!L!IsCut(joined, f \o t)
    BY <2>2 DEF H!L!Spells
  <2> QED
    BY <2>4, <2>5
<1>6. CASE ~H!L!IsWhole(lexemes, f)
  <2>1. H!L!Spells(lexemes, f \o t, all)
    BY <1>1, <1>2, <1>6, H!L!SpelledNoFurther, ReaderAssumptions
  <2>2. signs[1].type = "LBRACE" /\ H!CloseElements(signs)
    BY DEF Written, H!Begin
  <2>3. H!Unclosed(lexemes)
    BY <1>1, <1>2, <2>2, H!UnclosedSpelled, ReaderAssumptions
  <2>4. H!L!IsCut(lexemes, f \o t)
    BY <2>1 DEF H!L!Spells
  <2> QED
    BY <1>2, <1>6, <2>3, <2>4
<1> QED
  BY <1>5, <1>6

-----------------------------------------------------------------------------
(***************************************************************************)
(* The generator's steps.                                                  *)
(***************************************************************************)

Clusters == method = "cluster"

\* Larger files are not kept.
IsKept == pairCount <= MaxPairsRead

SoFar == \E signs : Written(file, signs, Clusters, Sent, i, pairCount)

WritingInv ==
  /\ status = "opening" => json = <<>>
  /\ ~IsKept => file = <<>> /\ distances = <<>>
  /\ IsKept =>
       /\ distances \in Seq(Quads) /\ Len(distances) = i
       /\ status \in {"opening", "refused"} => file = <<>>
       /\ status = "writing" => SoFar

\* The reader has not begun, whatever may be said of the file.
RestInv == H!AtRest /\ \E signs : Piece(file, signs, Clusters)

LEMMA RestKept ==
  ASSUME RestInv, UNCHANGED readerVars, NEW signs, Piece(file', signs, Clusters')
  PROVE  RestInv'
<1>1. file' \in Seq(H!L!Char)
  BY DEF Piece
<1>2. H!AtRest'
  BY <1>1 DEF RestInv, H!AtRest, H!L!Start, H!P!Begin, H!Types, readerVars
<1> QED
  BY <1>2 DEF RestInv

LEMMA BeginKeeps ==
  ASSUME GeneratorInv, WritingInv, IsKept, Begin,
         file' = file \o PartText(Len(json) + 1) \o PartText(Len(json) + 2), distances' = distances
  PROVE  SoFar'
<1>1. /\ i' = 0 /\ i = 0 /\ pairCount \in Nat /\ pairCount' = pairCount
      /\ json = <<>> /\ file = <<>> /\ distances \in Seq(Quads) /\ Len(distances) = 0
  BY DEF GeneratorInv, FileInv, IInv, CountersInv, Begin, WritingInv
<1>2. PICK text, whole : text = Text("head") /\ whole = Clusters'
  OBVIOUS
<1>3. PICK signs : /\ signs \in H!L!Signs /\ Piece(text, signs, whole)
                   /\ H!Begin(signs, <<>>) /\ H!CloseElements(signs)
                   /\ MayFollow(signs, 0) /\ MayEnd(signs, 0)
  BY <1>2, HeadBegins, HeadPiece
<1>4. file' = text
  <2>1. text \in Seq(H!L!Char) /\ file \in Seq(H!L!Char)
    BY <1>1, <1>3 DEF Piece
  <2>2. file \o text \in Seq(H!L!Char) /\ file \o text = text
    BY <1>1, <2>1
  <2> QED
    BY <1>1, <1>2, <2>1, <2>2, HeadWritten
<1>5. Sent' = <<>>
  <2>1. Sent \in Seq(H!Element) /\ Len(Sent) = 0
    BY <1>1, SentIs
  <2>2. Sent = <<>>
    BY <2>1
  <2> QED
    BY <2>2 DEF Sent
<1>6. Len(text) >= 44 * 0
  BY <1>3 DEF Piece
<1>7. PICK m : m = pairCount
  OBVIOUS
<1>8. Written(text, signs, whole, <<>>, 0, m)
  BY <1>3, <1>6 DEF Written
<1> QED
  BY <1>1, <1>2, <1>4, <1>5, <1>7, <1>8 DEF SoFar

\* The pair just written.
LEMMA PairIs ==
  ASSUME GeneratorInv'
  PROVE  /\ IsPair(pair') /\ (Clusters' => NotNegative(pair'))
         /\ Coordinates(pair') \in Quads /\ PrintedQuad(Coordinates(pair')) = PrintedPair(pair')
<1>1. OnTheGlobe' /\ ClustersNotNegative'
  BY DEF GeneratorInv, GlobeInv, PairInv
<1>2. PICK p : p = pair'
  OBVIOUS
<1>3. p.x0 \in Degrees /\ p.x1 \in Degrees /\ p.y0 \in -LargestY .. LargestY /\ p.y1 \in -LargestY .. LargestY
  BY <1>1, <1>2 DEF OnTheGlobe
<1>4. /\ p.x0 \in Degrees /\ p.x1 \in Degrees /\ p.y0 \in Degrees /\ p.y1 \in Degrees
      /\ IsPair(p)
  BY <1>3, Sizes DEF Degrees, IsPair
<1>5. Coordinates(p) \in Quads
  BY <1>4 DEF Coordinates, Quads
<1>6. Clusters' => NotNegative(p)
  BY <1>1, <1>2 DEF ClustersNotNegative, Clusters, NotNegative
<1>7. PrintedQuad(Coordinates(p)) = PrintedPair(p)
  BY DEF PrintedQuad, PrintedPair
<1> QED
  BY <1>2, <1>4, <1>5, <1>6, <1>7

LEMMA PairKeeps ==
  ASSUME GeneratorInv, GeneratorInv', WritingInv, IsKept, WritePair,
         file' = file \o PartText(Len(json) + 1) \o PartText(Len(json) + 2),
         distances' = Append(distances, Coordinates(pair'))
  PROVE  /\ SoFar' /\ distances' \in Seq(Quads) /\ Len(distances') = i'
         /\ Sent' = Append(Sent, PrintedPair(pair'))
<1>1. /\ i \in Nat /\ pairCount \in Nat /\ i < pairCount /\ i' = i + 1 /\ pairCount' = pairCount
      /\ Clusters' = Clusters
      /\ distances \in Seq(Quads) /\ Len(distances) = i /\ SoFar
  BY DEF GeneratorInv, IInv, CountersInv, WritePair, More, WritingInv, Clusters
<1>2. PICK p : p = pair' /\ IsPair(p) /\ (Clusters => NotNegative(p)) /\ Coordinates(p) \in Quads
             /\ PrintedQuad(Coordinates(p)) = PrintedPair(p)
  BY <1>1, PairIs
<1>3. distances' = Append(distances, Coordinates(p))
  BY <1>2
<1>4. /\ distances' \in Seq(Quads) /\ Len(distances') = i'
      /\ Sent' = Append(Sent, PrintedPair(p))
  <2>1. distances' \in Seq(Quads) /\ Sent' = Append(Sent, PrintedPair(p))
    BY <1>1, <1>2, <1>3, SentGrows
  <2>2. Len(distances') = Len(distances) + 1
    <3> HIDE DEF Quads
    <3> QED
      BY <1>1, <1>2, <1>3, AppendProperties
  <2> QED
    BY <1>1, <2>1, <2>2
<1>5. PICK n \in Nat, m \in Nat : n = i /\ m = pairCount /\ n < m
  BY <1>1
<1>6. PICK whole \in BOOLEAN : whole = Clusters
  BY DEF Clusters
<1>7. PICK sent \in Seq(H!Element) : sent = Sent /\ Len(sent) = n
  BY <1>1, <1>5, SentIs
<1>8. PICK f, signs : f = file /\ Written(f, signs, whole, sent, n, m)
  BY <1>1, <1>5, <1>6, <1>7 DEF SoFar
<1>9. PICK c, g : c = Text(",") /\ g = file'
  OBVIOUS
<1>10. Piece(c, <<H!L!Sign("COMMA")>>, whole)
  BY <1>9, SeparatorPiece
<1>11. (n + 1 < m => g = f \o PairText(p) \o c) /\ (n + 1 = m => g = f \o PairText(p))
  <2>1. Piece(PairText(p), PairSigns(PrintedPair(p)), whole)
    BY <1>2, <1>6, PairPiece
  <2>2. f \in Seq(H!L!Char) /\ PairText(p) \in Seq(H!L!Char) /\ f \o PairText(p) \in Seq(H!L!Char)
    BY <1>8, <2>1 DEF Written, Piece
  <2>3. /\ i + 1 < pairCount => file' = file \o PairText(pair') \o Text(",")
        /\ i + 1 = pairCount => file' = file \o PairText(pair')
    BY <1>2, <1>8, <2>2, PairWritten DEF GeneratorInv
  <2> QED
    BY <1>2, <1>5, <1>8, <1>9, <2>3
<1>12. whole => NotNegative(p)
  BY <1>2, <1>6
<1>13. PICK all : Written(g, all, whole, Append(sent, PrintedPair(p)), n + 1, m)
  BY <1>2, <1>5, <1>7, <1>8, <1>10, <1>11, <1>12, PairKept
<1>14. SoFar'
  <2>1. Sent' = Append(sent, PrintedPair(p)) /\ i' = n + 1 /\ pairCount' = m /\ Clusters' = whole
    BY <1>1, <1>4, <1>5, <1>6, <1>7
  <2> QED
    BY <1>9, <1>13, <2>1 DEF SoFar
<1> QED
  BY <1>2, <1>4, <1>14

-----------------------------------------------------------------------------
(***************************************************************************)
(* The reader's steps.                                                     *)
(***************************************************************************)

LEMMA FormatKept ==
  \A lexemes, elements :
    H!FormatInv(lexemes, elements) /\ [H!Next]_(H!vars) => H!FormatInv(lexemes, elements)'
BY H!FormatKept, ReaderAssumptions

LEMMA UnclosedKept ==
  \A lexemes : H!UnclosedInv(lexemes) /\ [H!Next]_(H!vars) => H!UnclosedInv(lexemes)'
BY H!UnclosedKept, ReaderAssumptions

LEMMA FormatEstablished == H!AtRest => \A lexemes, elements : H!FormatInv(lexemes, elements)
BY H!AtRestEstablishesFormat, ReaderAssumptions

LEMMA UnclosedEstablished == H!AtRest => \A lexemes : H!UnclosedInv(lexemes)
BY H!AtRestEstablishesUnclosed, ReaderAssumptions

LEMMA FileStays == [H!Next]_(H!vars) => file' = file
<1> SUFFICES ASSUME [H!Next]_(H!vars) PROVE file' = file
  OBVIOUS
<1>1. [H!L!Next]_(H!lexerVars)
  BY H!LexerSteps, ReaderAssumptions
<1>2. H!L!Next => file' = file
  BY DEF H!L!Next, H!L!Mark, H!L!Keyword, H!L!NotKeyword, H!L!Space, H!L!Number, H!L!String,
    H!L!NotString, H!L!Invalid, H!L!EndOfFile, H!L!Reading
<1> QED
  BY <1>1, <1>2 DEF H!lexerVars

\* The size that was taken is the file's, if one was.
InputInv ==
  /\ input \in {0, Len(file)}
  /\ phase \in {"lexing", "parsing", "collecting", "undefined"} => input = Len(file)

LEMMA NoneOfNothing == ASSUME NEW n \in Nat \ {0} PROVE 0 \div n = 0
OBVIOUS

LEMMA InputKept ==
  ASSUME InputInv, file' = file, [H!Next]_(H!vars)
  PROVE  InputInv'
<1>1. CASE H!ReadInput
  <2>1. input' \in {0, Len(file)} /\ phase' = "read"
    BY <1>1 DEF H!ReadInput, H!ReadEntireFile, H!AllocateBuffer, H!FreeBuffer
  <2> QED
    BY <2>1 DEF InputInv
<1>2. CASE H!TakeInput
  <2>1. input # 0
    <3>1. 0 \div MinimumJSONPairEncoding = 0
      BY ShortEnough, NoneOfNothing
    <3> QED
      BY <1>2, <3>1 DEF H!TakeInput, H!MaxPairCount
  <2>2. input' = input
    BY <1>2 DEF H!TakeInput
  <2> QED
    BY <2>1, <2>2 DEF InputInv
<1>3. CASE H!Frees /\ phase' \in {"ended", "summed"}
  BY <1>3 DEF H!Frees, H!FreeBuffer, InputInv
<1>4. CASE input' = input /\ (phase' \in {"lexing", "parsing", "collecting", "undefined"} =>
                               phase \in {"lexing", "parsing", "collecting", "undefined"})
  BY <1>4 DEF InputInv
<1> QED
  BY <1>1, <1>2, <1>3, <1>4 DEF H!Next, H!vars, H!mainVars, H!buffers, H!NoInput, H!Lex, H!Lexed,
    H!Parse, H!ParserStops, H!Parsed, H!TakePairs, H!NoPairs, H!Misread, H!CollectPair,
    H!CollectWrongly, H!Collected, H!Sum, H!SumAndValidate

\* Nothing is known of the answers before the pairs are summed.
VerdictInv == phase # "summed" => answersRead = 0 /\ validation.verdict = "none"

LEMMA VerdictKept ==
  ASSUME VerdictInv, [H!Next]_(H!vars)
  PROVE  VerdictInv'
<1>1. CASE phase' = "summed"
  BY <1>1 DEF VerdictInv
<1>2. CASE phase' # "summed"
  <2>1. UNCHANGED <<answersRead, validation>> /\ phase # "summed"
    BY <1>2 DEF H!Next, H!vars, H!mainVars, H!ReadInput, H!NoInput, H!TakeInput, H!Lex, H!Lexed,
      H!Parse, H!ParserStops, H!Parsed, H!TakePairs, H!NoPairs, H!Misread, H!CollectPair,
      H!CollectWrongly, H!Collected, H!Sum, H!SumAndValidate
  <2> QED
    BY <2>1 DEF VerdictInv
<1> QED
  BY <1>1, <1>2

\* The file is read by its lexemes.
ReadBy(lexemes, elements) ==
  /\ H!L!IsCut(lexemes, file)
  /\ \/ /\ H!HasFormat(lexemes, file, elements) /\ elements \in Seq(H!Element)
        /\ H!FormatInv(lexemes, elements)
     \/ ~Clusters /\ H!Unclosed(lexemes) /\ H!UnclosedInv(lexemes)

ReadyInv ==
  /\ i = pairCount /\ Len(file) >= 44 * i
  /\ InputInv /\ VerdictInv
  /\ \E lexemes, elements : elements = Sent /\ ReadBy(lexemes, elements)

LEMMA ReadKeeps ==
  ASSUME ReadyInv, [H!Next]_(H!vars), UNCHANGED <<vars, distances>>
  PROVE  ReadyInv'
<1>1. file' = file
  BY FileStays
<1>2. InputInv' /\ VerdictInv'
  BY <1>1, InputKept, VerdictKept DEF ReadyInv
<1>3. Sent' = Sent /\ i' = i /\ pairCount' = pairCount /\ Clusters' = Clusters
  BY DEF Sent, vars, Clusters
<1>4. PICK lexemes, elements : elements = Sent /\ ReadBy(lexemes, elements)
  BY DEF ReadyInv
<1>5. ReadBy(lexemes, elements)'
  <2>1. CASE H!FormatInv(lexemes, elements) /\ H!HasFormat(lexemes, file, elements)
             /\ elements \in Seq(H!Element)
    <3>1. H!FormatInv(lexemes, elements)'
      BY <2>1, FormatKept
    <3> QED
      BY <1>1, <1>4, <2>1, <3>1 DEF ReadBy
  <2>2. CASE ~Clusters /\ H!Unclosed(lexemes) /\ H!UnclosedInv(lexemes)
    <3>1. H!UnclosedInv(lexemes)'
      BY <2>2, UnclosedKept
    <3> QED
      BY <1>1, <1>3, <1>4, <2>2, <3>1 DEF ReadBy
  <2> QED
    BY <1>4, <2>1, <2>2 DEF ReadBy
<1> QED
  BY <1>1, <1>2, <1>3, <1>4, <1>5 DEF ReadyInv

LEMMA FormatReady == (H!AtRest => \A lexemes, elements : H!FormatInv(lexemes, elements))'
BY FormatEstablished, PTL

LEMMA UnclosedReady == (H!AtRest => \A lexemes : H!UnclosedInv(lexemes))'
BY UnclosedEstablished, PTL

LEMMA TailKeeps ==
  ASSUME GeneratorInv, WritingInv, RestInv, IsKept, Finish, UNCHANGED readerVars,
         file' = file \o PartText(Len(json) + 1) \o PartText(Len(json) + 2), distances' = distances
  PROVE  ReadyInv'
<1>1. /\ i \in Nat /\ pairCount = i /\ pairCount' = pairCount /\ i' = i /\ Clusters' = Clusters
      /\ distances \in Seq(Quads) /\ Len(distances) = i /\ SoFar
  BY DEF GeneratorInv, IInv, CountersInv, Finish, More, WritingInv, Clusters
<1>2. PICK n \in Nat : n = i
  BY <1>1
<1>3. PICK whole : whole = Clusters
  OBVIOUS
<1>4. PICK sent \in Seq(H!Element) : sent = Sent /\ Len(sent) = n
  BY <1>1, <1>2, SentIs
<1>5. PICK f, signs : f = file /\ Written(f, signs, whole, sent, n, n)
  BY <1>1, <1>2, <1>3, <1>4 DEF SoFar
<1>6. PICK t : t = Text("tail")
  OBVIOUS
<1>7. /\ Piece(t, <<H!L!Sign("RBRACKET"), H!L!Sign("RBRACE")>>, TRUE)
      /\ Piece(t, <<H!L!Sign("RBRACKET"), H!L!Sign("RBRACE")>>, whole)
  BY <1>6, TailPiece
<1>8. f \in Seq(H!L!Char) /\ t \in Seq(H!L!Char) /\ f \o t \in Seq(H!L!Char)
  BY <1>5, <1>7 DEF Written, Piece
<1>9. file' = f \o t
  BY <1>5, <1>6, <1>8, TailWritten DEF GeneratorInv
<1>10. RestInv'
  <2>1. PICK all : Piece(f \o t, all, whole)
    BY <1>5, <1>7, PiecesJoin DEF Written
  <2>2. Piece(file', all, Clusters')
    BY <1>1, <1>3, <1>9, <2>1
  <2> QED
    BY <2>2, RestKept
<1>11. PICK lexemes : /\ H!L!IsCut(lexemes, f \o t)
                      /\ \/ H!HasFormat(lexemes, f \o t, sent)
                         \/ ~whole /\ H!Unclosed(lexemes)
  BY <1>4, <1>5, <1>7, TailKept
<1>12. H!FormatInv(lexemes, sent)' /\ H!UnclosedInv(lexemes)'
  BY <1>10, FormatReady, UnclosedReady DEF RestInv
<1>13. ReadBy(lexemes, sent)'
  BY <1>1, <1>3, <1>4, <1>9, <1>11, <1>12 DEF ReadBy
<1>14. InputInv' /\ VerdictInv'
  BY <1>10 DEF RestInv, H!AtRest, InputInv, VerdictInv
<1>15. sent = Sent'
  BY <1>4 DEF Sent
<1>16. Len(file') >= 44 * n
  <2>1. PICK a \in Nat, b \in Nat : a = Len(f) /\ b = Len(t) /\ Len(f \o t) = a + b
    BY <1>8, Longer
  <2>2. a >= 44 * n
    BY <1>5, <2>1 DEF Written
  <2> QED
    BY <1>9, <2>1, <2>2
<1> QED
  BY <1>1, <1>2, <1>13, <1>14, <1>15, <1>16 DEF ReadyInv

-----------------------------------------------------------------------------
(***************************************************************************)
(* Both.                                                                   *)
(***************************************************************************)

IsReady == status = "written" /\ IsKept

TogetherInv == GeneratorInv /\ WritingInv /\ IF IsReady THEN ReadyInv ELSE RestInv

LEMMA InitTogether == RoundtripInit => WritingInv /\ ~IsReady /\ RestInv
<1> SUFFICES ASSUME RoundtripInit PROVE WritingInv /\ ~IsReady /\ RestInv
  OBVIOUS
<1>1. status = "opening" /\ json = <<>> /\ i = 0 /\ distances = <<>>
  BY DEF RoundtripInit, Init
<1>2. H!AtRest
  BY H!InitAtRest, ReaderAssumptions DEF RoundtripInit
<1>3. file = <<>>
  BY DEF RoundtripInit, H!Init, H!L!Init, H!L!Start
<1>4. RestInv
  BY <1>2, <1>3, EmptyPiece DEF RestInv
<1> QED
  BY <1>1, <1>3, <1>4 DEF WritingInv, IsReady

LEMMA RestStays ==
  ASSUME RestInv, UNCHANGED <<readerVars, file, method>>
  PROVE  RestInv'
<1>1. PICK signs : Piece(file, signs, Clusters)
  BY DEF RestInv
<1>2. Piece(file', signs, Clusters')
  BY <1>1 DEF Clusters
<1> QED
  BY <1>2, RestKept

LEMMA SoFarRests ==
  ASSUME RestInv, UNCHANGED readerVars, SoFar'
  PROVE  RestInv'
<1>1. PICK signs : Written(file, signs, Clusters, Sent, i, pairCount)'
  BY DEF SoFar
<1>2. Piece(file', signs, Clusters')
  BY <1>1 DEF Written
<1> QED
  BY <1>2, RestKept

LEMMA WriteKeeps ==
  ASSUME TogetherInv, GeneratorInv', Write
  PROVE  WritingInv' /\ (IF IsReady THEN ReadyInv ELSE RestInv)'
<1>1. /\ GeneratorInv /\ WritingInv /\ RestInv /\ Next
      /\ status # "written" /\ UNCHANGED <<readerVars, pairCount, method>>
      /\ status' # "opening" /\ i \in Nat
  BY DEF TogetherInv, Write, IsReady, Next, Refuse, Begin, WritePair, Finish, GeneratorInv, IInv,
    CountersInv
<1>2. IsKept' = IsKept
  BY <1>1 DEF IsKept
<1>3. CASE ~IsKept
  <2>1. UNCHANGED <<file, distances>>
    BY <1>3 DEF Write, IsKept
  <2>2. RestInv'
    BY <1>1, <2>1, RestStays
  <2> QED
    BY <1>1, <1>2, <1>3, <2>1, <2>2 DEF WritingInv, IsReady
<1>4. CASE IsKept
  <2>1. /\ file' = file \o PartText(Len(json) + 1) \o PartText(Len(json) + 2)
        /\ distances' = IF i' # i THEN Append(distances, Coordinates(pair')) ELSE distances
        /\ distances \in Seq(Quads) /\ Len(distances) = i
    BY <1>1, <1>4 DEF Write, IsKept, WritingInv
  <2>2. CASE Refuse
    <3>1. file' = file /\ distances' = distances
      <4>1. json' = json /\ Len(json) \in Nat /\ i' = i
        BY <1>1, <2>2 DEF Refuse, WritingInv
      <4>2. file \in Seq(H!L!Char)
        BY <1>1 DEF RestInv, H!AtRest
      <4> QED
        BY <2>1, <4>1, <4>2, NothingWritten
    <3>2. RestInv'
      BY <1>1, <3>1, RestStays
    <3> QED
      BY <1>1, <1>2, <1>4, <2>1, <2>2, <3>1, <3>2 DEF WritingInv, IsReady, Refuse
  <2>3. CASE Begin
    <3>1. distances' = distances /\ i' = i /\ status' = "writing"
      BY <2>1, <2>3 DEF Begin
    <3>2. SoFar'
      BY <1>1, <1>4, <2>1, <2>3, <3>1, BeginKeeps
    <3>3. RestInv'
      BY <1>1, <3>2, SoFarRests
    <3> QED
      BY <1>1, <1>2, <1>4, <2>1, <3>1, <3>2, <3>3 DEF WritingInv, IsReady
  <2>4. CASE WritePair
    <3>1. distances' = Append(distances, Coordinates(pair')) /\ status' = "writing"
      BY <1>1, <2>1, <2>4 DEF WritePair
    <3>2. SoFar' /\ distances' \in Seq(Quads) /\ Len(distances') = i'
      BY <1>1, <1>4, <2>1, <2>4, <3>1, PairKeeps
    <3>3. RestInv'
      BY <1>1, <3>2, SoFarRests
    <3> QED
      BY <1>1, <1>2, <1>4, <3>1, <3>2, <3>3 DEF WritingInv, IsReady
  <2>5. CASE Finish
    <3>1. distances' = distances /\ i' = i /\ status' = "written"
      BY <2>1, <2>5 DEF Finish
    <3>2. ReadyInv'
      BY <1>1, <1>4, <2>1, <2>5, <3>1, TailKeeps
    <3> QED
      BY <1>1, <1>2, <1>4, <2>1, <3>1, <3>2 DEF WritingInv, IsReady
  <2> QED
    BY <1>1, <2>2, <2>3, <2>4, <2>5 DEF Next
<1> QED
  BY <1>3, <1>4

LEMMA OthersKeep ==
  ASSUME TogetherInv, Read \/ UNCHANGED roundtripVars
  PROVE  WritingInv' /\ (IF IsReady THEN ReadyInv ELSE RestInv)'
<1>1. /\ UNCHANGED <<vars, distances>> /\ [H!Next]_(H!vars)
      /\ IsReady \/ UNCHANGED <<readerVars, file>>
  BY DEF Read, roundtripVars, readerVars, H!vars, H!lexerVars, H!parserVars, H!mainVars, H!buffers,
    IsReady, IsKept
<1>2. file' = file
  BY <1>1, FileStays
<1>3. IsReady' = IsReady /\ IsKept' = IsKept
  BY <1>1 DEF IsReady, IsKept, vars
<1>4. WritingInv'
  <2>1. SoFar' = SoFar
    BY <1>1, <1>2 DEF SoFar, Sent, Clusters, vars
  <2> QED
    BY <1>1, <1>2, <1>3, <2>1 DEF TogetherInv, WritingInv, vars
<1>5. CASE IsReady
  BY <1>1, <1>3, <1>4, <1>5, ReadKeeps DEF TogetherInv
<1>6. CASE ~IsReady
  <2>1. UNCHANGED <<readerVars, file, method>>
    BY <1>1, <1>6 DEF vars
  <2> QED
    BY <1>3, <1>4, <1>6, <2>1, RestStays DEF TogetherInv
<1> QED
  BY <1>5, <1>6

LEMMA NextTogether ==
  TogetherInv /\ GeneratorInv' /\ [RoundtripNext]_roundtripVars => TogetherInv'
<1> SUFFICES ASSUME TogetherInv, GeneratorInv', [RoundtripNext]_roundtripVars
             PROVE  TogetherInv'
  OBVIOUS
<1>1. WritingInv' /\ (IF IsReady THEN ReadyInv ELSE RestInv)'
  BY WriteKeeps, OthersKeep DEF RoundtripNext
<1> QED
  BY <1>1 DEF TogetherInv

LEMMA TogetherAlways == RoundtripSpec => []TogetherInv
<1>1. RoundtripInit /\ GeneratorInv => TogetherInv
  BY InitTogether DEF TogetherInv
<1> QED
  BY <1>1, NextTogether, GeneratorAlways, PTL DEF RoundtripSpec

-----------------------------------------------------------------------------
(***************************************************************************)
(* A file of clusters is read.                                             *)
(***************************************************************************)

LEMMA ReadsPast ==
  ASSUME H!DocumentInv, NEW lexemes, H!L!IsCut(lexemes, file), H!L!ReadAs(lexemes)
  PROVE  ~H!L!AtDeadEnd
<1>1. H!L!TypeOK
  BY DEF H!DocumentInv, H!TokensInv, H!L!KeywordInv, H!L!Inv
<1>2. PICK n \in 0 .. Len(lexemes) : H!L!ReadUpTo(lexemes, n)
  BY DEF H!L!ReadAs
<1> QED
  BY <1>1, <1>2, H!L!NoDeadEnd, ReaderAssumptions

LEMMA RestIsRead ==
  ASSUME RestInv
  PROVE  phase = "opening" /\ ~H!L!AtDeadEnd
<1>1. PICK signs, lexemes : H!L!Spells(lexemes, file, signs)
  BY DEF RestInv, Piece, H!L!Reads
<1>2. H!L!IsCut(lexemes, file)
  BY <1>1 DEF H!L!Spells
<1>3. H!DocumentInv /\ H!L!ReadAs(lexemes)
  BY FormatEstablished DEF RestInv, H!FormatInv
<1> QED
  BY <1>2, <1>3, ReadsPast DEF RestInv, H!AtRest

\* There are as many elements as pairs, and each has the bytes that main takes it to have.
LEMMA RoomForAll ==
  ASSUME NEW n \in Nat, NEW least \in 1 .. 44, NEW length \in Nat, length >= 44 * n
  PROVE  ~(length < least * n)
<1>1. least * n <= 44 * n
  BY SMTT(30)
<1> QED
  BY <1>1

LEMMA ReadyIsRead ==
  ASSUME GeneratorInv, WritingInv, IsReady, ReadyInv, Clusters
  PROVE  phase \notin {"exited", "undefined"} /\ ~H!L!AtDeadEnd
<1>1. PICK lexemes, elements : elements = Sent /\ ReadBy(lexemes, elements)
  BY DEF ReadyInv
<1>2. /\ H!L!IsCut(lexemes, file) /\ H!HasFormat(lexemes, file, elements)
      /\ elements \in Seq(H!Element) /\ H!FormatInv(lexemes, elements)
  BY <1>1 DEF ReadBy
<1>3. H!DocumentInv /\ H!L!ReadAs(lexemes) /\ H!CollectingInv(elements)
  BY <1>2 DEF H!FormatInv, H!InFile
<1>4. ~H!L!AtDeadEnd
  BY <1>2, <1>3, ReadsPast
<1>5. phase # "undefined"
  <2> SUFFICES ASSUME phase = "undefined" PROVE FALSE
    OBVIOUS
  <2>1. input < MinimumJSONPairEncoding * Len(elements)
    BY <1>3 DEF H!CollectingInv
  <2>2. Len(elements) = i /\ i \in Nat
    BY <1>1, SentIs DEF WritingInv, IsReady, GeneratorInv, IInv, CountersInv
  <2>3. input = Len(file) /\ Len(file) >= 44 * i
    BY DEF ReadyInv, InputInv
  <2>4. Len(file) \in Nat
    BY <1>3 DEF H!DocumentInv, H!TokensInv, H!L!KeywordInv, H!L!Inv, H!L!TypeOK
  <2>5. PICK n \in Nat, least \in 1 .. 44, length \in Nat :
          n = i /\ least = MinimumJSONPairEncoding /\ length = Len(file)
    BY <2>2, <2>4, ShortEnough
  <2>6. length >= 44 * n /\ length < least * n
    BY <2>1, <2>2, <2>3, <2>5
  <2> QED
    BY <2>6, RoomForAll
<1>6. phase # "exited"
  BY <1>3 DEF H!CollectingInv
<1> QED
  BY <1>4, <1>5, <1>6

\* A file of clusters, of any number of pairs on any globe, is read to its end: it has
\* no minus sign and nothing else that lexer() does not know, and main, which takes a
\* pair to have as few as 24 bytes, has room for all of its pairs (generator, lines 135
\* to 171; main, lines 98 and 99).
THEOREM ClustersRead == RoundtripSpec => []ClustersAreRead
<1>1. TogetherInv => ClustersAreRead
  <2> SUFFICES ASSUME TogetherInv, Clusters
               PROVE  phase \notin {"exited", "undefined"} /\ ~H!L!AtDeadEnd
    BY DEF ClustersAreRead, Clusters
  <2> QED
    BY ReadyIsRead, RestIsRead DEF TogetherInv
<1> QED
  BY <1>1, TogetherAlways, PTL

-----------------------------------------------------------------------------
(***************************************************************************)
(* The pairs are transferred.                                              *)
(***************************************************************************)

TransferNext == T!Send \/ T!Close \/ T!Receive \/ T!Sum

\* While nothing is summed there is no outcome.
LEMMA NoOutcome == phase # "summed" => Outcome = <<"none">>
BY DEF Outcome

LEMMA InitTransfers == RoundtripInit => T!Init
<1> SUFFICES ASSUME RoundtripInit PROVE T!Init
  OBVIOUS
<1>1. distances = <<>> /\ status = "opening" /\ pairs = <<>> /\ phase = "opening"
  BY DEF RoundtripInit, Init, H!Init
<1>2. Sent = <<>>
  BY <1>1 DEF Sent
<1> QED
  BY <1>1, <1>2, NoOutcome DEF T!Init

\* A longer sequence.
LEMMA OneMore ==
  ASSUME NEW S, NEW s \in Seq(S), NEW e \in S
  PROVE  LET t == Append(s, e) IN
         Len(t) = Len(s) + 1 /\ t[Len(t)] \in S /\ SubSeq(t, 1, Len(s)) = s
<1>1. PICK n \in Nat : n = Len(s)
  OBVIOUS
<1>2. PICK t \in Seq(S) : /\ t = Append(s, e) /\ Len(t) = n + 1 /\ t[n + 1] = e
                          /\ \A k \in 1 .. n : t[k] = s[k]
  <2>1. /\ Append(s, e) \in Seq(S) /\ Len(Append(s, e)) = Len(s) + 1
        /\ Append(s, e)[Len(s) + 1] = e
        /\ \A k \in 1 .. Len(s) : Append(s, e)[k] = s[k]
    BY AppendProperties
  <2> QED
    BY <1>1, <2>1
<1>3. SubSeq(t, 1, n) \in Seq(S) /\ Len(SubSeq(t, 1, n)) = n
      /\ \A k \in 1 .. n : SubSeq(t, 1, n)[k] = t[k]
  BY <1>2
<1>4. SubSeq(t, 1, n) = s
  BY <1>1, <1>2, <1>3, SeqEqual
<1> QED
  BY <1>1, <1>2, <1>4

LEMMA WriteTransfers ==
  ASSUME TogetherInv, GeneratorInv', Write
  PROVE  [TransferNext]_(T!transferVars)
<1>1. /\ GeneratorInv /\ WritingInv /\ RestInv /\ Next
      /\ status # "written" /\ UNCHANGED <<readerVars, pairCount>>
      /\ i \in Nat
  BY DEF TogetherInv, Write, IsReady, Next, Refuse, Begin, WritePair, Finish, GeneratorInv, IInv,
    CountersInv
<1>2. pairs' = pairs /\ Outcome' = Outcome
  BY <1>1 DEF readerVars, Outcome
<1>3. CASE Finish
  <2>1. distances' = distances /\ status' = "written"
    BY <1>3 DEF Finish, Write
  <2>2. T!Close
    BY <1>1, <1>2, <2>1 DEF T!Close, Sent
  <2> QED
    BY <2>2 DEF TransferNext
<1>4. CASE WritePair /\ IsKept
  <2>1. /\ file' = file \o PartText(Len(json) + 1) \o PartText(Len(json) + 2)
        /\ distances' = Append(distances, Coordinates(pair')) /\ status' = status
        /\ distances \in Seq(Quads)
    BY <1>1, <1>4 DEF Write, IsKept, WritePair, WritingInv
  <2>2. Sent' = Append(Sent, PrintedPair(pair'))
    BY <1>1, <1>4, <2>1, PairKeeps
  <2>3. PICK e \in PrintedItem : e = PrintedPair(pair')
    BY PairIs, PrintedQuadIs
  <2>4. Sent \in Seq(PrintedItem)
    BY <2>1, SentIs
  <2>5. /\ Len(Sent') = Len(Sent) + 1 /\ Sent'[Len(Sent')] \in PrintedItem
        /\ SubSeq(Sent', 1, Len(Sent)) = Sent
    BY <2>2, <2>3, <2>4, OneMore
  <2>6. T!Send
    BY <1>1, <1>2, <2>1, <2>5 DEF T!Send, PrintedItem
  <2> QED
    BY <2>6 DEF TransferNext
<1>5. CASE Refuse \/ Begin \/ (WritePair /\ ~IsKept)
  <2>1. distances' = distances /\ status' # "written"
    BY <1>1, <1>5 DEF Write, IsKept, Refuse, Begin, WritePair
  <2> QED
    BY <1>1, <1>2, <2>1 DEF T!transferVars, Sent
<1> QED
  BY <1>1, <1>3, <1>4, <1>5 DEF Next

\* What is summed.
LEMMA AllReceived ==
  ASSUME NEW lexemes, NEW elements, ReadBy(lexemes, elements), phase \in {"collecting", "summing"}
  PROVE  /\ H!HasFormat(lexemes, file, elements) /\ elements \in Seq(H!Element)
         /\ H!FormatInv(lexemes, elements) /\ H!InFile(lexemes, elements)
         /\ phase = "summing" => pairs = elements
<1>1. ~(H!Unclosed(lexemes) /\ H!UnclosedInv(lexemes))
  BY DEF ReadBy, H!UnclosedInv
<1>2. /\ H!L!IsCut(lexemes, file) /\ H!HasFormat(lexemes, file, elements)
      /\ elements \in Seq(H!Element) /\ H!FormatInv(lexemes, elements)
  BY <1>1 DEF ReadBy
<1>3. H!InFile(lexemes, elements)
  BY <1>2 DEF H!InFile
<1>4. H!CollectingInv(elements)
  BY <1>2, <1>3 DEF H!FormatInv
<1>5. ASSUME phase = "summing" PROVE pairs = elements
  <2>1. /\ pairs \in Seq(H!Element) /\ Len(pairs) = Len(elements)
        /\ \A k \in 1 .. Len(pairs) : pairs[k] = elements[k]
    BY <1>4, <1>5 DEF H!CollectingInv
  <2> QED
    BY <1>2, <2>1, SeqEqual
<1> QED
  BY <1>2, <1>3, <1>5

LEMMA ReadTransfers ==
  ASSUME TogetherInv, Read
  PROVE  [TransferNext]_(T!transferVars)
<1>1. /\ GeneratorInv /\ WritingInv /\ ReadyInv /\ IsReady /\ IsKept /\ status = "written"
      /\ UNCHANGED <<vars, distances>> /\ H!Next /\ answersRead' \in {answersRead, 8 * answers}
  BY DEF TogetherInv, Read, IsReady, IsKept
<1>2. Sent' = Sent /\ status' = status
  BY <1>1 DEF Sent, vars
<1>3. PICK n \in Nat : n = pairCount /\ n = i /\ answers = n + 1
  BY <1>1 DEF GeneratorInv, IInv, CountersInv, FileInv, AList, ReadyInv
<1>4. Sent \in Seq(H!Element) /\ Len(Sent) = n
  BY <1>1, <1>3, SentIs DEF WritingInv
<1>5. PICK lexemes, elements : elements = Sent /\ ReadBy(lexemes, elements)
  BY <1>1 DEF ReadyInv
<1>6. CASE H!CollectPair
  <2>1. /\ phase = "collecting" /\ phase' = "collecting" /\ Len(pairs) < Len(H!Items)
        /\ pairs' = Append(pairs, H!Coordinates(H!NextItem))
    BY <1>6 DEF H!CollectPair
  <2>2. H!FormatInv(lexemes, elements) /\ H!InFile(lexemes, elements)
    BY <1>5, <2>1, AllReceived
  <2>3. /\ Len(pairs) + 1 \in 1 .. Len(elements)
        /\ H!Coordinates(H!NextItem) = elements[Len(pairs) + 1]
    BY <2>1, <2>2, H!ElementFound, ReaderAssumptions
  <2>4. Len(pairs) \in Nat
    BY <2>2 DEF H!FormatInv, H!CollectingInv
  <2>5. Len(pairs) < Len(Sent) /\ pairs' = Append(pairs, Sent[Len(pairs) + 1])
    BY <1>4, <1>5, <2>1, <2>3, <2>4
  <2>6. Outcome = <<"none">> /\ Outcome' = <<"none">>
    BY <2>1 DEF Outcome
  <2>7. T!Receive
    BY <1>1, <1>2, <2>5, <2>6 DEF T!Receive
  <2> QED
    BY <2>7 DEF TransferNext
<1>7. CASE H!Sum \/ H!SumAndValidate
  <2>1. phase = "summing" /\ phase' = "summed" /\ pairs' = pairs
    BY <1>7 DEF H!Sum, H!SumAndValidate
  <2>2. pairs = Sent
    BY <1>5, <2>1, AllReceived
  <2>3. answersRead = 0 /\ validation.verdict = "none"
    BY <1>1, <2>1 DEF ReadyInv, VerdictInv
  <2>4. Outcome' \in {<<"summed">>, <<"matched", n>>}
    <3>1. CASE H!Sum
      <4>1. validation'.verdict = "none"
        BY <2>3, <3>1 DEF H!Sum
      <4> QED
        BY <2>1, <4>1 DEF Outcome
    <3>2. CASE H!SumAndValidate
      <4>1. PICK size : /\ size >= 8 /\ answersRead' = size
                        /\ validation' = [verdict   |-> IF Len(pairs) = H!RefAnswerCount(size)
                                                        THEN "matched" ELSE "failed",
                                          reference |-> H!RefAnswerCount(size)]
        BY <3>2 DEF H!SumAndValidate, H!DoubleSize
      <4>2. size = 8 * (n + 1)
        BY <1>1, <1>3, <2>3, <4>1
      <4>3. H!RefAnswerCount(size) = n
        BY <4>2 DEF H!RefAnswerCount, H!DoubleSize
      <4>4. validation' = [verdict |-> "matched", reference |-> n]
        BY <1>4, <2>2, <4>1, <4>3
      <4> QED
        BY <2>1, <4>4 DEF Outcome
    <3> QED
      BY <1>7, <3>1, <3>2
  <2>5. Outcome = <<"none">>
    BY <2>1 DEF Outcome
  <2>6. T!Sum
    BY <1>1, <1>2, <1>4, <2>1, <2>2, <2>4, <2>5 DEF T!Sum
  <2> QED
    BY <2>6 DEF TransferNext
<1>8. CASE pairs' = pairs /\ phase # "summed" /\ phase' # "summed"
  <2>1. Outcome' = Outcome
    BY <1>8 DEF Outcome
  <2> QED
    BY <1>2, <1>8, <2>1 DEF T!transferVars
<1> QED
  BY <1>1, <1>6, <1>7, <1>8 DEF H!Next, H!vars, H!mainVars, H!ReadInput, H!NoInput, H!TakeInput,
    H!Lex, H!Lexed, H!Parse, H!ParserStops, H!Parsed, H!TakePairs, H!NoPairs, H!Misread,
    H!CollectWrongly, H!Collected

\* Whatever the pairs, and however many: what is summed is what the distances were
\* computed from, all of it and in its order, and the sum is validated, if it is, by as
\* many answers.  A file is not summed otherwise, whatever is not read of it (the whole
\* of the two programs).
THEOREM PairsAreTransferred == RoundtripSpec => TransfersThePairs
<1>1. TogetherInv /\ GeneratorInv' /\ [RoundtripNext]_roundtripVars
        => [TransferNext]_(T!transferVars)
  <2> SUFFICES ASSUME TogetherInv, GeneratorInv', [RoundtripNext]_roundtripVars
               PROVE  [TransferNext]_(T!transferVars)
    OBVIOUS
  <2>1. CASE UNCHANGED roundtripVars
    BY <2>1 DEF roundtripVars, vars, readerVars, T!transferVars, Sent, Outcome
  <2> QED
    BY <2>1, WriteTransfers, ReadTransfers DEF RoundtripNext
<1>2. TogetherInv => GeneratorInv
  BY DEF TogetherInv
<1> QED
  BY <1>1, <1>2, InitTransfers, TogetherAlways, PTL
    DEF RoundtripSpec, TransfersThePairs, T!Spec, TransferNext
=============================================================================
