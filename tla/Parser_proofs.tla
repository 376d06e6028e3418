--------------------------- MODULE Parser_proofs ---------------------------
(***************************************************************************)
(* Proofs about the parser: its variables keep their types, every store of *)
(* an entry has room, and the tree is the text that has been read, for all *)
(* documents and every capacity to start from.                             *)
(***************************************************************************)
EXTENDS Parser_spelling, FiniteSetTheorems, SequenceTheorems, TLAPS

\* With room for every entry, what is not defined is the use of a token past the last.
OnlyTokensRunOut == status = "undefined" => current = Len(tokens)

\* What a step is shown to preserve: the room of a container that is not innermost
\* is kept because a container inside it is another value, which TypeOK tells from
\* where they begin.
Inv == TypeOK /\ RoomForTheEntry /\ OnlyTokensRunOut

LEMMA Initially == Init => Inv
<1> SUFFICES ASSUME NEW document \in Documents, Begin(document)
             PROVE Inv
  BY DEF Init
<1>1. document \in Seq(TokenTypes)
  BY DocumentsType
<1>2. values \in [DOMAIN values -> ValueTypes] /\ DOMAIN values = {}
  BY DEF Begin
<1> QED
  BY <1>1, <1>2 DEF Begin, Inv, TypeOK, RoomForTheEntry, OnlyTokensRunOut, Points

\* A value that is allocated, or changed, where it is.
LEMMA WithType ==
  ASSUME Inv, NEW at \in 1 .. Len(tokens), NEW v \in ValueTypes
  PROVE  /\ DOMAIN With(at, v) = DOMAIN values \cup {at}
         /\ With(at, v) \in [DOMAIN With(at, v) -> ValueTypes]
         /\ With(at, v)[at] = v
         /\ \A a \in DOMAIN values : a # at => With(at, v)[a] = values[a]
BY DEF With, Inv, TypeOK

\* An open container is allocated before the tokens that are left.
LEMMA Frames ==
  ASSUME Inv, NEW i \in 1 .. Len(stack)
  PROVE  /\ stack[i].at \in DOMAIN values
         /\ stack[i].at \in 1 .. current
         /\ stack[i].key \in Nat
         /\ HasRoom(values[stack[i].at])
<1>1. stack[i] \in FrameTypes
  BY DEF Inv, TypeOK
<1>2. stack[i].at \in DOMAIN values /\ stack[i].key \in Nat
  BY <1>1 DEF FrameTypes
<1> QED
  BY <1>2 DEF Inv, TypeOK, RoomForTheEntry

\* Values are only ever added.
LEMMA StackStays ==
  ASSUME Inv, DOMAIN values \subseteq DOMAIN values'
  PROVE  stack \in Seq(FrameTypes')
<1>1. FrameTypes \subseteq FrameTypes'
  BY DEF FrameTypes
<1> QED
  BY <1>1, SeqMonotonic DEF Inv, TypeOK

LEMMA OpenKeeps ==
  ASSUME Inv, NEW type \in {"object", "array"}, status = "parsing", point = "value",
         current < Len(tokens), Open(type),
         point' \in {"key", "bracket"}, UNCHANGED <<tokens, result, status>>
  PROVE  Inv'
<1> DEFINE at == current + 1
           v == Value(type, <<>>, InitialCapacity)
           frame == [at |-> at, key |-> key]
<1>1. at \in 1 .. Len(tokens) /\ at \notin DOMAIN values /\ current' = at
  BY DEF Inv, TypeOK, Open, Advance
<1>2. v \in ValueTypes /\ HasRoom(v)
  BY Capacity DEF Value, ValueTypes, Entries, HasRoom
<1>3. /\ DOMAIN values' = DOMAIN values \cup {at}
      /\ values' \in [DOMAIN values' -> ValueTypes]
      /\ values'[at] = v
      /\ \A a \in DOMAIN values : values'[a] = values[a]
  <2>1. values' = With(at, v)
    BY DEF Open
  <2> QED
    BY <1>1, <1>2, <2>1, WithType
<1>4. /\ stack' \in Seq(FrameTypes')
      /\ Len(stack') = Len(stack) + 1
      /\ stack'[Len(stack) + 1] = frame
      /\ \A i \in 1 .. Len(stack) : stack'[i] = stack[i]
  <2>1. stack \in Seq(FrameTypes')
    BY <1>3, StackStays
  <2>2. frame \in FrameTypes'
    BY <1>3 DEF Inv, TypeOK, FrameTypes
  <2> QED
    BY <2>1, <2>2 DEF Open
<1>5. Len(stack) \in Nat
  BY DEF Inv, TypeOK
<1>6. \A i, j \in 1 .. Len(stack') : i < j => stack'[i].at < stack'[j].at
  <2> SUFFICES ASSUME NEW i \in 1 .. Len(stack'), NEW j \in 1 .. Len(stack'), i < j
               PROVE stack'[i].at < stack'[j].at
    OBVIOUS
  <2>1. i \in 1 .. Len(stack) /\ stack'[i] = stack[i]
    BY <1>4, <1>5
  <2>2. CASE j = Len(stack) + 1
    <3>1. stack'[j].at = current + 1
      BY <1>4, <2>2
    <3>2. stack[i].at \in 1 .. current
      BY <2>1, Frames
    <3> QED
      BY <2>1, <3>1, <3>2 DEF Inv, TypeOK
  <2>3. CASE j \in 1 .. Len(stack)
    BY <1>4, <2>1, <2>3 DEF Inv, TypeOK
  <2> QED
    BY <1>4, <1>5, <2>2, <2>3
<1>7. RoomForTheEntry'
  <2> SUFFICES ASSUME NEW i \in 1 .. Len(stack') PROVE HasRoom(values'[stack'[i].at])
    BY DEF RoomForTheEntry, HasRoom
  <2>1. CASE i = Len(stack) + 1
    BY <1>2, <1>3, <1>4, <2>1
  <2>2. CASE i \in 1 .. Len(stack)
    BY <1>3, <1>4, <2>2, Frames
  <2> QED
    BY <1>4, <1>5, <2>1, <2>2
<1>8. TypeOK'
  BY <1>1, <1>3, <1>4, <1>5, <1>6 DEF Inv, TypeOK, Open, Points
<1> QED
  BY <1>7, <1>8 DEF Inv, OnlyTokensRunOut

LEMMA ScalarKeeps ==
  ASSUME Inv, ReadScalar
  PROVE  Inv'
<1> DEFINE at == current + 1
<1>1. PICK type \in ScalarTypes :
        Match(type) /\ values' = With(at, Value(type, <<>>, 0))
  BY DEF ReadScalar
<1>2. at \in 1 .. Len(tokens) /\ at \notin DOMAIN values /\ current' = at
  BY <1>1 DEF Inv, TypeOK, ReadScalar, Advance, Match
<1>3. Value(type, <<>>, 0) \in ValueTypes
  BY DEF Value, ValueTypes, Entries
<1>4. /\ DOMAIN values' = DOMAIN values \cup {at}
      /\ values' \in [DOMAIN values' -> ValueTypes]
      /\ \A a \in DOMAIN values : values'[a] = values[a]
  BY <1>1, <1>2, <1>3, WithType
<1>5. stack' = stack /\ stack' \in Seq(FrameTypes')
  BY <1>4, StackStays DEF ReadScalar
<1>6. RoomForTheEntry'
  <2> SUFFICES ASSUME NEW i \in 1 .. Len(stack) PROVE HasRoom(values'[stack[i].at])
    BY <1>5 DEF RoomForTheEntry, HasRoom
  <2> QED
    BY <1>4, Frames
<1>7. TypeOK'
  BY <1>2, <1>4, <1>5 DEF Inv, TypeOK, ReadScalar, Points
<1> QED
  BY <1>6, <1>7 DEF Inv, OnlyTokensRunOut, ReadScalar, At

\* What the innermost container becomes when its entry is stored.
LEMMA StoredType ==
  ASSUME Inv, InContainer
  PROVE  /\ Len(stack) \in Nat \ {0}
         /\ Top.at \in DOMAIN values /\ Top.at \in 1 .. current /\ Top.key \in Nat
         /\ Stored \in ValueTypes /\ Grown(Stored) \in ValueTypes
         /\ HasRoom(Grown(Stored))
<1>1. Len(stack) \in Nat \ {0}
  BY DEF Inv, TypeOK, InContainer
<1>2. Top.at \in DOMAIN values /\ Top.at \in 1 .. current /\ Top.key \in Nat
  BY <1>1, Frames DEF Top
<1>3. Inner \in ValueTypes /\ Len(Inner.entries) < Inner.capacity
  BY <1>2 DEF Inner, Inv, TypeOK, InContainer, HasRoom
<1> DEFINE entry == [key |-> key, value |-> result]
           entries == Append(Inner.entries, entry)
<1>4. entry \in Entries
  BY DEF Entries, Inv, TypeOK, InContainer, At
<1>5. entries \in Seq(Entries) /\ Len(entries) = Len(Inner.entries) + 1
  BY <1>3, <1>4 DEF ValueTypes
<1>6. /\ Stored \in ValueTypes
      /\ Stored.entries = entries /\ Stored.capacity = Inner.capacity
  <2> HIDE DEF entries
  <2>1. Stored = [Inner EXCEPT !.entries = entries]
    BY DEF Stored, entries
  <2> QED
    BY <1>3, <1>5, <2>1 DEF ValueTypes
<1>7. Inner.capacity \in Nat /\ Len(Inner.entries) \in Nat
  BY <1>3 DEF ValueTypes
<1> DEFINE s == Stored
<1> HIDE DEF s, entries
<1>8. /\ Grown(s) \in ValueTypes
      /\ Grown(s).entries = s.entries
      /\ Grown(s).capacity = IF s.capacity = Len(s.entries) THEN 2 * s.capacity ELSE s.capacity
  BY <1>6 DEF Grown, ValueTypes, s
<1>9. HasRoom(Grown(s))
  BY <1>3, <1>5, <1>6, <1>7, <1>8 DEF HasRoom, s
<1> QED
  BY <1>1, <1>2, <1>6, <1>8, <1>9 DEF s

LEMMA CommaKeeps ==
  ASSUME Inv, Comma
  PROVE  Inv'
<1> DEFINE at == Top.at
           v == Grown(Stored)
<1>1. InContainer /\ current < Len(tokens) /\ current' = current + 1
  BY DEF Comma, Match, Advance
<1>2. /\ Len(stack) \in Nat \ {0} /\ at \in DOMAIN values /\ at \in 1 .. current
      /\ v \in ValueTypes /\ HasRoom(v)
  BY <1>1, StoredType
<1>3. at \in 1 .. Len(tokens)
  BY <1>2 DEF Inv, TypeOK
<1>4. values' = With(at, v)
  BY DEF Comma
<1> HIDE DEF v
<1>5. /\ DOMAIN values' = DOMAIN values
      /\ values' \in [DOMAIN values' -> ValueTypes]
      /\ values'[at] = v
      /\ \A a \in DOMAIN values : a # at => values'[a] = values[a]
  <2>1. DOMAIN values \cup {at} = DOMAIN values
    BY <1>2
  <2>2. /\ DOMAIN With(at, v) = DOMAIN values \cup {at}
        /\ With(at, v) \in [DOMAIN With(at, v) -> ValueTypes]
        /\ With(at, v)[at] = v
        /\ \A a \in DOMAIN values : a # at => With(at, v)[a] = values[a]
    BY <1>2, <1>3, WithType
  <2> QED
    BY <1>4, <2>1, <2>2
<1>6. RoomForTheEntry'
  <2> SUFFICES ASSUME NEW i \in 1 .. Len(stack) PROVE HasRoom(values'[stack[i].at])
    BY DEF RoomForTheEntry, HasRoom, Comma
  <2> QED
    BY <1>2, <1>5, Frames
<1>7. stack' \in Seq(FrameTypes')
  BY <1>5, StackStays DEF Comma
<1>8. TypeOK'
  BY <1>1, <1>5, <1>7 DEF Inv, TypeOK, Comma, Points, InContainer
<1> QED
  BY <1>6, <1>8 DEF Inv, OnlyTokensRunOut, Comma, InContainer, At

\* A container is left with its value in place, or as it was.
LEMMA FinishKeeps ==
  ASSUME Inv, Len(stack) \in Nat \ {0}, current < Len(tokens), status = "parsing", Finish,
         DOMAIN values' = DOMAIN values, values' \in [DOMAIN values' -> ValueTypes],
         \A a \in DOMAIN values : a # Top.at => values'[a] = values[a]
  PROVE  Inv'
<1>1. Top.at \in DOMAIN values /\ Top.at \in 1 .. current /\ Top.key \in Nat
  BY Frames DEF Top
<1>2. /\ stack' \in Seq(FrameTypes')
      /\ Len(stack') = Len(stack) - 1
      /\ \A i \in 1 .. Len(stack') : stack'[i] = stack[i]
  <2>1. stack \in Seq(FrameTypes')
    BY StackStays
  <2>2. \A i \in 1 .. Len(stack) - 1 : stack[i] \in FrameTypes'
    BY <2>1
  <2>3. stack' = SubSeq(stack, 1, Len(stack) - 1)
    BY DEF Finish, Pop
  <2> DEFINE n == Len(stack) - 1
  <2>4. n \in Nat /\ 1 \in Int /\ n \in Int
    OBVIOUS
  <2> HIDE DEF n
  <2>5. /\ SubSeq(stack, 1, n) \in Seq(FrameTypes')
        /\ Len(SubSeq(stack, 1, n)) = IF 1 <= n THEN n - 1 + 1 ELSE 0
        /\ \A i \in 1 .. n - 1 + 1 : SubSeq(stack, 1, n)[i] = stack[1 + i - 1]
    <3>1. \A i \in 1 .. n : stack[i] \in FrameTypes'
      BY <2>2 DEF n
    <3> QED
      BY <2>4, <3>1, SubSeqProperties
  <2>6. stack' = SubSeq(stack, 1, n) /\ n = Len(stack) - 1
    BY <2>3 DEF n
  <2>7. Len(stack') = n
    <3>1. (IF 1 <= n THEN n - 1 + 1 ELSE 0) = n
      BY <2>4
    <3> QED
      BY <2>5, <2>6, <3>1, Zenon
  <2>8. \A i \in 1 .. n : stack'[i] = stack[i]
    <3> TAKE i \in 1 .. n
    <3>1. i \in 1 .. n - 1 + 1 /\ 1 + i - 1 = i
      BY <2>4
    <3>2. SubSeq(stack, 1, n)[i] = stack[1 + i - 1]
      BY <2>5, <3>1
    <3> QED
      BY <2>6, <3>1, <3>2, Zenon
  <2> QED
    BY <2>5, <2>6, <2>7, <2>8, Zenon
<1>3. RoomForTheEntry'
  <2> SUFFICES ASSUME NEW i \in 1 .. Len(stack') PROVE HasRoom(values'[stack'[i].at])
    BY DEF RoomForTheEntry, HasRoom
  <2>1. i \in 1 .. Len(stack) /\ i < Len(stack) /\ stack'[i] = stack[i]
    BY <1>2
  <2>2. stack[i].at < Top.at /\ stack[i].at \in Nat /\ Top.at \in Nat
    BY <1>1, <2>1, Frames DEF Top, Inv, TypeOK
  <2> QED
    BY <2>1, <2>2, Frames
<1>4. TypeOK'
  BY <1>1, <1>2 DEF Inv, TypeOK, Finish, Advance, Points
<1> QED
  BY <1>3, <1>4 DEF Inv, OnlyTokensRunOut, Finish

LEMMA CloseKeeps ==
  ASSUME Inv, Close
  PROVE  Inv'
<1>1. InContainer /\ current < Len(tokens) /\ status = "parsing"
  BY DEF Close, Match, InContainer, At
<1>2. Len(stack) \in Nat \ {0} /\ Top.at \in DOMAIN values /\ Stored \in ValueTypes
  BY <1>1, StoredType
<1>3. Top.at \in 1 .. Len(tokens)
  BY <1>2 DEF Inv, TypeOK
<1>4. values' = With(Top.at, Stored) /\ Finish
  BY DEF Close
<1>5. /\ DOMAIN values' = DOMAIN values
      /\ values' \in [DOMAIN values' -> ValueTypes]
      /\ \A a \in DOMAIN values : a # Top.at => values'[a] = values[a]
  <2>1. DOMAIN values \cup {Top.at} = DOMAIN values
    BY <1>2
  <2>2. /\ DOMAIN With(Top.at, Stored) = DOMAIN values \cup {Top.at}
        /\ With(Top.at, Stored) \in [DOMAIN With(Top.at, Stored) -> ValueTypes]
        /\ \A a \in DOMAIN values : a # Top.at => With(Top.at, Stored)[a] = values[a]
    BY <1>2, <1>3, WithType
  <2> QED
    BY <1>4, <2>1, <2>2
<1> QED
  BY <1>1, <1>2, <1>4, <1>5, FinishKeeps

LEMMA EmptyArrayKeeps ==
  ASSUME Inv, EmptyArray
  PROVE  Inv'
<1>1. Len(stack) \in Nat \ {0} /\ current < Len(tokens) /\ status = "parsing"
  BY DEF EmptyArray, At, Match, Inv, TypeOK
<1>2. values' = values /\ Finish
  BY DEF EmptyArray
<1>3. values' \in [DOMAIN values' -> ValueTypes]
  BY <1>2 DEF Inv, TypeOK
<1> QED
  BY <1>1, <1>2, <1>3, FinishKeeps

\* A step that changes neither values nor stack.
LEMMA SameValues ==
  ASSUME Inv, UNCHANGED <<values, stack>>
  PROVE  stack' \in Seq(FrameTypes') /\ RoomForTheEntry'
<1>1. stack \in Seq(FrameTypes')
  BY StackStays
<1> QED
  BY <1>1 DEF Inv, RoomForTheEntry, HasRoom

\* The store goes out of bounds in no state: what is left is the tokens.
LEMMA OutOfBoundsKeeps ==
  ASSUME Inv, OutOfBounds
  PROVE  Inv'
<1>1. point = "returned" => HasRoom(Inner)
  <2> SUFFICES ASSUME point = "returned" PROVE HasRoom(Inner)
    OBVIOUS
  <2>1. stack # <<>>
    BY DEF OutOfBounds, InCall
  <2>2. Len(stack) \in 1 .. Len(stack)
    BY <2>1 DEF Inv, TypeOK
  <2> QED
    BY <2>2, Frames DEF Inner, Top
<1>2. ~(current < Len(tokens))
  BY <1>1 DEF OutOfBounds, InBounds
<1>3. current = Len(tokens)
  BY <1>2 DEF Inv, TypeOK
<1> QED
  BY <1>3, SameValues DEF OutOfBounds, Inv, TypeOK, OnlyTokensRunOut

LEMMA Inductive == Inv /\ [Next]_vars => Inv'
<1> SUFFICES ASSUME Inv, [Next]_vars PROVE Inv'
  OBVIOUS
<1>1. CASE OpenObject
  BY <1>1, OpenKeeps DEF OpenObject, At, Match
<1>2. CASE OpenArray
  BY <1>2, OpenKeeps DEF OpenArray, At, Match
<1>3. CASE ReadScalar
  BY <1>3, ScalarKeeps
<1>4. CASE EmptyArray
  BY <1>4, EmptyArrayKeeps
<1>5. CASE FirstElement
  BY <1>5, SameValues DEF FirstElement, At, Inv, TypeOK, OnlyTokensRunOut, Points
<1>6. CASE ReadKey
  BY <1>6, SameValues DEF ReadKey, At, Match, Advance, Inv, TypeOK, OnlyTokensRunOut, Points
<1>7. CASE ReadColon
  BY <1>7, SameValues DEF ReadColon, At, Match, Advance, Inv, TypeOK, OnlyTokensRunOut, Points
<1>8. CASE Comma
  BY <1>8, CommaKeeps
<1>9. CASE Close
  BY <1>9, CloseKeeps
<1>10. CASE Accept
  BY <1>10, SameValues DEF Accept, Inv, TypeOK, OnlyTokensRunOut
<1>11. CASE Unexpected
  BY <1>11, SameValues DEF Unexpected, Inv, TypeOK, OnlyTokensRunOut
<1>12. CASE OutOfBounds
  BY <1>12, OutOfBoundsKeeps
<1>13. CASE UNCHANGED vars
  BY <1>13, SameValues DEF vars, Inv, TypeOK, OnlyTokensRunOut
<1> QED
  BY <1>1, <1>2, <1>3, <1>4, <1>5, <1>6, <1>7, <1>8, <1>9, <1>10, <1>11, <1>12, <1>13 DEF Next

LEMMA Always == Spec => []Inv
BY Initially, Inductive, PTL DEF Spec

-----------------------------------------------------------------------------

\* The store "entries[count++] = parsePair(parser)" and "items[count++] =
\* parseValue(parser)" (parseObject, parseArray) never passes the allocation, for
\* any document and any nesting: the growth after the comma is enough.
THEOREM EntriesFit == Spec => []RoomForTheEntry
<1>1. Inv => RoomForTheEntry
  BY DEF Inv
<1> QED
  BY <1>1, Always, PTL

\* The variables keep their types and open containers are told apart by where they begin.
THEOREM ParserTypes == Spec => []TypeOK
<1>1. Inv => TypeOK
  BY DEF Inv
<1> QED
  BY <1>1, Always, PTL

\* Every action takes a token, or looks past a bracket, or ends the parser.
LEMMA LessIsLeft == Inv /\ Inv' /\ Next => 0 <= Left' /\ Left' < Left
<1> SUFFICES ASSUME Inv, Inv', Next PROVE 0 <= Left' /\ Left' < Left
  OBVIOUS
<1>1. /\ current \in Nat /\ Len(tokens) \in Nat
      /\ current' \in Nat /\ Len(tokens') \in Nat /\ current' <= Len(tokens')
  BY DEF Inv, TypeOK
<1>2. tokens' = tokens
  BY DEF Next, OpenObject, OpenArray, ReadScalar, EmptyArray, FirstElement, ReadKey, ReadColon,
     Comma, Close, Finish, Accept, Unexpected, OutOfBounds
<1>3. \/ current' = current + 1 /\ status' = status
      \/ current' = current /\ status' = status /\ point = "bracket" /\ point' = "value"
      \/ current' = current /\ point' = point /\ status = "parsing" /\ status' # "parsing"
  BY DEF Next, OpenObject, OpenArray, Open, ReadScalar, EmptyArray, FirstElement, ReadKey,
     ReadColon, Comma, Close, Finish, Advance, At, InCall, Accept, Unexpected, OutOfBounds
<1> QED
  BY <1>1, <1>2, <1>3 DEF Left

\* On every sequence of tokens, sound or not, the parser comes to an end, within two
\* steps for each token and one more (parser(), parseValue).
THEOREM ParserComesToAnEnd == Spec => NearerToTheEnd
<1>1. Inv /\ Inv' /\ [Next]_vars => [0 <= Left' /\ Left' < Left]_vars
  BY LessIsLeft
<1> QED
  BY <1>1, Always, PTL DEF Spec, NearerToTheEnd

-----------------------------------------------------------------------------
(***************************************************************************)
(* The tree is the text.  The values that have ended, and the containers   *)
(* that are open below the innermost one, are out of every step's reach;   *)
(* so a step has to be looked at only at the innermost container, and at   *)
(* the place of its next entry.                                            *)
(***************************************************************************)

\* The places the auxiliary variable tells are of values, and none of an open container.
LastType ==
  /\ DOMAIN last \subseteq DOMAIN values
  /\ \A at \in DOMAIN last : last[at] \in 1 .. current
  /\ \A at \in OpenContainers : at \notin DOMAIN last

SpellingInv ==
  /\ Inv /\ LastType /\ TreeSpellsTheTokens
  /\ point # "returned" => result = 0
  /\ stack = <<>> => key = 0

LEMMA SpellingInitially == SpellingInit => SpellingInv
<1> SUFFICES ASSUME SpellingInit PROVE SpellingInv
  OBVIOUS
<1>1. Inv /\ Init /\ last = [at \in {} |-> 0]
  BY Initially DEF SpellingInit
<1>2. stack = <<>> /\ point = "value" /\ key = 0 /\ result = 0 /\ current = 0
  BY <1>1 DEF Init, Begin
<1>3. DOMAIN last = {}
  BY <1>1
<1> QED
  BY <1>1, <1>2, <1>3 DEF SpellingInv, LastType, TreeSpellsTheTokens, OpenContainers

\* The entries of a value have their types, and they have ended if the tree holds them.
LEMMA EntryTypes ==
  ASSUME SpellingInv, NEW at \in DOMAIN values
  PROVE  /\ at \in 1 .. current /\ values[at] \in ValueTypes
         /\ Len(values[at].entries) \in Nat
         /\ HoldsItsEntries(at) => NextEntryAt(at) \in Nat /\ NextEntryAt(at) <= current + 2
<1>1. at \in 1 .. current /\ values[at] \in ValueTypes /\ current \in Nat
  BY DEF SpellingInv, Inv, TypeOK
<1>2. Len(values[at].entries) \in Nat /\ values[at].entries \in Seq(Entries)
  BY <1>1 DEF ValueTypes
<1>3. ASSUME HoldsItsEntries(at)
      PROVE  NextEntryAt(at) \in Nat /\ NextEntryAt(at) <= current + 2
  <2> DEFINE n == Len(values[at].entries)
  <2>1. CASE n = 0
    BY <1>1, <2>1 DEF NextEntryAt, EntryAt
  <2>2. CASE n # 0
    <3>1. n \in 1 .. n /\ n + 1 # 1 /\ (n + 1) - 1 = n
      BY <1>2, <2>2
    <3>2. values[at].entries[n].value \in DOMAIN last
      BY <1>3, <3>1 DEF HoldsItsEntries
    <3>3. last[values[at].entries[n].value] \in 1 .. current
      BY <3>2 DEF SpellingInv, LastType
    <3>4. NextEntryAt(at) = last[values[at].entries[n].value] + 2
      BY <3>1, Zenon DEF NextEntryAt, EntryAt
    <3> QED
      BY <1>1, <3>3, <3>4
  <2> QED
    BY <2>1, <2>2
<1> QED
  BY <1>1, <1>2, <1>3

\* What a step leaves alone: the tokens, and where values have ended.
EndsKept ==
  /\ tokens' = tokens /\ DOMAIN last \subseteq DOMAIN last'
  /\ \A at \in DOMAIN last : last'[at] = last[at]

LEMMA PlacesKept ==
  ASSUME SpellingInv, EndsKept, NEW at \in DOMAIN values, HoldsItsEntries(at),
         \A m \in 1 .. Len(values[at].entries) : values'[at].entries[m] = values[at].entries[m],
         NEW n \in 1 .. Len(values[at].entries) + 1
  PROVE  EntryAt(at, n)' = EntryAt(at, n) /\ (IsSeparated(at, n)' <=> IsSeparated(at, n))
<1>1. Len(values[at].entries) \in Nat
  BY EntryTypes
<1>2. CASE n = 1
  BY <1>2 DEF EntryAt, IsSeparated
<1>3. CASE n # 1
  <2>1. n - 1 \in 1 .. Len(values[at].entries)
    BY <1>1, <1>3
  <2>2. values[at].entries[n - 1].value \in DOMAIN last
    BY <2>1 DEF HoldsItsEntries
  <2>3. EntryAt(at, n)' = EntryAt(at, n)
    BY <1>3, <2>2 DEF EntryAt, EndsKept
  <2> QED
    BY <2>3 DEF IsSeparated, EndsKept
<1> QED
  BY <1>2, <1>3

LEMMA HoldsKept ==
  ASSUME SpellingInv, EndsKept, NEW at \in DOMAIN values, values'[at] = values[at],
         HoldsItsEntries(at)
  PROVE  HoldsItsEntries(at)' /\ NextEntryAt(at)' = NextEntryAt(at)
<1>1. Len(values[at].entries) \in Nat
  BY EntryTypes
<1>2. NextEntryAt(at)' = NextEntryAt(at)
  BY <1>1, PlacesKept DEF NextEntryAt
<1>3. ASSUME NEW n \in 1 .. Len(values[at].entries)
      PROVE  LET entry == values[at].entries[n]
             IN /\ entry.value \in DOMAIN last'
                /\ IsEntry(at, entry.key, entry.value, EntryAt(at, n))'
                /\ IsSeparated(at, n)'
  <2> DEFINE entry == values[at].entries[n]
  <2>1. /\ entry.value \in DOMAIN last
        /\ IsEntry(at, entry.key, entry.value, EntryAt(at, n))
        /\ IsSeparated(at, n)
    BY DEF HoldsItsEntries
  <2>2. EntryAt(at, n)' = EntryAt(at, n) /\ IsSeparated(at, n)'
    BY <1>1, <2>1, PlacesKept
  <2>3. IsEntry(at, entry.key, entry.value, EntryAt(at, n))'
    BY <2>1, <2>2 DEF IsEntry, EndsKept
  <2> QED
    BY <2>1, <2>2, <2>3 DEF EndsKept
<1> QED
  BY <1>2, <1>3 DEF HoldsItsEntries, EndsKept

LEMMA SpelledKept ==
  ASSUME SpellingInv, EndsKept, NEW at \in DOMAIN values, values'[at] = values[at]
  PROVE  /\ at \in DOMAIN last => IsSpelled(at)'
         /\ IsBegun(at) => IsBegun(at)'
<1>1. ASSUME at \in DOMAIN last PROVE IsSpelled(at)'
  <2>1. IsSpelled(at) /\ last'[at] = last[at] /\ tokens' = tokens
    BY <1>1 DEF SpellingInv, TreeSpellsTheTokens, EndsKept
  <2>2. CASE values[at].type \in ScalarTypes
    BY <2>1, <2>2 DEF IsSpelled
  <2>3. CASE values[at].type \notin ScalarTypes
    <3>1. HoldsItsEntries(at)
      BY <2>1, <2>3 DEF IsSpelled
    <3>2. HoldsItsEntries(at)' /\ NextEntryAt(at)' = NextEntryAt(at)
      BY <3>1, HoldsKept
    <3> QED
      BY <2>1, <2>3, <3>2 DEF IsSpelled
  <2> QED
    BY <2>2, <2>3
<1>2. ASSUME IsBegun(at) PROVE IsBegun(at)'
  <2> DEFINE n == Len(values[at].entries) + 1
  <2>1. HoldsItsEntries(at) /\ IsSeparated(at, n)
    BY <1>2 DEF IsBegun
  <2>2. n \in 1 .. n
    BY EntryTypes
  <2>3. IsSeparated(at, n)'
    BY <2>1, <2>2, PlacesKept
  <2>4. HoldsItsEntries(at)'
    BY <2>1, HoldsKept
  <2> QED
    BY <2>3, <2>4 DEF IsBegun
<1> QED
  BY <1>1, <1>2

\* The containers that stay open and are not changed are as they were.
LEMMA OpenKept ==
  ASSUME SpellingInv, EndsKept, NEW i \in 1 .. Len(stack), stack'[i] = stack[i],
         \A j \in 1 .. Len(stack) : j < i => /\ values'[stack[j].at] = values[stack[j].at]
                                             /\ stack'[j] = stack[j]
  PROVE  /\ stack[i].at \in DOMAIN values /\ IsBegun(stack[i].at)
         /\ IsNested(i)'
<1>1. stack[i].at \in DOMAIN values /\ IsBegun(stack[i].at) /\ IsNested(i)
  BY Frames DEF SpellingInv, TreeSpellsTheTokens, OpenContainers
<1>2. CASE i = 1
  BY <1>1, <1>2 DEF IsNested
<1>3. CASE i # 1
  <2>1. Len(stack) \in Nat /\ i - 1 \in 1 .. Len(stack) /\ i - 1 < i
    BY <1>3 DEF SpellingInv, Inv, TypeOK
  <2>2. PICK c : c = stack[i - 1].at
    OBVIOUS
  <2>3. c \in DOMAIN values /\ values'[c] = values[c] /\ stack'[i - 1].at = c
    BY <2>1, <2>2, Frames DEF SpellingInv
  <2>4. HoldsItsEntries(c)
    BY <2>1, <2>2 DEF SpellingInv, TreeSpellsTheTokens, OpenContainers, IsBegun
  <2>5. NextEntryAt(c)' = NextEntryAt(c)
    BY <2>3, <2>4, HoldsKept
  <2>6. PICK f : f = stack[i]
    OBVIOUS
  <2>7. IsEntry(c, f.key, f.at, NextEntryAt(c))
    BY <1>1, <1>3, <2>2, <2>6 DEF IsNested
  <2>8. IsEntry(c, f.key, f.at, NextEntryAt(c))'
    BY <2>3, <2>5, <2>7 DEF IsEntry, EndsKept
  <2> QED
    BY <1>1, <1>3, <2>3, <2>6, <2>8 DEF IsNested, IsEntry, NextEntryAt, EntryAt
<1> QED
  BY <1>1, <1>2, <1>3

\* Open containers are told apart by where they begin.
LEMMA NotTheSame ==
  ASSUME Inv, NEW i \in 1 .. Len(stack), NEW j \in 1 .. Len(stack), i # j
  PROVE  stack[i].at # stack[j].at
<1>1. i \in Nat /\ j \in Nat /\ stack[i].at \in Nat /\ stack[j].at \in Nat
  BY Frames
<1>2. i < j \/ j < i
  BY <1>1
<1> QED
  BY <1>1, <1>2 DEF Inv, TypeOK

LEMMA OpenSpelled ==
  ASSUME SpellingInv, NEW type \in {"object", "array"}, status = "parsing", point = "value",
         Match(OpeningOf(type)), Open(type), Inv', Remember,
         point' = (IF type = "object" THEN "key" ELSE "bracket"),
         UNCHANGED <<tokens, result, status>>
  PROVE  SpellingInv'
<1> DEFINE at == current + 1
           v == Value(type, <<>>, InitialCapacity)
<1>1. /\ at \in 1 .. Len(tokens) /\ at \notin DOMAIN values /\ current' = at
      /\ current \in Nat /\ tokens[at] = OpeningOf(type)
  BY DEF SpellingInv, Inv, TypeOK, Open, Advance, Match
<1>2. v.type = type /\ v.entries = <<>> /\ type \notin ScalarTypes
  BY DEF Value, ScalarTypes
<1>3. /\ DOMAIN values' = DOMAIN values \cup {at} /\ values'[at] = v
      /\ \A a \in DOMAIN values : values'[a] = values[a]
  <2>1. values' = With(at, v)
    BY DEF Open
  <2> QED
    BY <1>1, <2>1 DEF With
<1>4. /\ Len(stack) \in Nat /\ Len(stack') = Len(stack) + 1
      /\ stack'[Len(stack) + 1] = [at |-> at, key |-> key]
      /\ \A i \in 1 .. Len(stack) : stack'[i] = stack[i]
  BY DEF Open, SpellingInv, Inv, TypeOK
<1>5. OpenContainers' = OpenContainers \cup {at}
  BY <1>4 DEF OpenContainers
<1>6. result' = 0 /\ last' = last /\ key' = 0
  BY DEF SpellingInv, Remember, Open
<1>7. EndsKept
  BY <1>6 DEF EndsKept
<1>8. LastType'
  <2>1. \A a \in DOMAIN last : last[a] \in 1 .. current'
    BY <1>1 DEF SpellingInv, LastType
  <2>2. \A a \in OpenContainers' : a \notin DOMAIN last
    BY <1>5, <1>1 DEF SpellingInv, LastType
  <2>3. DOMAIN last \subseteq DOMAIN values'
    BY <1>3 DEF SpellingInv, LastType
  <2> QED
    BY <1>6, <2>1, <2>2, <2>3 DEF LastType
<1>9. \A a \in DOMAIN last' : IsSpelled(a)'
  <2> TAKE a \in DOMAIN last'
  <2>1. a \in DOMAIN last /\ a \in DOMAIN values
    BY <1>6 DEF SpellingInv, LastType
  <2> QED
    BY <1>3, <1>7, <2>1, SpelledKept
<1>10. PICK c : c = at
  OBVIOUS
<1>11. IsBegun(c)' /\ NextEntryAt(c)' = c + 1
  <2>1. values'[c].type = type /\ values'[c].entries = <<>> /\ tokens'[c] = OpeningOf(type)
    BY <1>1, <1>2, <1>3, <1>10
  <2> QED
    BY <1>2, <2>1 DEF IsBegun, HoldsItsEntries, IsSeparated, NextEntryAt, EntryAt
<1>12. \A a \in OpenContainers' : IsBegun(a)'
  <2> TAKE a \in OpenContainers'
  <2>1. CASE a \in OpenContainers
    <3>1. a \in DOMAIN values /\ IsBegun(a)
      BY <2>1, Frames DEF SpellingInv, TreeSpellsTheTokens, OpenContainers
    <3> QED
      BY <1>3, <1>7, <3>1, SpelledKept
  <2> QED
    BY <1>5, <1>10, <1>11, <2>1
<1>13. ASSUME NEW i \in 1 .. Len(stack') PROVE IsNested(i)'
  <2>1. CASE i \in 1 .. Len(stack)
    <3>1. stack'[i] = stack[i] /\ \A j \in 1 .. Len(stack) : j < i =>
            values'[stack[j].at] = values[stack[j].at] /\ stack'[j] = stack[j]
      BY <1>3, <1>4, <2>1, Frames DEF SpellingInv
    <3> QED
      BY <1>7, <2>1, <3>1, OpenKept
  <2>2. CASE i = Len(stack) + 1
    <3>1. CASE Len(stack) = 0
      <4>1. current = 0 /\ key = 0 /\ i = 1
        BY <2>2, <3>1 DEF SpellingInv, TreeSpellsTheTokens, Inv, TypeOK
      <4> QED
        BY <1>4, <2>2, <4>1 DEF IsNested
    <3>2. CASE Len(stack) # 0
      <4>1. Len(stack) \in 1 .. Len(stack) /\ i # 1 /\ i - 1 = Len(stack)
        BY <1>4, <2>2, <3>2
      <4>2. PICK d : d = Top.at
        OBVIOUS
      <4>3. PICK k : k = key
        OBVIOUS
      <4>4. d \in DOMAIN values /\ values'[d] = values[d] /\ stack'[i - 1].at = d
        BY <1>3, <1>4, <4>1, <4>2, Frames DEF Top, SpellingInv
      <4>5. HoldsItsEntries(d) /\ IsEntry(d, k, c, NextEntryAt(d))
        BY <1>10, <4>1, <4>2, <4>3, <3>2 DEF SpellingInv, TreeSpellsTheTokens, IsBegun,
          OpenContainers, IsWithin, Top
      <4>6. NextEntryAt(d)' = NextEntryAt(d)
        BY <1>7, <4>4, <4>5, HoldsKept
      <4>7. IsEntry(d, k, c, NextEntryAt(d))'
        BY <4>4, <4>5, <4>6 DEF IsEntry
      <4>8. stack'[i].key = k /\ stack'[i].at = c
        BY <1>4, <1>10, <2>2, <4>3
      <4> QED
        BY <4>1, <4>4, <4>7, <4>8 DEF IsNested, IsEntry, NextEntryAt, EntryAt
    <3> QED
      BY <3>1, <3>2
  <2> QED
    BY <1>4, <2>1, <2>2
<1>14. IsWithin(Top.at)'
  <2>1. Top'.at = c
    BY <1>4, <1>10 DEF Top
  <2>2. values'[c].type = type /\ values'[c].entries = <<>>
    BY <1>2, <1>3, <1>10
  <2>3. NextEntryAt(c)' = current' + 1 /\ current' \in Nat
    BY <1>1, <1>10, <1>11
  <2>4. IsWithin(c)'
    BY <1>6, <2>2, <2>3 DEF IsWithin, IsEntry
  <2> QED
    BY <2>1, <2>4
<1>15. TreeSpellsTheTokens'
  BY <1>4, <1>9, <1>12, <1>14, <1>13 DEF TreeSpellsTheTokens
<1> QED
  BY <1>4, <1>6, <1>8, <1>15 DEF SpellingInv

\* Where a step changes none of the open containers, but perhaps allocates a value or tells
\* where one has ended.
LEMMA SameContainers ==
  ASSUME SpellingInv, EndsKept, stack' = stack, \A at \in DOMAIN values : values'[at] = values[at]
  PROVE  /\ \A at \in OpenContainers' : IsBegun(at)'
         /\ \A i \in 1 .. Len(stack') : IsNested(i)'
         /\ \A at \in DOMAIN last : IsSpelled(at)'
<1>1. ASSUME NEW at \in OpenContainers' PROVE IsBegun(at)'
  <2>1. at \in OpenContainers
    BY DEF OpenContainers
  <2>2. at \in DOMAIN values /\ IsBegun(at)
    BY <2>1, Frames DEF SpellingInv, TreeSpellsTheTokens, OpenContainers
  <2> QED
    BY <2>2, SpelledKept
<1>2. ASSUME NEW i \in 1 .. Len(stack) PROVE IsNested(i)'
  <2>1. \A j \in 1 .. Len(stack) : values'[stack[j].at] = values[stack[j].at]
    BY Frames DEF SpellingInv
  <2> QED
    BY <2>1, OpenKept
<1>3. ASSUME NEW at \in DOMAIN last PROVE IsSpelled(at)'
  <2>1. at \in DOMAIN values
    BY DEF SpellingInv, LastType
  <2> QED
    BY <2>1, SpelledKept
<1> QED
  BY <1>1, <1>2, <1>3

\* The innermost of the open containers is a value that holds its entries.
LEMMA Innermost ==
  ASSUME SpellingInv, stack # <<>>
  PROVE  /\ Len(stack) \in Nat \ {0} /\ Top.at \in OpenContainers
         /\ Top.at \in DOMAIN values /\ Top.at \in 1 .. current
         /\ IsBegun(Top.at) /\ HoldsItsEntries(Top.at) /\ IsWithin(Top.at)
<1>1. Len(stack) \in Nat \ {0}
  BY DEF SpellingInv, Inv, TypeOK
<1>2. Top.at \in OpenContainers /\ Top.at \in DOMAIN values /\ Top.at \in 1 .. current
  BY <1>1, Frames DEF OpenContainers, Top, SpellingInv
<1> QED
  BY <1>1, <1>2 DEF SpellingInv, TreeSpellsTheTokens, IsBegun

LEMMA ScalarSpelled ==
  ASSUME SpellingInv, ReadScalar, Remember
  PROVE  SpellingInv'
<1>0. Inv'
  BY ScalarKeeps DEF SpellingInv
<1> DEFINE at == current + 1
<1>1. PICK type \in ScalarTypes :
        Match(type) /\ values' = With(at, Value(type, <<>>, 0))
  BY DEF ReadScalar
<1>2. /\ at \in 1 .. Len(tokens) /\ at \notin DOMAIN values /\ current' = at
      /\ current \in Nat /\ tokens[at] = type /\ tokens' = tokens
  BY <1>1 DEF SpellingInv, Inv, TypeOK, ReadScalar, Advance, Match
<1>3. /\ DOMAIN values' = DOMAIN values \cup {at} /\ values'[at].type = type
      /\ \A a \in DOMAIN values : values'[a] = values[a]
  BY <1>1, <1>2 DEF With, Value
<1>4. /\ result' = at /\ stack' = stack /\ point = "value" /\ point' = "returned" /\ key' = key
  BY DEF ReadScalar, At
<1>5. /\ DOMAIN last' = DOMAIN last \cup {at} /\ last'[at] = at /\ at \notin DOMAIN last
      /\ \A a \in DOMAIN last : last'[a] = last[a]
  <2>1. at \notin DOMAIN last
    BY <1>2 DEF SpellingInv, LastType
  <2>2. last' = [a \in DOMAIN last \cup {at} |-> IF a = at THEN at ELSE last[a]]
    BY <1>2, <1>4 DEF Remember
  <2> QED
    BY <2>1, <2>2
<1>6. EndsKept
  BY <1>2, <1>5 DEF EndsKept
<1>7. LastType'
  <2>1. \A a \in DOMAIN last' : last'[a] \in 1 .. current'
    BY <1>2, <1>5 DEF SpellingInv, LastType
  <2>2. \A a \in OpenContainers' : a \notin DOMAIN last'
    <3> TAKE a \in OpenContainers'
    <3>1. a \in OpenContainers
      BY <1>4 DEF OpenContainers
    <3>2. a \in DOMAIN values /\ a \notin DOMAIN last
      BY <3>1, Frames DEF OpenContainers, SpellingInv, LastType
    <3> QED
      BY <1>2, <1>5, <3>2
  <2>3. DOMAIN last' \subseteq DOMAIN values'
    BY <1>3, <1>5 DEF SpellingInv, LastType
  <2> QED
    BY <2>1, <2>2, <2>3 DEF LastType
<1>8. PICK c : c = at
  OBVIOUS
<1>9. IsSpelled(c)'
  <2>1. values'[c].type = type /\ tokens'[c] = type /\ last'[c] = c
    BY <1>2, <1>3, <1>5, <1>8
  <2> QED
    BY <1>1, <2>1 DEF IsSpelled
<1>10. \A a \in DOMAIN last' : IsSpelled(a)'
  BY <1>3, <1>4, <1>5, <1>6, <1>8, <1>9, SameContainers
<1>11. stack' # <<>> => IsWithin(Top.at)'
  <2> SUFFICES ASSUME stack # <<>> PROVE IsWithin(Top.at)'
    BY <1>4
  <2>1. PICK d : d = Top.at
    OBVIOUS
  <2>2. PICK k : k = key
    OBVIOUS
  <2>3. d \in DOMAIN values /\ HoldsItsEntries(d) /\ IsWithin(d) /\ Top'.at = d
    BY <1>4, <2>1, Innermost DEF Top
  <2>4. IsEntry(d, k, c, NextEntryAt(d))
    BY <1>4, <1>8, <2>2, <2>3 DEF IsWithin
  <2>5. NextEntryAt(d)' = NextEntryAt(d) /\ values'[d] = values[d]
    BY <1>3, <1>6, <2>3, HoldsKept
  <2>6. IsEntry(d, k, c, NextEntryAt(d))'
    BY <1>2, <2>4, <2>5 DEF IsEntry
  <2>7. IsWithin(d)'
    BY <1>4, <1>8, <2>2, <2>6 DEF IsWithin, IsEntry
  <2> QED
    BY <2>3, <2>7
<1>12. stack' = <<>> => result' = 1
  BY <1>2, <1>4 DEF SpellingInv, TreeSpellsTheTokens
<1>13. TreeSpellsTheTokens'
  <2>1. /\ \A a \in OpenContainers' : IsBegun(a)'
        /\ \A i \in 1 .. Len(stack') : IsNested(i)'
    BY <1>3, <1>4, <1>6, SameContainers
  <2>2. result' \in DOMAIN last' /\ last'[result'] = current'
    BY <1>2, <1>4, <1>5
  <2> QED
    BY <1>4, <1>10, <1>11, <1>12, <2>1, <2>2 DEF TreeSpellsTheTokens
<1> QED
  BY <1>0, <1>4, <1>7, <1>13 DEF SpellingInv

\* A step inside the innermost container that builds nothing.
LEMMA MoveSpelled ==
  ASSUME SpellingInv, stack # <<>>, Inv', Remember, UNCHANGED <<tokens, values, stack, result>>,
         point # "returned", point' # "returned", current' \in {current, current + 1},
         IsWithin(Top.at) => IsWithin(Top.at)'
  PROVE  SpellingInv'
<1>1. result = 0 /\ last' = last
  BY DEF SpellingInv, Remember
<1>2. EndsKept
  BY <1>1 DEF EndsKept
<1>3. LastType'
  <2>1. current \in Nat /\ current <= current'
    BY DEF SpellingInv, Inv, TypeOK
  <2>2. \A at \in DOMAIN last : last[at] \in 1 .. current'
    BY <2>1 DEF SpellingInv, LastType
  <2> QED
    BY <1>1, <2>2 DEF SpellingInv, LastType, OpenContainers
<1>4. IsWithin(Top.at)'
  BY Innermost
<1>5. TreeSpellsTheTokens'
  <2>1. /\ \A at \in OpenContainers' : IsBegun(at)'
        /\ \A i \in 1 .. Len(stack') : IsNested(i)'
        /\ \A at \in DOMAIN last' : IsSpelled(at)'
    BY <1>1, <1>2, SameContainers
  <2> QED
    BY <1>4, <2>1 DEF TreeSpellsTheTokens
<1> QED
  BY <1>1, <1>3, <1>5 DEF SpellingInv

LEMMA FirstElementSpelled ==
  ASSUME SpellingInv, FirstElement, Inv', Remember
  PROVE  SpellingInv'
<1>1. stack # <<>>
  BY DEF FirstElement, At, SpellingInv, Inv, TypeOK
<1>2. Top' = Top
  BY DEF FirstElement, Top
<1>3. IsWithin(Top.at) => IsWithin(Top.at)'
  BY <1>2 DEF FirstElement, At, IsWithin, IsEntry, NextEntryAt, EntryAt, Remember, SpellingInv
<1> QED
  BY <1>1, <1>3, MoveSpelled DEF FirstElement, At

LEMMA KeySpelled ==
  ASSUME SpellingInv, ReadKey, Inv', Remember
  PROVE  SpellingInv'
<1>1. /\ stack # <<>> /\ stack' = stack /\ values' = values /\ result' = 0 /\ tokens' = tokens
      /\ point = "key" /\ point' = "colon"
  BY DEF ReadKey, At, SpellingInv, Inv, TypeOK
<1>2. /\ current' = current + 1 /\ key' = current + 1 /\ tokens[current + 1] = "STRING"
      /\ current \in Nat
  BY DEF ReadKey, Advance, Match, SpellingInv, Inv, TypeOK
<1>3. Top' = Top /\ last' = last
  BY <1>1 DEF Top, Remember
<1>4. ASSUME IsWithin(Top.at) PROVE IsWithin(Top.at)'
  <2>1. values[Top.at].type = "object" /\ NextEntryAt(Top.at) = current + 1
    BY <1>1, <1>4 DEF IsWithin
  <2>2. NextEntryAt(Top.at)' = current'
    BY <1>1, <1>2, <1>3, <2>1 DEF NextEntryAt, EntryAt
  <2> QED
    BY <1>1, <1>2, <1>3, <2>1, <2>2 DEF IsWithin
<1> QED
  BY <1>1, <1>2, <1>4, MoveSpelled DEF ReadKey

LEMMA ColonSpelled ==
  ASSUME SpellingInv, ReadColon, Inv', Remember
  PROVE  SpellingInv'
<1>1. /\ stack # <<>> /\ stack' = stack /\ values' = values /\ result' = 0 /\ tokens' = tokens
      /\ point = "colon" /\ point' = "value" /\ key' = key
  BY DEF ReadColon, At, SpellingInv, Inv, TypeOK
<1>2. current' = current + 1 /\ tokens[current + 1] = "COLON" /\ current \in Nat
  BY DEF ReadColon, Advance, Match, SpellingInv, Inv, TypeOK
<1>3. Top' = Top /\ last' = last
  BY <1>1 DEF Top, Remember
<1>4. ASSUME IsWithin(Top.at) PROVE IsWithin(Top.at)'
  <2>1. /\ values[Top.at].type = "object" /\ NextEntryAt(Top.at) = current
        /\ key = current /\ tokens[current] = "STRING"
    BY <1>1, <1>4 DEF IsWithin
  <2>2. NextEntryAt(Top.at)' = current
    BY <1>1, <1>3, <2>1 DEF NextEntryAt, EntryAt
  <2>3. current' + 1 = current + 2
    BY <1>2
  <2>4. IsEntry(Top.at, key, current + 1, NextEntryAt(Top.at))'
    BY <1>1, <1>2, <1>3, <2>1, <2>2, <2>3 DEF IsEntry
  <2> QED
    BY <1>1, <2>4 DEF IsWithin
<1> QED
  BY <1>1, <1>2, <1>4, MoveSpelled DEF ReadColon

\* Where the parser stops, the tree stays as it is.
LEMMA StopSpelled ==
  ASSUME SpellingInv, UNCHANGED <<tokens, current, values, stack, key, result, point>>, Inv',
         Remember \/ last' = last
  PROVE  SpellingInv'
<1>1. UNCHANGED <<tokens, current, values, stack, key, result, point>>
  OBVIOUS
<1>2. DOMAIN last' = DOMAIN last /\ \A at \in DOMAIN last : last'[at] = last[at]
  <2>1. CASE result = 0 \/ last' = last
    BY <1>1, <2>1 DEF Remember
  <2>2. CASE result # 0 /\ Remember
    <3>1. result \in DOMAIN last /\ last[result] = current
      BY <2>2 DEF SpellingInv, TreeSpellsTheTokens
    <3>2. last' = [at \in DOMAIN last \cup {result} |-> IF at = result THEN current ELSE last[at]]
      BY <1>1, <2>2 DEF Remember
    <3> QED
      BY <3>1, <3>2
  <2> QED
    BY <2>1, <2>2
<1>3. EndsKept
  BY <1>1, <1>2 DEF EndsKept
<1>4. LastType'
  BY <1>1, <1>2 DEF SpellingInv, LastType, OpenContainers
<1>5. stack # <<>> => IsWithin(Top.at)'
  <2> SUFFICES ASSUME stack # <<>> PROVE IsWithin(Top.at)'
    OBVIOUS
  <2>1. PICK c : c = Top.at
    OBVIOUS
  <2>2. c \in DOMAIN values /\ HoldsItsEntries(c) /\ IsWithin(c) /\ Top'.at = c
    BY <1>1, <2>1, Innermost DEF Top
  <2>3. NextEntryAt(c)' = NextEntryAt(c)
    BY <1>1, <1>3, <2>2, HoldsKept
  <2>4. IsWithin(c)'
    BY <1>1, <2>2, <2>3 DEF IsWithin, IsEntry
  <2> QED
    BY <2>2, <2>4
<1>6. TreeSpellsTheTokens'
  <2>1. /\ \A at \in OpenContainers' : IsBegun(at)'
        /\ \A i \in 1 .. Len(stack') : IsNested(i)'
        /\ \A at \in DOMAIN last' : IsSpelled(at)'
    BY <1>1, <1>2, <1>3, SameContainers
  <2> QED
    BY <1>1, <1>2, <1>5, <2>1 DEF SpellingInv, TreeSpellsTheTokens
<1> QED
  BY <1>1, <1>4, <1>6 DEF SpellingInv

\* A container that has been given the value that was returned holds it too.
LEMMA StoredHolds ==
  ASSUME SpellingInv, EndsKept, InContainer, NEW c, c = Top.at,
         values'[c].type = values[c].type,
         values'[c].entries = Append(values[c].entries, [key |-> key, value |-> result])
  PROVE  /\ HoldsItsEntries(c)' /\ NextEntryAt(c)' = current + 2
         /\ values'[c].entries # <<>>
<1> DEFINE before == values[c].entries
           e == [key |-> key, value |-> result]
<1>1. stack # <<>> /\ point = "returned" /\ current \in Nat
  BY DEF InContainer, At, SpellingInv, Inv, TypeOK
<1>2. c \in DOMAIN values /\ IsBegun(c) /\ HoldsItsEntries(c) /\ IsWithin(c)
  BY <1>1, Innermost
<1>3. before \in Seq(Entries) /\ Len(before) \in Nat
  BY <1>2, EntryTypes DEF ValueTypes
<1>4. result \in DOMAIN last /\ last[result] = current
  BY <1>1 DEF SpellingInv, TreeSpellsTheTokens
<1>5. /\ Len(values'[c].entries) = Len(before) + 1
      /\ values'[c].entries[Len(before) + 1] = e
      /\ \A m \in 1 .. Len(before) : values'[c].entries[m] = before[m]
  BY <1>3
<1>6. ASSUME NEW n \in 1 .. Len(before) + 1
      PROVE  EntryAt(c, n)' = EntryAt(c, n) /\ (IsSeparated(c, n)' <=> IsSeparated(c, n))
  BY <1>2, <1>5, PlacesKept
<1>7. ASSUME NEW n \in 1 .. Len(values'[c].entries), NEW entry, entry = values'[c].entries[n]
      PROVE  /\ entry.value \in DOMAIN last'
             /\ IsEntry(c, entry.key, entry.value, EntryAt(c, n))'
             /\ IsSeparated(c, n)'
  <2>1. CASE n \in 1 .. Len(before)
    <3>1. entry = before[n]
      BY <1>5, <1>7, <2>1
    <3>2. /\ entry.value \in DOMAIN last /\ IsEntry(c, entry.key, entry.value, EntryAt(c, n))
          /\ IsSeparated(c, n)
      BY <1>2, <2>1, <3>1 DEF HoldsItsEntries
    <3>3. EntryAt(c, n)' = EntryAt(c, n) /\ IsSeparated(c, n)'
      BY <1>3, <1>6, <2>1, <3>2
    <3>4. IsEntry(c, entry.key, entry.value, EntryAt(c, n))'
      BY <3>2, <3>3 DEF IsEntry, EndsKept
    <3> QED
      BY <3>2, <3>3, <3>4 DEF EndsKept
  <2>2. CASE n = Len(before) + 1
    <3>1. entry = e
      BY <1>5, <1>7, <2>2
    <3>2. IsEntry(c, entry.key, entry.value, NextEntryAt(c)) /\ entry.value = result
      BY <1>1, <1>2, <3>1 DEF IsWithin
    <3>3. NextEntryAt(c) = EntryAt(c, n) /\ n \in 1 .. Len(before) + 1
      BY <1>3, <2>2 DEF NextEntryAt
    <3>4. EntryAt(c, n)' = EntryAt(c, n) /\ IsSeparated(c, n)'
      BY <1>2, <1>6, <2>2, <3>3 DEF IsBegun
    <3>5. IsEntry(c, entry.key, entry.value, EntryAt(c, n))'
      BY <3>2, <3>3, <3>4 DEF IsEntry, EndsKept
    <3> QED
      BY <1>4, <3>2, <3>4, <3>5 DEF EndsKept
  <2> QED
    BY <1>3, <1>5, <2>1, <2>2
<1>8. HoldsItsEntries(c)'
  BY <1>2, <1>7 DEF HoldsItsEntries, EndsKept
<1>9. NextEntryAt(c)' = current + 2
  <2>1. PICK n : n = Len(before) + 1
    OBVIOUS
  <2>2. n \in Nat \ {0} /\ Len(values'[c].entries) + 1 = n + 1 /\ n + 1 # 1 /\ (n + 1) - 1 = n
    BY <1>3, <1>5, <2>1
  <2>3. NextEntryAt(c)' = last'[values'[c].entries[n].value] + 2
    BY <2>2 DEF NextEntryAt, EntryAt
  <2>4. values'[c].entries[n].value = result
    BY <1>5, <2>1
  <2> QED
    BY <1>4, <2>3, <2>4 DEF EndsKept
<1>10. values'[c].entries # <<>>
  BY <1>3, <1>5
<1> QED
  BY <1>8, <1>9, <1>10

\* The containers around the innermost one, if it alone is changed.
LEMMA OuterContainers ==
  ASSUME SpellingInv, EndsKept, stack # <<>>, NEW c, c = Top.at,
         \A at \in DOMAIN values : at # c => values'[at] = values[at],
         Len(stack') \in {Len(stack) - 1, Len(stack)},
         \A i \in 1 .. Len(stack') : stack'[i] = stack[i]
  PROVE  /\ \A at \in OpenContainers' : at # c => at \in OpenContainers /\ IsBegun(at)'
         /\ \A i \in 1 .. Len(stack') : IsNested(i)'
         /\ \A at \in DOMAIN last : IsSpelled(at)'
         /\ \A i \in 1 .. Len(stack) - 1 : stack[i].at # c
<1>1. Len(stack) \in Nat \ {0} /\ c \in OpenContainers
  BY Innermost
<1>2. \A i \in 1 .. Len(stack) - 1 : stack[i].at # c
  BY <1>1, NotTheSame DEF SpellingInv, Top
<1>3. ASSUME NEW at \in OpenContainers', at # c PROVE at \in OpenContainers /\ IsBegun(at)'
  <2>1. at \in OpenContainers
    BY <1>1 DEF OpenContainers
  <2>2. at \in DOMAIN values /\ IsBegun(at)
    BY <2>1, Frames DEF SpellingInv, TreeSpellsTheTokens, OpenContainers
  <2> QED
    BY <1>3, <2>1, <2>2, SpelledKept
<1>4. ASSUME NEW i \in 1 .. Len(stack') PROVE IsNested(i)'
  <2>1. i \in 1 .. Len(stack)
    BY <1>1
  <2>2. ASSUME NEW j \in 1 .. Len(stack), j < i
        PROVE  values'[stack[j].at] = values[stack[j].at] /\ stack'[j] = stack[j]
    <3>1. j \in 1 .. Len(stack) - 1 /\ j \in 1 .. Len(stack')
      BY <1>1, <2>1, <2>2
    <3>2. stack[j].at # c /\ stack[j].at \in DOMAIN values
      BY <1>2, <3>1, Frames DEF SpellingInv
    <3> QED
      BY <3>1, <3>2
  <2> QED
    BY <2>1, <2>2, OpenKept
<1>5. ASSUME NEW at \in DOMAIN last PROVE IsSpelled(at)'
  <2>1. at \in DOMAIN values /\ at # c
    BY <1>1 DEF SpellingInv, LastType
  <2> QED
    BY <2>1, SpelledKept
<1> QED
  BY <1>2, <1>3, <1>4, <1>5

LEMMA Popped ==
  ASSUME NEW S, NEW s \in Seq(S), NEW n \in Nat, Len(s) = n + 1
  PROVE  Len(SubSeq(s, 1, n)) = n /\ \A i \in 1 .. n : SubSeq(s, 1, n)[i] = s[i]
<1>1. \A i \in 1 .. n : s[i] \in S
  OBVIOUS
<1>2. /\ Len(SubSeq(s, 1, n)) = IF 1 <= n THEN n - 1 + 1 ELSE 0
      /\ \A i \in 1 .. n - 1 + 1 : SubSeq(s, 1, n)[i] = s[1 + i - 1]
  BY <1>1, SubSeqProperties
<1>3. (IF 1 <= n THEN n - 1 + 1 ELSE 0) = n
  OBVIOUS
<1>4. ASSUME NEW i \in 1 .. n PROVE SubSeq(s, 1, n)[i] = s[i]
  <2>1. i \in 1 .. n - 1 + 1 /\ 1 + i - 1 = i
    OBVIOUS
  <2> QED
    BY <1>2, <2>1, Zenon
<1> QED
  BY <1>2, <1>3, <1>4, Zenon

LEMMA CommaSpelled ==
  ASSUME SpellingInv, Comma, Remember
  PROVE  SpellingInv'
<1>0. Inv'
  BY CommaKeeps DEF SpellingInv
<1>1. /\ InContainer /\ tokens[current + 1] = "COMMA" /\ current' = current + 1
      /\ tokens' = tokens /\ stack' = stack /\ key' = 0 /\ result' = 0
      /\ current \in Nat /\ stack # <<>> /\ point = "returned"
      /\ point' = IF Inner.type = "object" THEN "key" ELSE "value"
  BY DEF Comma, Match, Advance, InContainer, At, SpellingInv, Inv, TypeOK
<1>2. PICK c : c = Top.at
  OBVIOUS
<1>3. c \in DOMAIN values /\ c \in OpenContainers /\ Inner = values[c] /\ values[c] \in ValueTypes
  BY <1>1, <1>2, Innermost, EntryTypes DEF Inner
<1>4. /\ DOMAIN values' = DOMAIN values
      /\ \A at \in DOMAIN values : at # c => values'[at] = values[at]
      /\ values'[c] = Grown(Stored)
  <2>1. values' = With(c, Grown(Stored))
    BY <1>2 DEF Comma
  <2> QED
    BY <1>3, <2>1 DEF With
<1>5. /\ values'[c].type = values[c].type
      /\ values'[c].entries = Append(values[c].entries, [key |-> key, value |-> result])
  BY <1>3, <1>4 DEF Grown, Stored, ValueTypes
<1>6. last' = last
  BY <1>1 DEF Remember
<1>7. EndsKept
  BY <1>1, <1>6 DEF EndsKept
<1>8. HoldsItsEntries(c)' /\ NextEntryAt(c)' = current + 2
  BY <1>1, <1>2, <1>5, <1>7, StoredHolds
<1>9. IsBegun(c)'
  <2>1. PICK n : n = Len(values'[c].entries) + 1
    OBVIOUS
  <2>2. EntryAt(c, n)' = current + 2
    BY <1>8, <2>1 DEF NextEntryAt
  <2>3. IsSeparated(c, n)'
    BY <1>1, <2>2 DEF IsSeparated
  <2> QED
    BY <1>8, <2>1, <2>3 DEF IsBegun
<1>10. /\ \A at \in OpenContainers' : IsBegun(at)'
       /\ \A i \in 1 .. Len(stack') : IsNested(i)'
       /\ \A at \in DOMAIN last' : IsSpelled(at)'
  <2>1. /\ \A at \in OpenContainers' : at # c => IsBegun(at)'
        /\ \A i \in 1 .. Len(stack') : IsNested(i)'
        /\ \A at \in DOMAIN last : IsSpelled(at)'
    BY <1>1, <1>2, <1>4, <1>7, OuterContainers
  <2> QED
    BY <1>6, <1>9, <2>1
<1>11. IsWithin(Top.at)'
  <2>1. Top'.at = c
    BY <1>1, <1>2 DEF Top
  <2>2. current' + 1 = current + 2
    BY <1>1
  <2>3. CASE values[c].type = "object"
    <3>1. point' = "key" /\ values'[c].type = "object"
      BY <1>1, <1>3, <1>5, <2>3
    <3>2. IsWithin(c)'
      BY <1>8, <2>2, <3>1 DEF IsWithin
    <3> QED
      BY <2>1, <3>2
  <2>4. CASE values[c].type # "object"
    <3>1. point' = "value" /\ values'[c].type # "object"
      BY <1>1, <1>3, <1>5, <2>4
    <3>2. IsWithin(c)'
      BY <1>1, <1>8, <2>2, <3>1 DEF IsWithin, IsEntry
    <3> QED
      BY <2>1, <3>2
  <2> QED
    BY <2>3, <2>4
<1>12. TreeSpellsTheTokens'
  BY <1>1, <1>10, <1>11 DEF TreeSpellsTheTokens
<1>13. LastType'
  <2>1. \A at \in DOMAIN last : last[at] \in 1 .. current'
    BY <1>1 DEF SpellingInv, LastType
  <2> QED
    BY <1>1, <1>4, <1>6, <2>1 DEF SpellingInv, LastType, OpenContainers
<1> QED
  BY <1>0, <1>1, <1>12, <1>13 DEF SpellingInv

\* A container that ends at the next token becomes the value that has been returned.
LEMMA FinishSpelled ==
  ASSUME SpellingInv, Inv', Remember, Finish, stack # <<>>, NEW c, c = Top.at,
         tokens' = tokens, DOMAIN values' = DOMAIN values,
         \A at \in DOMAIN values : at # c => values'[at] = values[at],
         EndsKept => /\ HoldsItsEntries(c)'
                     /\ NextEntryAt(c)' = current + (IF values'[c].entries = <<>> THEN 1 ELSE 2),
         tokens[current + 1] = ClosingOf(values'[c].type)
  PROVE  SpellingInv'
<1>1. /\ current' = current + 1 /\ current \in Nat /\ stack' = SubSeq(stack, 1, Len(stack) - 1)
      /\ key' = Top.key /\ result' = c /\ point' = "returned"
  BY DEF Finish, Advance, Pop, SpellingInv, Inv, TypeOK
<1>2. /\ Len(stack) \in Nat \ {0} /\ c \in DOMAIN values /\ c \in OpenContainers
      /\ c \in 1 .. current /\ c \notin DOMAIN last
  BY Innermost DEF SpellingInv, LastType
<1>3. /\ Len(stack') = Len(stack) - 1 /\ \A i \in 1 .. Len(stack') : stack'[i] = stack[i]
      /\ (stack' = <<>> <=> Len(stack) = 1)
  <2>1. stack \in Seq(FrameTypes) /\ stack' \in Seq(FrameTypes')
    BY DEF SpellingInv, Inv, TypeOK
  <2>0. Len(stack) - 1 \in Nat
    BY <1>2
  <2>2. PICK n \in Nat : n = Len(stack) - 1
    BY <2>0
  <2>3. Len(stack') = n /\ \A i \in 1 .. n : stack'[i] = stack[i]
    BY <1>1, <1>2, <2>1, <2>2, Popped
  <2>4. stack' = <<>> <=> n = 0
    BY <2>1, <2>3
  <2> QED
    BY <1>2, <2>2, <2>3, <2>4
<1>4. /\ DOMAIN last' = DOMAIN last \cup {c} /\ last'[c] = current + 1
      /\ \A at \in DOMAIN last : last'[at] = last[at]
  <2>1. last' = [at \in DOMAIN last \cup {c} |-> IF at = c THEN current + 1 ELSE last[at]]
    BY <1>1, <1>2 DEF Remember
  <2> QED
    BY <1>2, <2>1
<1>5. EndsKept
  BY <1>4 DEF EndsKept
<1>6. IsSpelled(c)'
  <2>1. HoldsItsEntries(c)'
    BY <1>5
  <2>2. values'[c].type \notin ScalarTypes
    BY <2>1 DEF HoldsItsEntries
  <2>3. last'[c] = NextEntryAt(c)' - (IF values'[c].entries = <<>> THEN 0 ELSE 1)
    BY <1>1, <1>4, <1>5
  <2>4. tokens'[last'[c]] = ClosingOf(values'[c].type)
    BY <1>4
  <2> QED
    BY <2>1, <2>2, <2>3, <2>4 DEF IsSpelled
<1>7. /\ \A at \in OpenContainers' : at # c => at \in OpenContainers /\ IsBegun(at)'
      /\ \A i \in 1 .. Len(stack') : IsNested(i)'
      /\ \A at \in DOMAIN last : IsSpelled(at)'
      /\ \A i \in 1 .. Len(stack) - 1 : stack[i].at # c
  BY <1>3, <1>5, OuterContainers
<1>8. c \notin OpenContainers'
  BY <1>3, <1>7 DEF OpenContainers
<1>9. LastType'
  <2>1. \A at \in DOMAIN last' : last'[at] \in 1 .. current'
    BY <1>1, <1>2, <1>4 DEF SpellingInv, LastType
  <2>2. \A at \in OpenContainers' : at \notin DOMAIN last'
    BY <1>4, <1>7, <1>8 DEF SpellingInv, LastType
  <2> QED
    BY <1>2, <1>4, <2>1, <2>2 DEF SpellingInv, LastType
<1>10. CASE Len(stack) = 1
  <2>1. c = 1 /\ key' = 0
    <3>1. IsNested(1) /\ Top = stack[1]
      BY <1>10 DEF SpellingInv, TreeSpellsTheTokens, Top
    <3> QED
      BY <1>1, <3>1 DEF IsNested
  <2>2. TreeSpellsTheTokens'
    BY <1>1, <1>3, <1>4, <1>6, <1>7, <1>8, <1>10, <2>1 DEF TreeSpellsTheTokens
  <2> QED
    BY <1>1, <1>9, <2>1, <2>2 DEF SpellingInv
<1>11. CASE Len(stack) # 1
  <2>1. PICK i : i = Len(stack) - 1
    OBVIOUS
  <2>2. i \in 1 .. Len(stack) /\ i \in 1 .. Len(stack') /\ i + 1 \in 1 .. Len(stack) /\ i + 1 # 1
        /\ (i + 1) - 1 = i /\ i + 1 = Len(stack)
    BY <1>2, <1>3, <1>11, <2>1
  <2>3. PICK d : d = stack[i].at
    OBVIOUS
  <2>4. PICK k : k = Top.key
    OBVIOUS
  <2>5. Top'.at = d
    BY <1>3, <2>1, <2>2, <2>3 DEF Top
  <2>6. d \in DOMAIN values /\ d # c /\ HoldsItsEntries(d)
    BY <1>2, <1>7, <2>1, <2>2, <2>3, Frames DEF SpellingInv, TreeSpellsTheTokens, OpenContainers,
      IsBegun
  <2>7. IsEntry(d, k, c, NextEntryAt(d))
    <3>1. IsNested(i + 1)
      BY <2>2 DEF SpellingInv, TreeSpellsTheTokens
    <3> QED
      BY <2>2, <2>3, <2>4, <3>1 DEF IsNested, Top
  <2>8. NextEntryAt(d)' = NextEntryAt(d)
    BY <1>5, <2>6, HoldsKept
  <2>9. IsEntry(d, k, c, NextEntryAt(d))'
    BY <2>6, <2>7, <2>8 DEF IsEntry
  <2>10. IsWithin(d)'
    BY <1>1, <2>4, <2>9 DEF IsWithin, IsEntry
  <2>11. TreeSpellsTheTokens'
    BY <1>1, <1>3, <1>4, <1>6, <1>7, <1>8, <1>11, <2>5, <2>10 DEF TreeSpellsTheTokens
  <2> QED
    BY <1>1, <1>3, <1>9, <1>11, <2>11 DEF SpellingInv
<1> QED
  BY <1>10, <1>11

LEMMA CloseSpelled ==
  ASSUME SpellingInv, Close, Remember
  PROVE  SpellingInv'
<1>0. Inv'
  BY CloseKeeps DEF SpellingInv
<1>1. /\ InContainer /\ tokens[current + 1] = ClosingOf(Inner.type) /\ Finish
      /\ tokens' = tokens /\ stack # <<>> /\ current \in Nat
  BY DEF Close, Match, Finish, InContainer, SpellingInv, Inv, TypeOK
<1>2. PICK c : c = Top.at
  OBVIOUS
<1>3. c \in DOMAIN values /\ Inner = values[c] /\ values[c] \in ValueTypes
  BY <1>1, <1>2, Innermost, EntryTypes DEF Inner
<1>4. /\ DOMAIN values' = DOMAIN values
      /\ \A at \in DOMAIN values : at # c => values'[at] = values[at]
      /\ values'[c] = Stored
  <2>1. values' = With(c, Stored)
    BY <1>2 DEF Close
  <2> QED
    BY <1>3, <2>1 DEF With
<1>5. /\ values'[c].type = values[c].type
      /\ values'[c].entries = Append(values[c].entries, [key |-> key, value |-> result])
  BY <1>3, <1>4 DEF Stored, ValueTypes
<1>6. ASSUME EndsKept
      PROVE  /\ HoldsItsEntries(c)'
             /\ NextEntryAt(c)' = current + (IF values'[c].entries = <<>> THEN 1 ELSE 2)
  BY <1>1, <1>2, <1>5, <1>6, StoredHolds
<1> QED
  BY <1>0, <1>1, <1>2, <1>3, <1>4, <1>5, <1>6, FinishSpelled

LEMMA EmptyArraySpelled ==
  ASSUME SpellingInv, EmptyArray, Remember
  PROVE  SpellingInv'
<1>0. Inv'
  BY EmptyArrayKeeps DEF SpellingInv
<1>1. /\ tokens[current + 1] = "RBRACKET" /\ Finish /\ values' = values /\ point = "bracket"
      /\ tokens' = tokens /\ stack # <<>> /\ current \in Nat
  BY DEF EmptyArray, At, Match, Finish, SpellingInv, Inv, TypeOK
<1>2. PICK c : c = Top.at
  OBVIOUS
<1>3. /\ c \in DOMAIN values /\ HoldsItsEntries(c)
      /\ values[c].type = "array" /\ values[c].entries = <<>> /\ NextEntryAt(c) = current + 1
  BY <1>1, <1>2, Innermost DEF IsWithin, IsEntry
<1>4. ASSUME EndsKept
      PROVE  /\ HoldsItsEntries(c)'
             /\ NextEntryAt(c)' = current + (IF values'[c].entries = <<>> THEN 1 ELSE 2)
  BY <1>1, <1>3, <1>4, HoldsKept
<1>5. tokens[current + 1] = ClosingOf(values'[c].type)
  BY <1>1, <1>3 DEF ClosingOf
<1> QED
  BY <1>0, <1>1, <1>2, <1>4, <1>5, FinishSpelled

LEMMA SpellingInductive == SpellingInv /\ [SpellingNext]_<<vars, last>> => SpellingInv'
<1> SUFFICES ASSUME SpellingInv, [SpellingNext]_<<vars, last>> PROVE SpellingInv'
  OBVIOUS
<1>1. CASE SpellingNext
  <2>1. Remember /\ Next /\ Inv'
    BY <1>1, Inductive DEF SpellingNext, SpellingInv
  <2>2. CASE OpenObject
    <3>1. Match(OpeningOf("object")) /\ point' = IF "object" = "object" THEN "key" ELSE "bracket"
      BY <2>2 DEF OpenObject, OpeningOf
    <3> QED
      BY <2>1, <2>2, <3>1, OpenSpelled DEF OpenObject, At
  <2>3. CASE OpenArray
    <3>1. Match(OpeningOf("array")) /\ point' = IF "array" = "object" THEN "key" ELSE "bracket"
      BY <2>3 DEF OpenArray, OpeningOf
    <3> QED
      BY <2>1, <2>3, <3>1, OpenSpelled DEF OpenArray, At
  <2>4. CASE Accept \/ Unexpected \/ OutOfBounds
    BY <2>1, <2>4, StopSpelled DEF Accept, Unexpected, OutOfBounds
  <2> QED
    BY <2>1, <2>2, <2>3, <2>4, ScalarSpelled, EmptyArraySpelled, FirstElementSpelled, KeySpelled,
       ColonSpelled, CommaSpelled, CloseSpelled DEF Next
<1>2. CASE UNCHANGED <<vars, last>>
  BY <1>2, Inductive, StopSpelled DEF vars, SpellingInv
<1> QED
  BY <1>1, <1>2

\* For every document, sound or not, and however deep its containers are, the tree that
\* has been built is the text that has been read (parseValue, parseObject, parseArray,
\* parsePair).
THEOREM TreeIsTheText == SpellingSpec => []TreeSpellsTheTokens
<1>1. SpellingInv => TreeSpellsTheTokens
  BY DEF SpellingInv
<1> QED
  BY <1>1, SpellingInitially, SpellingInductive, PTL DEF SpellingSpec

-----------------------------------------------------------------------------
(***************************************************************************)
(* What has been opened is closed or is on the stack.                      *)
(***************************************************************************)

OpeningTypes == {"LBRACE", "LBRACKET"}
ClosingTypes == {"RBRACE", "RBRACKET"}

\* How many of the first n tokens are of the types.
Taken(types, n) == {p \in 1 .. n : tokens[p] \in types}

Balanced ==
  Cardinality(Taken(OpeningTypes, current)) = Cardinality(Taken(ClosingTypes, current)) + Len(stack)

LEMMA TakenNext ==
  ASSUME NEW types, NEW n \in Nat
  PROVE  /\ IsFiniteSet(Taken(types, n)) /\ Cardinality(Taken(types, n)) \in Nat
         /\ Cardinality(Taken(types, n + 1)) =
              Cardinality(Taken(types, n)) + (IF tokens[n + 1] \in types THEN 1 ELSE 0)
<1>1. IsFiniteSet(1 .. n)
  BY FS_Interval
<1>2. IsFiniteSet(Taken(types, n))
  BY <1>1, FS_Subset DEF Taken
<1>3. Cardinality(Taken(types, n)) \in Nat
  BY <1>2, FS_CardinalityType
<1>4. 1 .. n + 1 = (1 .. n) \cup {n + 1} /\ n + 1 \notin 1 .. n
  OBVIOUS
<1>5. CASE tokens[n + 1] \in types
  <2>1. Taken(types, n + 1) = Taken(types, n) \cup {n + 1} /\ n + 1 \notin Taken(types, n)
    BY <1>4, <1>5 DEF Taken
  <2>2. Cardinality(Taken(types, n + 1)) = Cardinality(Taken(types, n)) + 1
    BY <1>2, <2>1, FS_AddElement
  <2> QED
    BY <1>2, <1>3, <1>5, <2>2
<1>6. CASE tokens[n + 1] \notin types
  <2>1. Taken(types, n + 1) = Taken(types, n)
    BY <1>4, <1>6 DEF Taken
  <2> QED
    BY <1>2, <1>3, <1>6, <2>1
<1> QED
  BY <1>5, <1>6

LEMMA BalancedInitially == current = 0 /\ stack = <<>> => Balanced
<1>1. Taken(OpeningTypes, 0) = {} /\ Taken(ClosingTypes, 0) = {}
  BY DEF Taken
<1>2. Cardinality({}) = 0
  BY FS_EmptySet
<1>3. ASSUME current = 0, stack = <<>> PROVE Balanced
  <2>1. Cardinality(Taken(OpeningTypes, current)) = 0 /\ Cardinality(Taken(ClosingTypes, current)) = 0
    BY <1>1, <1>2, <1>3
  <2>2. Len(stack) = 0
    BY <1>3
  <2> QED
    BY <2>1, <2>2 DEF Balanced
<1> QED
  BY <1>3

\* A token is taken that opens, closes, or does neither.
LEMMA BalancedStep ==
  ASSUME Inv, Balanced, UNCHANGED tokens, current' = current + 1,
         NEW type, type = tokens[current + 1], NEW d \in Nat, d = Len(stack),
         NEW e \in Nat, e = Len(stack'),
         \/ type \in OpeningTypes /\ e = d + 1
         \/ type \in ClosingTypes /\ d = e + 1
         \/ type \notin OpeningTypes \cup ClosingTypes /\ d = e
  PROVE  Balanced'
<1>1. PICK c \in Nat : c = current
  BY DEF Inv, TypeOK
<1>2. PICK opened \in Nat, closed \in Nat :
        /\ opened = Cardinality(Taken(OpeningTypes, c))
        /\ closed = Cardinality(Taken(ClosingTypes, c))
  BY TakenNext
<1>3. opened = closed + d
  BY <1>1, <1>2 DEF Balanced
<1>4. /\ Cardinality(Taken(OpeningTypes, c + 1)) =
           opened + (IF type \in OpeningTypes THEN 1 ELSE 0)
      /\ Cardinality(Taken(ClosingTypes, c + 1)) =
           closed + (IF type \in ClosingTypes THEN 1 ELSE 0)
  BY <1>1, <1>2, TakenNext
<1>5. Cardinality(Taken(OpeningTypes, c + 1)) = Cardinality(Taken(ClosingTypes, c + 1)) + e
  <2>1. CASE type \in OpeningTypes /\ e = d + 1
    <3>1. type \notin ClosingTypes
      BY <2>1 DEF OpeningTypes, ClosingTypes
    <3>2. /\ Cardinality(Taken(OpeningTypes, c + 1)) = opened + 1
          /\ Cardinality(Taken(ClosingTypes, c + 1)) = closed + 0
      BY <1>4, <2>1, <3>1
    <3> QED
      BY <1>2, <1>3, <2>1, <3>2
  <2>2. CASE type \in ClosingTypes /\ d = e + 1
    <3>1. type \notin OpeningTypes
      BY <2>2 DEF OpeningTypes, ClosingTypes
    <3>2. /\ Cardinality(Taken(OpeningTypes, c + 1)) = opened + 0
          /\ Cardinality(Taken(ClosingTypes, c + 1)) = closed + 1
      BY <1>4, <2>2, <3>1
    <3> QED
      BY <1>2, <1>3, <2>2, <3>2
  <2>3. CASE type \notin OpeningTypes \cup ClosingTypes /\ d = e
    <3>1. /\ Cardinality(Taken(OpeningTypes, c + 1)) = opened + 0
          /\ Cardinality(Taken(ClosingTypes, c + 1)) = closed + 0
      BY <1>4, <2>3
    <3> QED
      BY <1>2, <1>3, <2>3, <3>1
  <2> QED
    BY <2>1, <2>2, <2>3
<1>6. \A types : Taken(types, current)' = Taken(types, c + 1)
  BY <1>1 DEF Taken
<1> QED
  BY <1>5, <1>6 DEF Balanced

LEMMA BalancedKept == Inv /\ Balanced /\ [Next]_vars => Balanced'
<1> SUFFICES ASSUME Inv, Balanced, [Next]_vars PROVE Balanced'
  OBVIOUS
<1>0. stack \in Seq(FrameTypes) /\ current \in Nat
  BY DEF Inv, TypeOK
<1>1. CASE OpenObject \/ OpenArray
  <2>1. /\ tokens[current + 1] \in OpeningTypes /\ UNCHANGED tokens /\ current' = current + 1
        /\ stack' = Append(stack, [at |-> current + 1, key |-> key])
    BY <1>1 DEF OpenObject, OpenArray, Open, Advance, Match, OpeningTypes
  <2>2. PICK d \in Nat, e \in Nat : d = Len(stack) /\ e = Len(stack') /\ e = d + 1
    BY <1>0, <2>1
  <2> QED
    BY <2>1, <2>2, BalancedStep
<1>2. CASE EmptyArray \/ Close
  <2>1. /\ tokens[current + 1] \in ClosingTypes /\ UNCHANGED tokens /\ current' = current + 1
        /\ stack' = Pop
    BY <1>2 DEF EmptyArray, Close, ClosingOf, Finish, Advance, Match, ClosingTypes
  <2>2. stack # <<>>
    BY <1>2 DEF EmptyArray, Close, InContainer, Inv, TypeOK, Points, At
  <2>3. PICK d \in Nat, e \in Nat : d = Len(stack) /\ e = Len(stack') /\ d = e + 1
    <3>1. PICK d \in Nat : d = Len(stack) /\ d # 0
      BY <1>0, <2>2, EmptySeq
    <3>2. Len(SubSeq(stack, 1, d - 1)) = d - 1
      BY <1>0, <3>1
    <3> QED
      BY <2>1, <3>1, <3>2 DEF Pop
  <2> QED
    BY <2>1, <2>3, BalancedStep
<1>3. CASE ReadScalar \/ ReadKey \/ ReadColon \/ Comma
  <2>1. /\ tokens[current + 1] \in ScalarTypes \cup {"STRING", "COLON", "COMMA"}
        /\ UNCHANGED <<tokens, stack>> /\ current' = current + 1
    BY <1>3 DEF ReadScalar, ReadKey, ReadColon, Comma, Advance, Match, ScalarTypes
  <2>2. tokens[current + 1] \notin OpeningTypes \cup ClosingTypes
    BY <2>1 DEF OpeningTypes, ClosingTypes, ScalarTypes
  <2>3. PICK d \in Nat : d = Len(stack) /\ d = Len(stack')
    BY <1>0, <2>1
  <2> QED
    BY <2>1, <2>2, <2>3, BalancedStep
<1>4. CASE FirstElement \/ Accept \/ Unexpected \/ OutOfBounds \/ UNCHANGED vars
  <2>1. UNCHANGED <<tokens, current, stack>>
    BY <1>4 DEF FirstElement, Accept, Unexpected, OutOfBounds, vars
  <2> QED
    BY <2>1 DEF Balanced, Taken
<1> QED
  BY <1>1, <1>2, <1>3, <1>4 DEF Next
\* Where whatever is closed has been opened so many tokens before, behind the first
\* brace, that brace is never closed: as many would have been closed as opened.
LEMMA NeverClosed ==
  ASSUME Inv, Balanced, Len(tokens) # 0 => tokens[1] = "LBRACE", NEW d \in Nat,
         \A p \in 1 .. Len(tokens) :
           tokens[p] \in ClosingTypes => p > d + 1 /\ tokens[p - d] = "LBRACE"
  PROVE  ~(point = "returned" /\ stack = <<>>)
<1> SUFFICES ASSUME point = "returned", stack = <<>> PROVE FALSE
  OBVIOUS
<1> DEFINE opening == Taken(OpeningTypes, current)
           closing == Taken(ClosingTypes, current)
<1>1. PICK c \in Nat : c = current /\ c >= 1 /\ c <= Len(tokens) /\ Len(tokens) \in Nat
  <2>1. tokens \in Seq(TokenTypes) /\ current \in 0 .. Len(tokens) /\ Len(tokens) \in Nat
        /\ result \in 1 .. current
    BY DEF Inv, TypeOK
  <2> QED
    BY <2>1
<1>2. /\ IsFiniteSet(opening) /\ Cardinality(opening) \in Nat
      /\ IsFiniteSet(closing) /\ Cardinality(closing) \in Nat
  BY <1>1, TakenNext
<1>3. Cardinality(opening) = Cardinality(closing)
  BY <1>2 DEF Balanced
<1>4. 1 \in opening
  BY <1>1 DEF Taken, OpeningTypes
<1>5. IsFiniteSet(opening \ {1}) /\ Cardinality(opening \ {1}) < Cardinality(closing)
  <2>1. IsFiniteSet(opening \ {1}) /\ Cardinality(opening \ {1}) = Cardinality(opening) - 1
    BY <1>2, <1>4, FS_RemoveElement
  <2> QED
    BY <1>2, <1>3, <2>1
<1> DEFINE opened == [p \in closing |-> p - d]
<1>6. opened \in [closing -> opening \ {1}]
  <2> SUFFICES ASSUME NEW p \in closing PROVE p - d \in opening /\ p - d # 1
    OBVIOUS
  <2>1. p \in 1 .. c /\ p \in 1 .. Len(tokens) /\ tokens[p] \in ClosingTypes
    BY <1>1 DEF Taken
  <2>2. p > d + 1 /\ tokens[p - d] = "LBRACE"
    BY <2>1
  <2>3. p - d \in 1 .. c /\ p - d # 1
    BY <1>1, <2>1, <2>2
  <2> QED
    BY <1>1, <2>2, <2>3 DEF Taken, OpeningTypes
<1>7. PICK p \in closing, q \in closing : p # q /\ opened[p] = opened[q]
  <2> HIDE DEF opening, closing, opened
  <2> QED
    BY <1>2, <1>5, <1>6, FS_PigeonHole
<1>8. p \in 1 .. c /\ q \in 1 .. c /\ p - d = q - d
  BY <1>1, <1>7 DEF Taken
<1> QED
  BY <1>7, <1>8
=============================================================================
