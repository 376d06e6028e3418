------------------------------- MODULE Parser -------------------------------
(***************************************************************************)
(* The recursive descent parser of haversine-distance/json_parser/parser.  *)
(* The calls of parseObject and parseArray that have not returned are a    *)
(* stack of frames; an action is what the code does from one token to the  *)
(* next.                                                                   *)
(*                                                                         *)
(* A token is its type.  What the code allocates is in "values", under the *)
(* number of the token it begins at, which stands for the pointer and, in  *)
(* a scalar, for the text.  An allocation does not fail.                   *)
(***************************************************************************)
EXTENDS Integers, Sequences

CONSTANTS
  Documents,       \* what the lexer hands over, as sequences of token types
  InitialCapacity  \* 32 in the code, of objects and of arrays

TokenTypes ==
  {"LBRACE", "RBRACE", "LBRACKET", "RBRACKET", "COLON", "COMMA", "STRING", "NUMBER",
   "TRUE", "FALSE", "NULL"}

ScalarTypes == {"NUMBER", "STRING", "TRUE", "FALSE", "NULL"}

ASSUME Capacity == InitialCapacity \in Nat \ {0}

ASSUME DocumentsType == Documents \subseteq Seq(TokenTypes)

VARIABLES
  tokens,   \* parser->tokens up to parser->count
  current,  \* parser->current
  values,   \* the values allocated so far: type, entries and capacity
  stack,    \* the open containers, innermost last, each with its caller's key
  key,      \* the key parsePair has read for the innermost container, or 0
  result,   \* the value parseValue has just returned, or 0
  point,    \* where the innermost call is
  status    \* "parsing", "accepted", "exited": exit(1), or "undefined": a token
            \* past the last, or an entry past the capacity, has been used

vars == <<tokens, current, values, stack, key, result, point, status>>

\* parseValue at a value, parseArray after its bracket, parsePair at a key and
\* at a colon, and either container with a value that has just been returned.
Points == {"value", "bracket", "key", "colon", "returned"}

Begin(document) ==
  /\ tokens = document
  /\ current = 0
  /\ values = [at \in {} |-> {}]
  /\ stack = <<>>
  /\ key = 0
  /\ result = 0
  /\ point = "value"
  /\ status = "parsing"

Init == \E document \in Documents : Begin(document)

-----------------------------------------------------------------------------

\* match(parser, type), for a token there is.
Match(type) == current < Len(tokens) /\ tokens[current + 1] = type

Advance == current' = current + 1

At(p) == status = "parsing" /\ point = p

Top == stack[Len(stack)]
Pop == SubSeq(stack, 1, Len(stack) - 1)

\* The container the innermost call fills.
Inner == values[Top.at]

Value(type, entries, capacity) == [type |-> type, entries |-> entries, capacity |-> capacity]

\* The value that begins at token "at" is allocated, or becomes v.
With(at, v) == [a \in DOMAIN values \cup {at} |-> IF a = at THEN v ELSE values[a]]

\* Slip: the bracket is matched and not advanced over.
StandingOpen(type) ==
  /\ UNCHANGED current
  /\ values' = With(current + 1, Value(type, <<>>, InitialCapacity))
  /\ stack' = Append(stack, [at |-> current + 1, key |-> key])
  /\ key' = 0

\* parseObject and parseArray up to their first entry.
Open(type) ==
  /\ Advance
  /\ values' = With(current + 1, Value(type, <<>>, InitialCapacity))
  /\ stack' = Append(stack, [at |-> current + 1, key |-> key])
  /\ key' = 0

OpenObject ==
  /\ At("value") /\ Match("LBRACE")
  /\ Open("object")
  /\ point' = "key"
  /\ UNCHANGED <<tokens, result, status>>

OpenArray ==
  /\ At("value") /\ Match("LBRACKET")
  /\ Open("array")
  /\ point' = "bracket"
  /\ UNCHANGED <<tokens, result, status>>

ReadScalar ==
  /\ At("value")
  /\ \E type \in ScalarTypes :
       Match(type) /\ values' = With(current + 1, Value(type, <<>>, 0))
  /\ Advance
  /\ result' = current + 1
  /\ point' = "returned"
  /\ UNCHANGED <<tokens, stack, key, status>>

\* Slip: the key is one variable for all the calls of parsePair.
SharedKeyFinish ==
  /\ Advance
  /\ stack' = Pop
  /\ key' = key
  /\ result' = Top.at
  /\ point' = "returned"
  /\ UNCHANGED <<tokens, status>>

\* The innermost container is complete and is returned to the call around it.
Finish ==
  /\ Advance
  /\ stack' = Pop
  /\ key' = Top.key
  /\ result' = Top.at
  /\ point' = "returned"
  /\ UNCHANGED <<tokens, status>>

\* Only arrays may be empty.
EmptyArray == At("bracket") /\ Match("RBRACKET") /\ Finish /\ UNCHANGED values

\* Slip: an array is taken to have an element.
HastyFirstElement ==
  /\ At("bracket") /\ current < Len(tokens)
  /\ point' = "value"
  /\ UNCHANGED <<tokens, current, values, stack, key, result, status>>

FirstElement ==
  /\ At("bracket") /\ current < Len(tokens) /\ ~Match("RBRACKET")
  /\ point' = "value"
  /\ UNCHANGED <<tokens, current, values, stack, key, result, status>>

ReadKey ==
  /\ At("key") /\ Match("STRING")
  /\ Advance
  /\ key' = current + 1
  /\ point' = "colon"
  /\ UNCHANGED <<tokens, values, stack, result, status>>

ReadColon ==
  /\ At("colon") /\ Match("COLON")
  /\ Advance
  /\ point' = "value"
  /\ UNCHANGED <<tokens, values, stack, key, result, status>>

\* entries[count++] = parsePair(parser), items[count++] = parseValue(parser).
Stored == [Inner EXCEPT !.entries = Append(@, [key |-> key, value |-> result])]

HasRoom(container) == Len(container.entries) < container.capacity

\* Slip: the container is grown one entry late.
LateGrown(container) ==
  [container EXCEPT !.capacity = IF @ < Len(container.entries) THEN 2 * @ ELSE @]

\* After a comma the container is grown, for the entry that is to come.
Grown(container) ==
  [container EXCEPT !.capacity = IF @ = Len(container.entries) THEN 2 * @ ELSE @]

ClosingOf(type) == IF type = "object" THEN "RBRACE" ELSE "RBRACKET"

\* A value has been returned to a container that can take it.
InContainer == At("returned") /\ stack # <<>> /\ HasRoom(Inner)

Comma ==
  /\ InContainer /\ Match("COMMA")
  /\ Advance
  /\ values' = With(Top.at, Grown(Stored))
  /\ key' = 0
  /\ result' = 0
  /\ point' = IF Inner.type = "object" THEN "key" ELSE "value"
  /\ UNCHANGED <<tokens, stack, status>>

Close ==
  /\ InContainer /\ Match(ClosingOf(Inner.type))
  /\ values' = With(Top.at, Stored)
  /\ Finish

\* The first call returns: what is left of the tokens is not looked at.
Accept ==
  /\ At("returned") /\ stack = <<>>
  /\ status' = "accepted"
  /\ UNCHANGED <<tokens, current, values, stack, key, result, point>>

\* The tokens the branches at this point take.
Expected ==
  CASE point = "value"    -> ScalarTypes \cup {"LBRACE", "LBRACKET"}
    [] point = "bracket"  -> TokenTypes
    [] point = "key"      -> {"STRING"}
    [] point = "colon"    -> {"COLON"}
    [] point = "returned" -> {"COMMA", ClosingOf(Inner.type)}

\* The first call has yet to return, and looks at a token.
InCall == status = "parsing" /\ (point = "returned" => stack # <<>>)

\* peek has no bound (parser->count is never read), nor has the store of an entry.
InBounds == current < Len(tokens) /\ (point = "returned" => HasRoom(Inner))

\* "Exit 1".
Unexpected ==
  /\ InCall /\ InBounds
  /\ tokens[current + 1] \notin Expected
  /\ status' = "exited"
  /\ UNCHANGED <<tokens, current, values, stack, key, result, point>>

OutOfBounds ==
  /\ InCall /\ ~InBounds
  /\ status' = "undefined"
  /\ UNCHANGED <<tokens, current, values, stack, key, result, point>>

Next ==
  \/ OpenObject \/ OpenArray \/ ReadScalar
  \/ EmptyArray \/ FirstElement \/ ReadKey \/ ReadColon
  \/ Comma \/ Close
  \/ Accept \/ Unexpected \/ OutOfBounds

Spec == Init /\ [][Next]_vars

\* One thread parses and nothing blocks it.
FairSpec == Spec /\ WF_vars(Next)

-----------------------------------------------------------------------------

Entries == [key : Nat, value : Nat \ {0}]

ValueTypes == [type : ScalarTypes \cup {"object", "array"}, entries : Seq(Entries), capacity : Nat]

FrameTypes == [at : DOMAIN values, key : Nat]

\* The variables have their types, the open containers are values, and each of
\* them begins after the one around it and before the next token.
TypeOK ==
  /\ tokens \in Seq(TokenTypes)
  /\ current \in 0 .. Len(tokens)
  /\ DOMAIN values \subseteq 1 .. current
  /\ values \in [DOMAIN values -> ValueTypes]
  /\ stack \in Seq(FrameTypes)
  /\ \A i, j \in 1 .. Len(stack) : i < j => stack[i].at < stack[j].at
  /\ key \in Nat
  /\ result \in {0} \cup DOMAIN values
  /\ point = "returned" => result # 0
  /\ point \in Points
  /\ point \in {"bracket", "key", "colon"} => stack # <<>>
  /\ status \in {"parsing", "accepted", "exited", "undefined"}

\* Every open container has room for the entry it is reading, however deep the
\* containers inside that entry are: the store after the call that reads it has no
\* check of its own, and the capacity was last looked at before the call.
RoomForTheEntry == \A i \in 1 .. Len(stack) : HasRoom(values[stack[i].at])

\* What is left to do: two steps for a token, one where parseArray looks at a token
\* without taking it, and one to end.
Left ==
  2 * (Len(tokens) - current) + (IF point = "bracket" THEN 1 ELSE 0)
    + (IF status = "parsing" THEN 1 ELSE 0)

\* The parser never goes around in circles: on any tokens, however the calls of
\* parseValue, parseObject, parseArray and parsePair nest, every step leaves less to do,
\* also where it is not a token that is taken (parseArray's peek for an empty array).
NearerToTheEnd == [][0 <= Left' /\ Left' < Left]_vars
=============================================================================
