-------------------------- MODULE Parser_spelling --------------------------
(***************************************************************************)
(* What the parser promises: the tree is the text.  An auxiliary variable, *)
(* which no step of the parser depends on, remembers where each value      *)
(* ended, so that the promise can be made of each value by itself.         *)
(***************************************************************************)
EXTENDS Parser

VARIABLE
  last  \* of each value that has been returned, its last token

\* A value ends where the parser stands when it is returned.
Remember ==
  last' = IF result' = 0 THEN last
          ELSE [at \in DOMAIN last \cup {result'} |->
                  IF at = result' THEN current' ELSE last[at]]

SpellingInit == Init /\ last = [at \in {} |-> 0]

SpellingNext == Next /\ Remember

SpellingSpec == SpellingInit /\ [][SpellingNext]_<<vars, last>>

FairSpellingSpec == SpellingSpec /\ WF_<<vars, last>>(SpellingNext)

-----------------------------------------------------------------------------

OpeningOf(type) == IF type = "object" THEN "LBRACE" ELSE "LBRACKET"

\* Where the n-th entry of the container begins: after the bracket, or after the comma
\* behind the entry before.
EntryAt(at, n) == IF n = 1 THEN at + 1 ELSE last[values[at].entries[n - 1].value] + 2

NextEntryAt(at) == EntryAt(at, Len(values[at].entries) + 1)

\* The token before the n-th entry.
IsSeparated(at, n) == n = 1 \/ tokens[EntryAt(at, n) - 1] = "COMMA"

\* The entry of the container that begins at the token has this key and this value.
IsEntry(at, k, value, from) ==
  IF values[at].type = "object"
  THEN k = from /\ tokens[k] = "STRING" /\ tokens[k + 1] = "COLON" /\ value = k + 2
  ELSE k = 0 /\ value = from

\* The container is its bracket and then its entries, in order and with commas between.
HoldsItsEntries(at) ==
  /\ values[at].type \notin ScalarTypes /\ tokens[at] = OpeningOf(values[at].type)
  /\ \A n \in 1 .. Len(values[at].entries) :
       LET entry == values[at].entries[n]
       IN /\ entry.value \in DOMAIN last
          /\ IsEntry(at, entry.key, entry.value, EntryAt(at, n))
          /\ IsSeparated(at, n)

\* A value that has been returned is the tokens from "at" to its last.
IsSpelled(at) ==
  IF values[at].type \in ScalarTypes
  THEN tokens[at] = values[at].type /\ last[at] = at
  ELSE /\ HoldsItsEntries(at)
       /\ last[at] = NextEntryAt(at) - (IF values[at].entries = <<>> THEN 0 ELSE 1)
       /\ tokens[last[at]] = ClosingOf(values[at].type)

OpenContainers == {stack[i].at : i \in 1 .. Len(stack)}

\* A container that is open is its tokens so far, with the comma before what comes next.
IsBegun(at) ==
  HoldsItsEntries(at) /\ IsSeparated(at, Len(values[at].entries) + 1)

\* An open container is the value of the next entry of the one around it, and the first
\* is the document.
IsNested(i) ==
  IF i = 1 THEN stack[i] = [at |-> 1, key |-> 0]
  ELSE IsEntry(stack[i - 1].at, stack[i].key, stack[i].at, NextEntryAt(stack[i - 1].at))

\* The key and the value the innermost container has read, or is about to, are those of
\* its next entry.
IsWithin(at) ==
  /\ point \in {"value", "bracket"} => IsEntry(at, key, current + 1, NextEntryAt(at))
  /\ point = "bracket" => values[at].type = "array" /\ values[at].entries = <<>>
  /\ point = "key" => values[at].type = "object" /\ NextEntryAt(at) = current + 1
  /\ point = "colon" =>
       /\ values[at].type = "object" /\ NextEntryAt(at) = current
       /\ key = current /\ tokens[current] = "STRING"
  /\ point = "returned" => IsEntry(at, key, result, NextEntryAt(at))

\* The tree the calls have built so far spells exactly the tokens they have taken,
\* in their order and with nothing lost, repeated or put under another key; so a
\* document that is accepted is its tree (parseValue, parseObject, parseArray).
TreeSpellsTheTokens ==
  /\ \A at \in DOMAIN last : IsSpelled(at)
  /\ \A at \in OpenContainers : IsBegun(at)
  /\ \A i \in 1 .. Len(stack) : IsNested(i)
  /\ stack # <<>> => IsWithin(Top.at)
  /\ stack = <<>> => IF point = "value" THEN current = 0 ELSE result = 1
  /\ point = "returned" => result \in DOMAIN last /\ last[result] = current
=============================================================================
