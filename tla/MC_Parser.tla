----------------------------- MODULE MC_Parser -----------------------------
(***************************************************************************)
(* The parser over small documents, over documents that are cut short or   *)
(* followed by more, and over every short sequence of tokens.              *)
(***************************************************************************)
EXTENDS Parser_spelling, SequencesExt

CONSTANTS MaxTokens  \* the length of the arbitrary sequences

\* Texts of a container of the given members, each of them a sequence of tokens.
Listed(opening, members, closing) ==
  <<opening>> \o FlattenSeq([i \in 1 .. 2 * Len(members) - 1 |->
    IF i % 2 = 0 THEN <<"COMMA">> ELSE members[(i + 1) \div 2]]) \o <<closing>>

Pair(value) == <<"STRING", "COLON">> \o value

Arrays(lists) == {Listed("LBRACKET", l, "RBRACKET") : l \in lists}
Objects(lists) ==
  {Listed("LBRACE", [i \in 1 .. Len(l) |-> Pair(l[i])], "RBRACE") : l \in lists}

Lists(members, n) == UNION {[1 .. k -> members] : k \in 1 .. n}

\* The language of the parser, two containers deep: JSON without the empty object.
Leaves == {<<"NUMBER">>, <<"STRING">>, <<"LBRACKET", "RBRACKET">>}
Shallow == Leaves \cup Arrays(Lists(Leaves, 2)) \cup Objects(Lists(Leaves, 1))
Nested == Arrays(Lists(Shallow, 2)) \cup Objects(Lists(Shallow, 2))
Long == Arrays([1 .. 5 -> {<<"NUMBER">>}]) \cup Objects([1 .. 5 -> {<<"NUMBER">>}])
Language == Leaves \cup Nested \cup Long

CutShort == {Front(text) : text \in Language}
FollowedByMore == {Append(text, type) : text \in Shallow, type \in {"COMMA", "RBRACE", "NUMBER"}}
MCDocuments ==
  Language \cup CutShort \cup FollowedByMore \cup BoundedSeq(TokenTypes, MaxTokens)

-----------------------------------------------------------------------------

\* A document that begins with a value of the language is accepted, whatever comes
\* after the value: no comma, bracket or depth makes the parser give up.
DocumentsAccepted ==
  (\E text \in Language : IsPrefix(text, tokens)) => <>(status = "accepted")
=============================================================================
