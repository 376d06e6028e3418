------------------------------ MODULE Roundtrip ------------------------------
(***************************************************************************)
(* haversine_distance_json_generator (Generator) writes its two files, and *)
(* then haversine_distance (Haversine) is run on them.                     *)
(*                                                                         *)
(* A degree is printed as as many ones as it has degrees, so that the      *)
(* texts of two degrees differ.                                            *)
(***************************************************************************)
EXTENDS Generator

CONSTANTS
  MaxPairsRead,  \* bound: larger files are not kept
  MinimumJSONPairEncoding, TokensCapacity, TokensGrowBy, ContainerCapacity, MaxTokens

\* The shortest text of a pair has 44 characters; what the reader takes for the shortest
\* has no more, and is 24 in the code.
ASSUME ShortEnough == MinimumJSONPairEncoding \in 1 .. 44

ASSUME ReaderSizes ==
  /\ TokensCapacity \in Nat \ {0} /\ TokensGrowBy \in Nat \ {0}
  /\ ContainerCapacity \in Nat \ {0} /\ MaxTokens \in Nat /\ MaxPairsRead \in Nat

VARIABLES
  file, pos, unread, lexed, capacity, lexing, current, values, stack, key, result, point,
  parsing, phase, input, room, pairs, answersRead, validation,   \* of Haversine
  distances   \* history: what ReferenceHaversine was called with for every answer

\* The reader's, but for the file.
readerVars ==
  <<pos, unread, lexed, capacity, lexing, current, values, stack, key, result, point,
    parsing, phase, input, room, pairs, answersRead, validation>>

\* The reader, with what is proved of it.
H == INSTANCE Haversine_proofs WITH
  answers <- answersRead, OtherSizes <- {}, Files <- {<<>>}, AnswersSizes <- {8 * (n + 1) : n \in PairCounts},
  Lexemes <- <<>>, Elements <- <<>>

roundtripVars == <<vars, file, readerVars, distances>>

RoundtripInit == Init /\ H!Init /\ distances = <<>>

-----------------------------------------------------------------------------
(***************************************************************************)
(* The text of the file.                                                   *)
(***************************************************************************)

Printed(degree) ==
  LET magnitude == IF degree < 0 THEN -degree ELSE degree IN
  (IF degree < 0 THEN <<"-">> ELSE <<>>)
    \o (IF magnitude = 0 THEN <<"0">> ELSE [k \in 1 .. magnitude |-> "1"]) \o <<".", "0">>

Keyed(name, text) == <<"\"">> \o name \o <<"\"">> \o <<":">> \o <<" ">> \o text

PairText(p) ==
  <<"{">> \o Keyed(<<"x", "0">>, Printed(p.x0) \o <<",">>) \o <<" ">>
          \o Keyed(<<"x", "1">>, Printed(p.x1) \o <<",">>) \o <<" ">>
          \o Keyed(<<"x", "0">>, Printed(p.y0) \o <<",">>) \o <<" ">>
          \o Keyed(<<"x", "1">>, Printed(p.y1) \o <<"}">>)

\* Of the newline the tokenizer makes a blank.
Text(part) ==
  CASE part = "head" -> <<"{">> \o Keyed(<<"x", "a", "x", "r", "s">>, <<"[">>) \o <<" ">>
    [] part = "pair" -> PairText(pair')
    [] part = "," -> <<",">> \o <<" ">>
    [] part = "tail" -> <<"]">> \o <<"}">>

\* Of the n-th part, if there is one.
PartText(n) == IF n <= Len(json') THEN Text(json'[n]) ELSE <<>>

\* Slip: the second point before the first.
SwappedCoordinates(p) == <<p.x1, p.x0, p.y1, p.y0>>

\* In this order: x0, x1, y0, y1.
Coordinates(p) == <<p.x0, p.x1, p.y0, p.y1>>

\* The parts there are more by a step: two at most.
Write ==
  /\ Next
  /\ IF pairCount <= MaxPairsRead
     THEN /\ file' = file \o PartText(Len(json) + 1) \o PartText(Len(json) + 2)
          /\ distances' = IF i' # i THEN Append(distances, Coordinates(pair')) ELSE distances
     ELSE UNCHANGED <<file, distances>>
  /\ UNCHANGED readerVars

\* The answers file is the one that was written, if it is given.
Read ==
  /\ status = "written" /\ pairCount <= MaxPairsRead
  /\ UNCHANGED <<vars, distances>>
  /\ H!Next
  /\ answersRead' \in {answersRead, 8 * answers}

RoundtripNext == Write \/ Read

RoundtripSpec == RoundtripInit /\ [][RoundtripNext]_roundtripVars

-----------------------------------------------------------------------------
(***************************************************************************)
(* Properties.                                                             *)
(***************************************************************************)

\* The arguments ReferenceHaversine was called with, as they are printed.
Sent == [n \in DOMAIN distances |-> [k \in 1 .. 4 |-> Printed(distances[n][k])]]

Outcome ==
  IF phase # "summed" THEN <<"none">>
  ELSE IF validation.verdict = "none" THEN <<"summed">>
  ELSE <<validation.verdict, validation.reference>>

T == INSTANCE Transfer WITH
  Item <- [1 .. 4 -> {Printed(degree) : degree \in Degrees}],
  sent <- Sent, closed <- status = "written", received <- pairs, outcome <- Outcome

\* What is summed is what the answers were computed from: the arguments of every
\* call of ReferenceHaversine (generator line 155, haversine_distance.cpp:53), pair
\* by pair and in the same order, although the names of the four differ, and none
\* before the last; and the answers that were written for the file are as many as its
\* pairs, with the sum where it is looked for.  A file that the tokenizer gives up on,
\* at a minus sign, is not summed at all.
TransfersThePairs == T!Spec

\* A file of clusters is read: it has no character the tokenizer does not know and
\* nowhere to stay for ever, and Pairs has room for its pairs.
ClustersAreRead ==
  method = "cluster" => phase \notin {"exited", "undefined"} /\ ~H!L!AtDeadEnd
=============================================================================
