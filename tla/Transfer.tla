------------------------------ MODULE Transfer ------------------------------
(***************************************************************************)
(* What the generator and the program that sums promise together, files,   *)
(* tokens and trees left out: the items of one are taken over by the other *)
(* in their order, after the last was sent; only all of them are summed;   *)
(* and when they are validated, it is with as many answers.                *)
(***************************************************************************)
EXTENDS Integers, Sequences

CONSTANT Item

VARIABLES
  sent, closed,  \* by the sender: the items, and whether there will be no more
  received,
  outcome        \* "none", "summed", or the number of answers found to match

transferVars == <<sent, closed, received, outcome>>

Init == sent = <<>> /\ closed = FALSE /\ received = <<>> /\ outcome = <<"none">>

Send ==
  /\ ~closed
  /\ Len(sent') = Len(sent) + 1
  /\ sent'[Len(sent')] \in Item /\ SubSeq(sent', 1, Len(sent)) = sent
  /\ UNCHANGED <<closed, received, outcome>>

Close ==
  /\ ~closed /\ closed' = TRUE
  /\ UNCHANGED <<sent, received, outcome>>

Receive ==
  /\ closed /\ outcome = <<"none">> /\ Len(received) < Len(sent)
  /\ received' = Append(received, sent[Len(received) + 1])
  /\ UNCHANGED <<sent, closed, outcome>>

\* There may be no answers to validate with.
Sum ==
  /\ closed /\ outcome = <<"none">> /\ received = sent
  /\ outcome' \in {<<"summed">>, <<"matched", Len(sent)>>}
  /\ UNCHANGED <<sent, closed, received>>

\* Nothing has to be received, nor to be summed.
Spec == Init /\ [][Send \/ Close \/ Receive \/ Sum]_transferVars
=============================================================================
