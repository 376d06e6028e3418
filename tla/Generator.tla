------------------------------ MODULE Generator ------------------------------
(***************************************************************************)
(* The program of haversine_distance_json_generator: it writes a file of   *)
(* pairs, spread over the globe or gathered in clusters, and the distances *)
(* of the pairs with their sum.                                            *)
(*                                                                         *)
(* Coordinates are whole degrees, and random numbers any choice within     *)
(* their range; the distance of a pair stands for itself.                  *)
(***************************************************************************)
EXTENDS Integers, Sequences

CONSTANTS
  PairCounts,          \* the values of the first argument
  maxPairCount,        \* 2^34 in the code
  LargestX, LargestY,  \* 180 and 90 in the code
  ClusterDivisor,      \* 64 in the code
  RandomInRange(_, _)  \* what may be drawn between two bounds, in either order

Between(a, b) == (a .. b) \cup (b .. a)

Degrees == -LargestX .. LargestX

ASSUME Sizes ==
  /\ PairCounts \subseteq Nat /\ maxPairCount \in Nat
  /\ LargestX \in Nat /\ LargestY \in Nat /\ ClusterDivisor \in Nat \ {0}
  /\ ClusterDivisor < LargestY /\ LargestY <= LargestX

ASSUME Drawn ==
  \A a, b \in Degrees : RandomInRange(a, b) # {} /\ RandomInRange(a, b) \subseteq Between(a, b)

VARIABLES
  pairCount, method,   \* the arguments
  i,                   \* pairs written
  clusterCountLeft,    \* or Never
  maxAllowedX, maxAllowedY,
  area,                \* xCenter, yCenter, xRadius and yRadius
  pair,                \* the pair last written: x0, y0, x1 and y1
  json,                \* what flexJSON is made of
  answers,             \* doubles written to haverAnswers
  status               \* "opening", "writing", "written", "refused"

vars == <<pairCount, method, i, clusterCountLeft, maxAllowedX, maxAllowedY, area, pair,
          json, answers, status>>

\* UINT64_MAX, from which no run comes down to zero.
Never == -1

More == i < pairCount

\* The first argument and the third, when none of the three is missing; any other
\* method is uniform.
Arguments == pairCount \in PairCounts /\ method \in {"cluster", "uniform"}

Init ==
  /\ Arguments
  /\ i = 0
  /\ clusterCountLeft = IF method = "cluster" THEN 0 ELSE Never
  /\ maxAllowedX = LargestX
  /\ maxAllowedY = LargestY
  /\ area = [xCenter |-> 0, yCenter |-> 0, xRadius |-> LargestX, yRadius |-> LargestY]
  /\ pair = [x0 |-> 0, y0 |-> 0, x1 |-> 0, y1 |-> 0]
  /\ json = <<>>
  /\ answers = 0
  /\ status = "opening"

-----------------------------------------------------------------------------

\* An argument is missing, there are too many pairs, or a file cannot be opened.
Refuse ==
  /\ status = "opening"
  /\ status' = "refused"
  /\ UNCHANGED <<pairCount, method, i, clusterCountLeft, maxAllowedX, maxAllowedY, area,
                 pair, json, answers>>

Begin ==
  /\ status = "opening" /\ pairCount < maxPairCount
  /\ json' = <<"head">>
  /\ status' = "writing"
  /\ UNCHANGED <<pairCount, method, i, clusterCountLeft, maxAllowedX, maxAllowedY, area,
                 pair, answers>>

\* Slip: few pairs make a cluster.
SmallClusterCountMax == 1

clusterCountMax == 1 + (pairCount \div ClusterDivisor)

\* The bound is lowered in one argument and read in the other, before or after.
Center(bound) == RandomInRange(bound - 1, bound - 1) \cup RandomInRange(bound - 1, bound)

\* Slip: the radius is up to the largest there is, whatever the centre.
WideRadius(bound) == RandomInRange(0, LargestX)

Radius(bound) == RandomInRange(0, bound)

NewCluster ==
  /\ clusterCountLeft = 0
  /\ clusterCountLeft' = clusterCountMax
  /\ maxAllowedX' = maxAllowedX - 1
  /\ maxAllowedY' = maxAllowedY - 1
  /\ \E xc \in Center(maxAllowedX), yc \in Center(maxAllowedY),
        xr \in Radius(maxAllowedX'), yr \in Radius(maxAllowedY') :
       area' = [xCenter |-> xc, yCenter |-> yc, xRadius |-> xr, yRadius |-> yr]

SameCluster ==
  /\ clusterCountLeft # 0
  /\ clusterCountLeft' = IF clusterCountLeft = Never THEN Never ELSE clusterCountLeft - 1
  /\ UNCHANGED <<maxAllowedX, maxAllowedY, area>>

\* Slip: the range is not cut off at the bound.
UnboundedDegree(center, radius, maxAllowed) == RandomInRange(center - radius, center + radius)

\* A centre above the bound and a small radius turn the range around.
RandomDegree(center, radius, maxAllowed) ==
  LET min == center - radius
      max == center + radius
  IN RandomInRange(IF min < -maxAllowed THEN -maxAllowed ELSE min,
                   IF max > maxAllowed THEN maxAllowed ELSE max)

\* Slip: the separator is left out before the last pair.
EarlySeparator == IF i + 1 < pairCount - 1 THEN <<",">> ELSE <<>>

Separator == IF i < pairCount - 1 THEN <<",">> ELSE <<>>

WritePair ==
  /\ status = "writing" /\ More
  /\ NewCluster \/ SameCluster
  /\ \E x0, x1 \in RandomDegree(area'.xCenter, area'.xRadius, maxAllowedX'),
        y0, y1 \in RandomDegree(area'.yCenter, area'.yRadius, maxAllowedY') :
       pair' = [x0 |-> x0, y0 |-> y0, x1 |-> x1, y1 |-> y1]
  /\ json' = Append(json, "pair") \o Separator
  /\ answers' = answers + 1
  /\ i' = i + 1
  /\ UNCHANGED <<pairCount, method, status>>

\* The sum is the last of the answers.
Finish ==
  /\ status = "writing" /\ ~ More
  /\ json' = Append(json, "tail")
  /\ answers' = answers + 1
  /\ status' = "written"
  /\ UNCHANGED <<pairCount, method, i, clusterCountLeft, maxAllowedX, maxAllowedY, area, pair>>

Next == Refuse \/ Begin \/ WritePair \/ Finish

Spec == Init /\ [][Next]_vars

-----------------------------------------------------------------------------
(***************************************************************************)
(* Properties.                                                             *)
(***************************************************************************)

\* However many pairs there are, there are too few clusters to lower the bounds to
\* zero: the number of pairs to a cluster grows with them (lines 127 and 143).
BoundsStayPositive == maxAllowedX > 0 /\ maxAllowedY > 0

\* Every pair is on the globe, also when the centre of its cluster is above the
\* bound that RandomDegree is given.
OnTheGlobe ==
  /\ pair.x0 \in Degrees /\ pair.x1 \in Degrees
  /\ pair.y0 \in -LargestY .. LargestY /\ pair.y1 \in -LargestY .. LargestY

\* No coordinate in a cluster is negative: a centre is never nearer to zero than
\* its radius is long.  A file of clusters can so be read by lexer(), which knows
\* no minus sign (tokenizer.cpp:220).
ClustersNotNegative ==
  method = "cluster" => pair.x0 >= 0 /\ pair.x1 >= 0 /\ pair.y0 >= 0 /\ pair.y1 >= 0

\* A file that is written is a list: pairCount pairs, a separator between two and
\* none after the last, and as many answers and their sum.
AList ==
  status = "written" =>
    /\ json = [k \in 1 .. IF pairCount = 0 THEN 2 ELSE 2 * pairCount + 1 |->
                 IF k = 1 THEN "head"
                 ELSE IF k > 2 * pairCount THEN "tail"
                 ELSE IF k % 2 = 0 THEN "pair" ELSE ","]
    /\ answers = pairCount + 1
=============================================================================
