--------------------------- MODULE Generator_proofs ---------------------------
(***************************************************************************)
(* For any number of pairs and any globe: the bounds of the coordinates    *)
(* stay positive, every pair is on the globe, no cluster has a negative    *)
(* coordinate, and the file that is written is a list of the pairs.        *)
(***************************************************************************)
EXTENDS Generator, SequenceTheorems, TLAPS

\* Clusters begun.
clusters == LargestX - maxAllowedX

CountersInv ==
  /\ pairCount \in Nat /\ i \in Nat /\ i <= pairCount
  /\ method \in {"cluster", "uniform"}
  /\ maxAllowedX \in Int /\ maxAllowedY \in Int
  /\ clusters \in Nat
  /\ maxAllowedY = LargestY - clusters

\* All clusters but the last have clusterCountMax + 1 pairs, and the last has
\* clusterCountLeft to go.
ClustersInv ==
  IF method = "uniform"
  THEN clusterCountLeft = Never /\ clusters = 0
  ELSE /\ clusterCountLeft \in 0 .. clusterCountMax
       /\ clusters * (clusterCountMax + 1) = i + clusterCountLeft

\* Where a cluster may lie; the bounds themselves are only bounds from below.
AreaInv ==
  IF method = "uniform" \/ clusters = 0
  THEN /\ area.xCenter = 0 /\ area.xRadius = LargestX
       /\ area.yCenter = 0 /\ area.yRadius = LargestY
  ELSE /\ area.xCenter \in maxAllowedX .. maxAllowedX + 1
       /\ area.yCenter \in maxAllowedY .. maxAllowedY + 1
       /\ area.xRadius \in 0 .. maxAllowedX
       /\ area.yRadius \in 0 .. maxAllowedY

IInv == CountersInv /\ ClustersInv

-----------------------------------------------------------------------------
(***************************************************************************)
(* The arithmetic of the clusters.                                         *)
(***************************************************************************)

\* clusterCountMax * ClusterDivisor exceeds the number of pairs.
LEMMA DivisionRoundsDown ==
  ASSUME NEW p \in Nat, NEW d \in Nat \ {0}
  PROVE  p \div d \in Nat /\ p < d * (1 + (p \div d))
<1> DEFINE q == p \div d
<1>1. /\ q \in Nat /\ p = (d * q) + (p % d) /\ p % d < d
  BY SMT
<1>2. d * (1 + q) = d + d * q
  BY <1>1, SMT
<1> QED BY <1>1, <1>2

\* There are no more clusters than ClusterDivisor.
LEMMA FewClusters ==
  ASSUME NEW p \in Nat, NEW d \in Nat \ {0}, NEW c \in Nat, NEW m \in Nat,
         p < d * m, c * (m + 1) <= p + m
  PROVE  c <= d
<1> SUFFICES ASSUME c >= d + 1 PROVE FALSE
  OBVIOUS
<1>1. c * (m + 1) >= (d + 1) * (m + 1)
  BY SMT
<1>2. (d + 1) * (m + 1) = d * m + d + m + 1
  BY SMT
<1>3. d * m \in Nat /\ (d + 1) * (m + 1) \in Nat /\ c * (m + 1) \in Nat
  BY SMT
<1> QED BY <1>1, <1>2, <1>3, SMT

-----------------------------------------------------------------------------
(***************************************************************************)
(* The bounds.                                                             *)
(***************************************************************************)

LEMMA InitIInv == Init => IInv
<1> SUFFICES ASSUME Init PROVE IInv
  OBVIOUS
<1>1. CountersInv
  BY Sizes DEF Init, Arguments, CountersInv, clusters
<1>2. clusterCountMax \in Nat
  BY DivisionRoundsDown, Sizes DEF CountersInv, clusterCountMax, Init, Arguments
<1>3. ClustersInv
  <2>1. CASE method = "uniform"
    BY <2>1, Sizes DEF Init, Arguments, ClustersInv, clusters
  <2>2. CASE method = "cluster"
    <3>1. i = 0 /\ clusterCountLeft = 0 /\ clusters = 0
      BY <2>2, Sizes DEF Init, Arguments, clusters
    <3> QED BY <1>2, <2>2, <3>1 DEF ClustersInv
  <2> QED BY <2>1, <2>2 DEF Init, Arguments
<1> QED BY <1>1, <1>3 DEF IInv

\* clusterCountMax is fixed, and there are fewer pairs than ClusterDivisor times as many.
LEMMA ManyPairsToACluster ==
  CountersInv => clusterCountMax \in Nat /\ pairCount < ClusterDivisor * clusterCountMax
BY DivisionRoundsDown, Sizes DEF CountersInv, clusterCountMax

LEMMA PositiveFromIInv == IInv => clusters <= ClusterDivisor /\ BoundsStayPositive
<1> SUFFICES ASSUME IInv PROVE clusters <= ClusterDivisor /\ BoundsStayPositive
  OBVIOUS
<1>1. clusters <= ClusterDivisor
  <2>1. CASE method = "uniform"
    BY <2>1, Sizes DEF IInv, ClustersInv
  <2>2. CASE method # "uniform"
    <3> DEFINE m == clusterCountMax
    <3>1. clusters \in Nat /\ m \in Nat /\ pairCount < ClusterDivisor * m /\ pairCount \in Nat
      BY ManyPairsToACluster DEF IInv, CountersInv
    <3>2. clusters * (m + 1) <= pairCount + m
      BY <2>2, <3>1 DEF IInv, CountersInv, ClustersInv
    <3> HIDE DEF m
    <3> QED BY <3>1, <3>2, FewClusters, Sizes
  <2> QED BY <2>1, <2>2
<1> QED BY <1>1, Sizes DEF IInv, CountersInv, BoundsStayPositive, clusters

LEMMA NextIInv == IInv /\ [Next]_vars => IInv'
<1> SUFFICES ASSUME IInv, [Next]_vars PROVE IInv'
  OBVIOUS
<1> USE DEF IInv
<1>1. CASE WritePair
  <2> USE <1>1 DEF WritePair, More
  <2>1. pairCount' = pairCount /\ method' = method /\ i' = i + 1 /\ i' <= pairCount
    BY DEF CountersInv
  <2>2. clusterCountMax' = clusterCountMax /\ clusterCountMax \in Nat
    BY <2>1, ManyPairsToACluster DEF clusterCountMax
  <2>3. CASE NewCluster
    <3>1. /\ clusterCountLeft = 0 /\ clusterCountLeft' = clusterCountMax
          /\ method = "cluster"
          /\ maxAllowedX' = maxAllowedX - 1 /\ maxAllowedY' = maxAllowedY - 1
      BY <2>3 DEF NewCluster, ClustersInv, CountersInv, Never
    <3>2. clusters' = clusters + 1 /\ CountersInv'
      BY <2>1, <3>1, Sizes DEF CountersInv, clusters
    <3>3. ClustersInv'
      <4> DEFINE m == clusterCountMax + 1
      <4>1. clusters * m = i /\ clusters \in Nat /\ m \in Nat
        BY <2>2, <3>1 DEF ClustersInv, CountersInv
      <4>2. (clusters + 1) * m = (clusters * m) + m
        BY <4>1
      <4>3. clusters' * (clusterCountMax' + 1) = i' + clusterCountLeft'
        BY <2>1, <2>2, <3>1, <3>2, <4>1, <4>2 DEF CountersInv
      <4> QED BY <2>1, <2>2, <3>1, <4>3 DEF ClustersInv
    <3> QED BY <3>2, <3>3
  <2>4. CASE SameCluster
    <3>1. clusters' = clusters /\ CountersInv'
      BY <2>1, <2>4 DEF SameCluster, CountersInv, clusters
    <3>2. ClustersInv'
      <4>1. CASE method = "uniform"
        BY <2>1, <2>4, <3>1, <4>1 DEF SameCluster, ClustersInv
      <4>2. CASE method # "uniform"
        <5>1. /\ clusterCountLeft \in 1 .. clusterCountMax
              /\ clusterCountLeft' = clusterCountLeft - 1
          BY <2>4, <4>2, <2>2 DEF SameCluster, ClustersInv, Never
        <5>2. i' + clusterCountLeft' = i + clusterCountLeft
          BY <2>1, <2>2, <5>1 DEF CountersInv
        <5> QED BY <2>1, <2>2, <3>1, <4>2, <5>1, <5>2 DEF ClustersInv
      <4> QED BY <4>1, <4>2
    <3> QED BY <3>1, <3>2
  <2> QED BY <2>3, <2>4
<1>2. CASE UNCHANGED <<pairCount, method, i, clusterCountLeft, maxAllowedX, maxAllowedY>>
  BY <1>2 DEF CountersInv, ClustersInv, clusters, clusterCountMax
<1> QED BY <1>1, <1>2 DEF Next, Refuse, Begin, Finish, vars

LEMMA AlwaysIInv == Spec => []IInv
BY InitIInv, NextIInv, PTL DEF Spec

\* The bounds of the coordinates never come down to zero, for any number of pairs:
\* there are no more clusters than ClusterDivisor, which is less than both bounds
\* (lines 127 and 140-144).
THEOREM BoundsPositive == Spec => []BoundsStayPositive
BY AlwaysIInv, PositiveFromIInv, PTL

-----------------------------------------------------------------------------
(***************************************************************************)
(* The coordinates.                                                        *)
(***************************************************************************)

\* A degree is no lower than the bound, no higher than the bound or the centre,
\* and not negative if the radius is no longer than the centre.
LEMMA DegreeDrawn ==
  ASSUME NEW center \in 0 .. LargestX, NEW radius \in 0 .. LargestX,
         NEW m \in 0 .. LargestX, NEW x \in RandomDegree(center, radius, m)
  PROVE  /\ x \in Int /\ -m <= x
         /\ x <= m \/ x <= center
         /\ radius <= center => x >= 0
<1> DEFINE lo == IF center - radius < -m THEN -m ELSE center - radius
           hi == IF center + radius > m THEN m ELSE center + radius
<1>1. /\ lo \in Int /\ -m <= lo /\ lo <= center
      /\ hi \in Int /\ 0 <= hi /\ hi <= m
      /\ radius <= center => lo >= 0
  BY Sizes
<1>2. lo \in Degrees /\ hi \in Degrees
  BY <1>1, Sizes DEF Degrees
<1>3. x \in RandomInRange(lo, hi)
  BY DEF RandomDegree
<1> HIDE DEF lo, hi
<1>4. x \in (lo .. hi) \cup (hi .. lo)
  BY <1>2, <1>3, Drawn DEF Between
<1> QED BY <1>1, <1>4, Sizes

PairInv == OnTheGlobe /\ ClustersNotNegative

GlobeInv == IInv /\ AreaInv /\ PairInv

LEMMA InitGlobeInv == Init => GlobeInv
<1> SUFFICES ASSUME Init PROVE GlobeInv
  OBVIOUS
<1>1. clusters = 0
  BY Sizes DEF Init, Arguments, clusters
<1>2. AreaInv
  BY <1>1 DEF Init, Arguments, AreaInv
<1>3. PairInv
  BY Sizes DEF Init, Arguments, PairInv, OnTheGlobe, ClustersNotNegative, Degrees
<1> QED BY InitIInv, <1>2, <1>3 DEF GlobeInv

\* A cluster lies where its bounds, just lowered, let it.
LEMMA ClusterLies ==
  ASSUME IInv, IInv', WritePair, NewCluster
  PROVE  AreaInv'
<1>1. /\ maxAllowedX' = maxAllowedX - 1 /\ maxAllowedY' = maxAllowedY - 1
      /\ method' = method /\ clusterCountLeft = 0
  BY DEF WritePair, NewCluster
<1>2. /\ maxAllowedX \in Int /\ maxAllowedY \in Int
      /\ maxAllowedX' > 0 /\ maxAllowedY' > 0
      /\ maxAllowedX <= LargestX /\ maxAllowedY <= LargestY
      /\ clusters' # 0
  <2>1. BoundsStayPositive'
    BY PositiveFromIInv, PTL
  <2> QED BY <1>1, <2>1, Sizes DEF IInv, CountersInv, clusters, BoundsStayPositive
<1>3. method' # "uniform"
  BY <1>1 DEF IInv, ClustersInv, Never
<1>4. /\ {maxAllowedX, maxAllowedX - 1, maxAllowedY, maxAllowedY - 1, 0} \subseteq Degrees
  BY <1>1, <1>2, Sizes DEF Degrees
<1>5. /\ Center(maxAllowedX) \subseteq maxAllowedX' .. maxAllowedX' + 1
      /\ Center(maxAllowedY) \subseteq maxAllowedY' .. maxAllowedY' + 1
  <2>1. ASSUME NEW b \in Int, b \in Degrees, b - 1 \in Degrees
        PROVE  Center(b) \subseteq b - 1 .. b
    <3>1. /\ RandomInRange(b - 1, b - 1) \subseteq Between(b - 1, b - 1)
          /\ RandomInRange(b - 1, b) \subseteq Between(b - 1, b)
      BY <2>1, Drawn
    <3>2. Between(b - 1, b - 1) \subseteq b - 1 .. b /\ Between(b - 1, b) \subseteq b - 1 .. b
      BY DEF Between
    <3> QED BY <3>1, <3>2 DEF Center
  <2> QED BY <1>1, <1>2, <1>4, <2>1
<1>6. /\ Radius(maxAllowedX') \subseteq 0 .. maxAllowedX'
      /\ Radius(maxAllowedY') \subseteq 0 .. maxAllowedY'
  <2>1. ASSUME NEW b \in Int, b \in Degrees, b > 0
        PROVE  Radius(b) \subseteq 0 .. b
    <3>1. RandomInRange(0, b) \subseteq Between(0, b)
      BY <1>4, <2>1, Drawn
    <3>2. Between(0, b) \subseteq 0 .. b
      BY <2>1 DEF Between
    <3> QED BY <3>1, <3>2 DEF Radius
  <2>2. maxAllowedX' \in Int /\ maxAllowedY' \in Int
    BY <1>1, <1>2
  <2> QED BY <1>1, <1>2, <1>4, <2>1, <2>2
<1>7. /\ area'.xCenter \in Center(maxAllowedX) /\ area'.yCenter \in Center(maxAllowedY)
      /\ area'.xRadius \in Radius(maxAllowedX') /\ area'.yRadius \in Radius(maxAllowedY')
  BY DEF NewCluster
<1> QED BY <1>2, <1>3, <1>5, <1>6, <1>7 DEF AreaInv

\* The pair last written was drawn within the area there is.
PairDrawn ==
  /\ i > 0
  /\ \A x \in {pair.x0, pair.x1} : x \in RandomDegree(area.xCenter, area.xRadius, maxAllowedX)
  /\ \A y \in {pair.y0, pair.y1} : y \in RandomDegree(area.yCenter, area.yRadius, maxAllowedY)

\* A pair drawn within an area is on the globe, and not negative in a cluster.
LEMMA PairLies == IInv /\ AreaInv /\ PairDrawn => PairInv
<1> SUFFICES ASSUME IInv, AreaInv, PairDrawn PROVE PairInv
  OBVIOUS
<1>1. /\ maxAllowedX \in 0 .. LargestX /\ maxAllowedY \in 0 .. LargestY
      /\ clusters # 0 => maxAllowedX + 1 <= LargestX /\ maxAllowedY + 1 <= LargestY
  BY PositiveFromIInv, Sizes DEF IInv, CountersInv, clusters, BoundsStayPositive
<1>2. /\ area.xCenter \in 0 .. LargestX /\ area.xRadius \in 0 .. LargestX
      /\ area.yCenter \in 0 .. LargestY /\ area.yRadius \in 0 .. LargestY
  BY <1>1, Sizes DEF AreaInv
<1>3. method = "cluster" =>
        area.xRadius <= area.xCenter /\ area.yRadius <= area.yCenter
  <2> SUFFICES ASSUME method = "cluster"
               PROVE  area.xRadius <= area.xCenter /\ area.yRadius <= area.yCenter
    OBVIOUS
  <2>1. clusters # 0
    <3>1. /\ clusterCountMax \in Nat /\ i \in Nat /\ i > 0 /\ clusterCountLeft \in Nat
          /\ clusters * (clusterCountMax + 1) = i + clusterCountLeft
      BY ManyPairsToACluster DEF IInv, CountersInv, ClustersInv, PairDrawn
    <3>2. 0 * (clusterCountMax + 1) = 0
      BY <3>1
    <3> QED BY <3>1, <3>2
  <2> QED BY <1>1, <2>1 DEF AreaInv
<1>4. ASSUME NEW x \in {pair.x0, pair.x1}
      PROVE  /\ x \in Int /\ -LargestX <= x /\ x <= LargestX
             /\ area.xRadius <= area.xCenter => x >= 0
  BY <1>1, <1>2, DegreeDrawn, Sizes DEF PairDrawn
<1>5. ASSUME NEW y \in {pair.y0, pair.y1}
      PROVE  /\ y \in Int /\ -LargestY <= y /\ y <= LargestY
             /\ area.yRadius <= area.yCenter => y >= 0
  <2>1. /\ area.yCenter \in 0 .. LargestX /\ area.yRadius \in 0 .. LargestX
        /\ maxAllowedY \in 0 .. LargestX
    BY <1>1, <1>2, Sizes
  <2>2. /\ y \in Int /\ -maxAllowedY <= y
        /\ y <= maxAllowedY \/ y <= area.yCenter
        /\ area.yRadius <= area.yCenter => y >= 0
    BY <2>1, DegreeDrawn DEF PairDrawn
  <2> QED BY <1>1, <1>2, <2>2, Sizes
<1>6. OnTheGlobe
  BY <1>4, <1>5, Sizes DEF OnTheGlobe, Degrees
<1>7. ClustersNotNegative
  BY <1>3, <1>4, <1>5 DEF ClustersNotNegative
<1> QED BY <1>6, <1>7 DEF PairInv

LEMMA NextGlobeInv == GlobeInv /\ [Next]_vars => GlobeInv'
<1> SUFFICES ASSUME GlobeInv, [Next]_vars PROVE GlobeInv'
  OBVIOUS
<1> USE DEF GlobeInv
<1>1. IInv'
  BY NextIInv
<1>2. CASE WritePair
  <2>1. AreaInv'
    <3>1. CASE NewCluster
      BY <1>1, <1>2, <3>1, ClusterLies
    <3>2. CASE SameCluster
      BY <1>2, <3>2 DEF WritePair, SameCluster, AreaInv, clusters
    <3> QED BY <1>2, <3>1, <3>2 DEF WritePair
  <2>2. PairDrawn'
    <3>1. i' > 0
      BY <1>2 DEF IInv, CountersInv, WritePair
    <3> QED BY <1>2, <3>1 DEF WritePair, PairDrawn
  <2>3. (IInv /\ AreaInv /\ PairDrawn => PairInv)'
    BY PairLies, PTL
  <2> QED BY <1>1, <2>1, <2>2, <2>3
<1>3. CASE UNCHANGED <<method, maxAllowedX, maxAllowedY, area, pair>>
  BY <1>1, <1>3 DEF AreaInv, clusters, PairInv, OnTheGlobe, ClustersNotNegative
<1> QED BY <1>2, <1>3 DEF Next, Refuse, Begin, Finish, vars

LEMMA AlwaysGlobeInv == Spec => []GlobeInv
BY InitGlobeInv, NextGlobeInv, PTL DEF Spec

\* Every pair is on the globe (RandomDegree, lines 81-97, and its calls).
THEOREM PairsOnTheGlobe == Spec => []OnTheGlobe
<1>1. GlobeInv => OnTheGlobe
  BY DEF GlobeInv, PairInv
<1> QED BY <1>1, AlwaysGlobeInv, PTL

\* No pair of a cluster has a negative coordinate (lines 143-152): lexer() can read
\* every number that is written.
THEOREM NoNegativeCluster == Spec => []ClustersNotNegative
<1>1. GlobeInv => ClustersNotNegative
  BY DEF GlobeInv, PairInv
<1> QED BY <1>1, AlwaysGlobeInv, PTL

-----------------------------------------------------------------------------
(***************************************************************************)
(* The file.                                                               *)
(***************************************************************************)

Parts == {"head", "pair", ",", "tail"}

\* What the k-th part of a whole file is.
Part(k) ==
  IF k = 1 THEN "head"
  ELSE IF k > 2 * pairCount THEN "tail"
  ELSE IF k % 2 = 0 THEN "pair" ELSE ","

\* The parts there are with i pairs written: after the last there is no separator.
PartsSoFar == IF i < pairCount \/ pairCount = 0 THEN 2 * i + 1 ELSE 2 * i

\* What is written is the beginning of the file.
FileInv ==
  /\ status = "opening" => i = 0 /\ answers = 0
  /\ status = "writing" =>
       /\ json \in Seq(Parts) /\ Len(json) = PartsSoFar
       /\ \A k \in 1 .. Len(json) : json[k] = Part(k)
       /\ answers = i
  /\ AList

\* One part more.
LEMMA OnePartMore ==
  ASSUME NEW s \in Seq(Parts), NEW n \in Nat, Len(s) = n, NEW part \in Parts
  PROVE  /\ Append(s, part) \in Seq(Parts) /\ Len(Append(s, part)) = n + 1
         /\ Append(s, part)[n + 1] = part
         /\ \A k \in 1 .. n : Append(s, part)[k] = s[k]
         /\ \A k \in 1 .. n + 1 : k \in 1 .. n \/ k = n + 1
<1>1. /\ Append(s, part) \in Seq(Parts) /\ Len(Append(s, part)) = Len(s) + 1
      /\ Append(s, part)[Len(s) + 1] = part
      /\ \A k \in 1 .. Len(s) : Append(s, part)[k] = s[k]
  BY AppendProperties
<1>2. \A k \in 1 .. n + 1 : k \in 1 .. n \/ k = n + 1
  OBVIOUS
<1> QED
  BY <1>1, <1>2

LEMMA WritePairKeeps == ASSUME IInv, FileInv, WritePair PROVE FileInv'
<1>1. /\ i \in Nat /\ pairCount \in Nat /\ i < pairCount /\ i' = i + 1 /\ pairCount' = pairCount
      /\ status = "writing" /\ status' = "writing"
  BY DEF IInv, CountersInv, WritePair, More
<1>2. json \in Seq(Parts) /\ Len(json) = 2 * i + 1 /\ \A k \in 1 .. 2 * i + 1 : json[k] = Part(k)
  BY <1>1 DEF FileInv, PartsSoFar
<1> DEFINE written == Append(json, "pair")
<1>3. /\ written \in Seq(Parts) /\ Len(written) = 2 * i + 2
      /\ \A k \in 1 .. 2 * i + 2 : written[k] = Part(k)
  <2>1. Part(2 * i + 2) = "pair"
    BY <1>1 DEF Part
  <2>2. written \in Seq(Parts) /\ Len(written) = 2 * i + 2 /\ written[2 * i + 2] = "pair"
        /\ \A k \in 1 .. 2 * i + 1 : written[k] = json[k]
    <3>1. 2 * i + 1 \in Nat /\ (2 * i + 1) + 1 = 2 * i + 2
      BY <1>1
    <3>2. "pair" \in Parts /\ json \in Seq(Parts) /\ Len(json) = 2 * i + 1
      BY <1>2 DEF Parts
    <3>3. /\ written \in Seq(Parts) /\ Len(written) = (2 * i + 1) + 1
          /\ written[(2 * i + 1) + 1] = "pair" /\ \A k \in 1 .. 2 * i + 1 : written[k] = json[k]
      <4> HIDE DEF Parts
      <4> QED
        BY <3>1, <3>2, OnePartMore
    <3> QED
      BY <3>1, <3>3
  <2>3. \A k \in 1 .. 2 * i + 2 : k \in 1 .. 2 * i + 1 \/ k = 2 * i + 2
    BY <1>1
  <2> QED
    BY <1>2, <2>1, <2>2, <2>3
<1>4. json' = written \o Separator
  BY DEF WritePair
<1>5. \A k : Part(k)' = Part(k)
  BY <1>1 DEF Part
<1> HIDE DEF written
<1>6. /\ json' \in Seq(Parts) /\ Len(json') = PartsSoFar'
      /\ \A k \in 1 .. Len(json') : json'[k] = Part(k)
  <2>1. CASE i < pairCount - 1
    <3>1. Separator = <<",">> /\ PartsSoFar' = 2 * i + 3 /\ Part(2 * i + 3) = ","
      <4>1. Separator = <<",">>
        BY <2>1 DEF Separator
      <4>2. PartsSoFar' = 2 * i + 3
        BY <1>1, <2>1 DEF PartsSoFar
      <4>3. 2 * i + 3 # 1 /\ ~(2 * i + 3 > 2 * pairCount) /\ (2 * i + 3) % 2 # 0
        BY <1>1, <2>1
      <4> QED
        BY <4>1, <4>2, <4>3 DEF Part
    <3>2. json' = written \o <<",">>
      BY <1>4, <3>1
    <3>3. /\ json' \in Seq(Parts) /\ Len(json') = 2 * i + 3 /\ json'[2 * i + 3] = ","
          /\ \A k \in 1 .. 2 * i + 2 : json'[k] = written[k]
      <4>1. 2 * i + 2 \in Nat /\ (2 * i + 2) + 1 = 2 * i + 3
        BY <1>1
      <4>2. "," \in Parts
        BY DEF Parts
      <4>3. /\ Append(written, ",") \in Seq(Parts) /\ Len(Append(written, ",")) = (2 * i + 2) + 1
            /\ Append(written, ",")[(2 * i + 2) + 1] = ","
            /\ \A k \in 1 .. 2 * i + 2 : Append(written, ",")[k] = written[k]
        <5>1. written \in Seq(Parts) /\ Len(written) = 2 * i + 2 /\ 2 * i + 2 \in Nat
          BY <1>3, <4>1
        <5> HIDE DEF Parts
        <5> QED
          BY <4>2, <5>1, OnePartMore
      <4>4. written \o <<",">> = Append(written, ",")
        BY <1>3, <4>2, AppendIsConcat
      <4> QED
        BY <3>2, <4>1, <4>3, <4>4
    <3>4. \A k \in 1 .. 2 * i + 3 : k \in 1 .. 2 * i + 2 \/ k = 2 * i + 3
      BY <1>1
    <3> QED
      BY <1>3, <3>1, <3>3, <3>4
  <2>2. CASE ~(i < pairCount - 1)
    <3>1. Separator = <<>> /\ PartsSoFar' = 2 * i + 2
      BY <1>1, <2>2 DEF Separator, PartsSoFar
    <3>2. json' = written
      BY <1>3, <1>4, <3>1
    <3> QED
      BY <1>3, <3>1, <3>2
  <2> QED
    BY <2>1, <2>2
<1>7. answers' = i'
  BY <1>1 DEF FileInv, WritePair
<1> QED
  BY <1>1, <1>5, <1>6, <1>7 DEF FileInv, AList

LEMMA FinishKeeps == ASSUME IInv, FileInv, Finish PROVE FileInv'
<1>1. /\ i \in Nat /\ pairCount = i /\ pairCount' = pairCount
      /\ status = "writing" /\ status' = "written"
  BY DEF IInv, CountersInv, Finish, More
<1> DEFINE n == IF pairCount = 0 THEN 2 ELSE 2 * pairCount + 1
<1>2. json \in Seq(Parts) /\ Len(json) = n - 1 /\ \A k \in 1 .. n - 1 : json[k] = Part(k)
  BY <1>1 DEF FileInv, PartsSoFar
<1>3. n \in Nat /\ n > 1 /\ Part(n) = "tail"
  BY <1>1 DEF Part
<1> HIDE DEF n
<1>4. json' = Append(json, "tail")
  BY DEF Finish
<1>5. /\ json' \in Seq(Parts) /\ Len(json') = n /\ json'[n] = "tail"
      /\ \A k \in 1 .. n - 1 : json'[k] = json[k]
  <2>1. n - 1 \in Nat /\ (n - 1) + 1 = n
    BY <1>3
  <2>2. "tail" \in Parts
    BY DEF Parts
  <2>3. /\ Append(json, "tail") \in Seq(Parts) /\ Len(Append(json, "tail")) = (n - 1) + 1
        /\ Append(json, "tail")[(n - 1) + 1] = "tail"
        /\ \A k \in 1 .. n - 1 : Append(json, "tail")[k] = json[k]
    BY <1>2, <2>1, <2>2, OnePartMore
  <2> QED
    BY <1>4, <2>1, <2>3
<1>6. \A k \in 1 .. n : json'[k] = Part(k)
  <2>1. \A k \in 1 .. n : k \in 1 .. n - 1 \/ k = n
    BY <1>3
  <2> QED
    BY <1>2, <1>3, <1>5, <2>1
<1>7. json' = [k \in 1 .. n |-> Part(k)]
  BY <1>5, <1>6
<1>8. answers' = pairCount + 1
  BY <1>1 DEF FileInv, Finish
<1> QED
  BY <1>1, <1>7, <1>8 DEF FileInv, AList, Part, n

LEMMA FileAlways == Spec => [](IInv /\ FileInv)
<1>1. Init => FileInv
  BY DEF Init, Arguments, FileInv, AList
<1>2. ASSUME IInv, FileInv, [Next]_vars PROVE FileInv'
  <2>1. CASE Begin
    <3>1. /\ i' = 0 /\ pairCount' \in Nat /\ answers' = 0 /\ status' = "writing"
          /\ json' = <<"head">>
      BY <1>2, <2>1 DEF Begin, FileInv, IInv, CountersInv
    <3>2. PartsSoFar' = 1 /\ Part(1)' = "head"
      BY <3>1 DEF PartsSoFar, Part
    <3>3. json' \in Seq(Parts) /\ Len(json') = 1 /\ \A k \in 1 .. 1 : json'[k] = "head"
      BY <3>1 DEF Parts
    <3>4. \A k \in 1 .. Len(json') : json'[k] = Part(k)'
      <4>1. \A k \in 1 .. 1 : k = 1
        OBVIOUS
      <4> QED
        BY <3>2, <3>3, <4>1
    <3> QED
      BY <3>1, <3>2, <3>3, <3>4 DEF FileInv, AList
  <2>2. CASE Refuse \/ UNCHANGED vars
    BY <1>2, <2>2 DEF Refuse, vars, FileInv, AList, PartsSoFar, Part
  <2> QED
    BY <1>2, <2>1, <2>2, WritePairKeeps, FinishKeeps DEF Next
<1> QED
  BY <1>1, <1>2, AlwaysIInv, PTL DEF Spec

\* However many pairs are asked for, the file is a list of as many, with a separator
\* wherever there are two and none at the end, and the answers file has as many and
\* their sum (main, lines 135 to 171).
THEOREM FileIsAList == Spec => []AList
<1>1. FileInv => AList
  BY DEF FileInv
<1> QED BY <1>1, FileAlways, PTL
=============================================================================
