------------------------------ MODULE Geometry -------------------------------
(***************************************************************************)
(* What util/Geometry.h says of points and areas.  A point is the pair of  *)
(* its longitude and its latitude; an area is the sequence of its nodes.   *)
(***************************************************************************)
EXTENDS Integers, Sequences

LOCAL INSTANCE FiniteSetsExt
LOCAL INSTANCE SequencesExt

\* Does the edge from a to b cross the line that leaves p to the east?
Crosses(p, a, b) ==
  LET d     == b[2] - a[2]
      left  == (p[1] - a[1]) * d
      right == (b[1] - a[1]) * (p[2] - a[2])
  IN  /\ (a[2] <= p[2] /\ p[2] < b[2]) \/ (b[2] <= p[2] /\ p[2] < a[2])
      /\ IF d > 0 THEN left < right ELSE right < left

\* GetRelationOfPointToArea(): 1 if p is within, -1 if it is outside, 0 if it
\* is one of the area's nodes.
RelationOfPoint(p, points) ==
  LET edges == {i \in DOMAIN points :
                  Crosses(p, points[i], points[IF i = 1 THEN Len(points) ELSE i - 1])}
  IN  IF p \in Range(points) THEN 0
      ELSE IF Cardinality(edges) % 2 = 1 THEN 1 ELSE -1

IsCoordInArea(p, points) == RelationOfPoint(p, points) >= 0

IsAreaCompletelyInArea(a, b) == \A i \in DOMAIN a : RelationOfPoint(a[i], b) >= 0

IsAreaAtLeastPartlyInArea(a, b) == \E i \in DOMAIN a : RelationOfPoint(a[i], b) >= 0

\* The first node of a that is no node of b decides.
IsAreaSubOfArea(a, b) ==
  LET clear == {i \in DOMAIN a : RelationOfPoint(a[i], b) # 0}
  IN  clear # {} /\ RelationOfPoint(a[Min(clear)], b) = 1

\* The numerators of the positions on a and on b, and their denominator.
Positions(a1, a2, b1, b2) ==
  [whole |-> (b2[2] - b1[2]) * (a2[1] - a1[1]) - (b2[1] - b1[1]) * (a2[2] - a1[2]),
   onA   |-> (b2[1] - b1[1]) * (a1[2] - b1[2]) - (b2[2] - b1[2]) * (a1[1] - b1[1]),
   onB   |-> (a2[1] - a1[1]) * (a1[2] - b1[2]) - (a2[2] - a1[2]) * (a1[1] - b1[1])]

\* Is part / whole between 0 and 1?
IsPart(part, whole) == IF whole > 0 THEN 0 <= part /\ part <= whole ELSE whole <= part /\ part <= 0

LinesIntersect(a1, a2, b1, b2) ==
  \E p \in {Positions(a1, a2, b1, b2)} :
    IF {a1, a2} \intersect {b1, b2} # {} THEN TRUE
    ELSE IF p.whole = 0 THEN p.onA = 0 /\ p.onB = 0
    ELSE IsPart(p.onA, p.whole) /\ IsPart(p.onB, p.whole)

\* The first edge may meet two later ones, every other edge one.
AreaIsSimple(points) ==
  LET size == Len(points)
      Meet(i, j) == LinesIntersect(points[i], points[(i % size) + 1],
                                   points[j], points[(j % size) + 1])
  IN  /\ size >= 3
      /\ \A i \in 1..size : Cardinality({j \in (i + 1)..size : Meet(i, j)}) <= (IF i = 1 THEN 2 ELSE 1)

GetBoundingBox(points) ==
  [minX |-> Min({points[i][1] : i \in DOMAIN points}), minY |-> Min({points[i][2] : i \in DOMAIN points}),
   maxX |-> Max({points[i][1] : i \in DOMAIN points}), maxY |-> Max({points[i][2] : i \in DOMAIN points})]

BoxesMeet(a, b) ==
  /\ a.minX <= b.maxX /\ b.minX <= a.maxX
  /\ a.minY <= b.maxY /\ b.minY <= a.maxY

==============================================================================
