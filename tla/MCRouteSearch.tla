----------------------------- MODULE MCRouteSearch -----------------------------
(* Maps for model checking RouteSearch and RouteDescription: points with the  *)
(* distances of a grid.  1 2 3 are above 4 5 6, and 7 is behind 6; from 2 to  *)
(* 3 and from 5 to 6 it is twice as far as between the others.                *)
EXTENDS RouteDescription

MCPoints == 1..7

X == <<0, 1, 3, 0, 1, 3, 4>>
Y == <<0, 0, 0, 1, 1, 1, 1>>
Apart(a, b) == IF a < b THEN b - a ELSE a - b
MCDistance == [p \in MCPoints |-> [q \in MCPoints |-> Apart(X[p], X[q]) + Apart(Y[p], Y[q])]]

\* North is 0, east 90; the road from 2 to 3 bends to the right a little.
MCBearing ==
  [p \in MCPoints |-> [q \in MCPoints |->
     LET dx == X[q] - X[p]
         dy == Y[q] - Y[p]
     IN  IF <<p, q>> = <<2, 3>> THEN 98 ELSE IF <<p, q>> = <<3, 2>> THEN -82
         ELSE IF dx > 0 THEN 90 + 45 * dy
         ELSE IF dx < 0 THEN -90 - 45 * dy
         ELSE IF dy > 0 THEN 180 ELSE 0]]

Street(points) == [points |-> points, forward |-> TRUE, backward |-> TRUE, others |-> TRUE,
                   hasAccess |-> TRUE, area |-> FALSE, factor |-> 1,
                   type |-> "street", name |-> "", ref |-> "", bridge |-> FALSE, roundabout |-> FALSE]

\* A street of another kind: one way, for others only in one direction or at all,
\* private, or slow.
Kinds(points) ==
  LET s == Street(points)
  IN  {s, [s EXCEPT !.backward = FALSE, !.others = FALSE], [s EXCEPT !.forward = FALSE],
       [s EXCEPT !.forward = FALSE, !.backward = FALSE], [s EXCEPT !.hasAccess = FALSE],
       [s EXCEPT !.factor = 2]}

\* Ladders, a roundabout with two exits, a long road beside a short one, dead ends,
\* a road that leads back from one end of a street and past the other, and a street that
\* ends where it has come along before.
Ladder     == <<<<1, 2, 3>>, <<4, 5, 6>>, <<1, 4>>, <<3, 6>>>>
Ring       == <<<<1, 2, 5, 4, 1>>, <<3, 2>>, <<4, 6>>, <<6, 3>>>>
Crossroads == <<<<1, 2>>, <<2, 3>>, <<2, 5>>, <<1, 4, 5, 6>>, <<6, 3>>>>
DeadEnds   == <<<<4, 1, 2>>, <<2, 5>>, <<1, 3>>>>
Detour     == <<<<1, 2, 5>>, <<1, 7, 6>>, <<5, 6>>>>
Loop       == <<<<1, 2, 5, 4, 2>>, <<2, 3>>, <<4, 6>>>>

\* Up to two streets are of another kind.
Maps(lines) ==
  LET streets == [k \in DOMAIN lines |-> Street(lines[k])]
  IN  UNION {{[streets EXCEPT ![k] = a, ![l] = b] : a \in Kinds(lines[k]), b \in Kinds(lines[l])} :
               k \in DOMAIN lines, l \in DOMAIN lines}

\* A restriction at a point where its second way begins or ends, as in OpenStreetMap:
\* FillRoutePathExcludes excludes one path along it.
Restrictions(lines, via) ==
  {<<>>} \union
    {<<[allow |-> allow, via |-> via, from |-> f, to |-> t]>> :
       <<allow, f, t>> \in {x \in BOOLEAN \X (DOMAIN lines) \X (DOMAIN lines) :
                              /\ x[2] # x[3]
                              /\ via \in {lines[x[2]][j] : j \in DOMAIN lines[x[2]]}
                              /\ via \in {lines[x[3]][1], lines[x[3]][Len(lines[x[3]])]}}}

\* A restriction is there only when all streets but one are plain.
Plain(m) == Cardinality({k \in DOMAIN m : m[k] # Street(m[k].points)}) <= 1

SearchNetworks ==
  UNION {{[ways |-> m, restrictions |-> <<>>] : m \in Maps(c[1])}
         \union {[ways |-> m, restrictions |-> r] :
                   m \in {n \in Maps(c[1]) : Plain(n)}, r \in Restrictions(c[1], c[2])} :
           c \in {<<Ladder, 3>>, <<Ring, 4>>, <<Crossroads, 2>>, <<DeadEnds, 2>>, <<Detour, 5>>, <<Loop, 4>>}}

\* Maps to describe routes on.  Roundabouts are one way: one with two exits, one
\* of two ways, and two beside each other, with roads of every type.
Circle(points) == [Street(points) EXCEPT !.backward = FALSE, !.others = FALSE, !.roundabout = TRUE]
Road(points)   == {[Street(points) EXCEPT !.type = t] : t \in {"street", "link", "motorway"}}

Roundabouts ==
  {<<[Circle(<<1, 2, 5, 4, 1>>) EXCEPT !.type = t], a, b, c>> :
     t \in {"street", "link"}, a \in Road(<<3, 2>>), b \in Road(<<4, 6>>), c \in Road(<<6, 3>>)}
  \union {<<Circle(<<1, 2, 5>>), Circle(<<5, 4, 1>>), a, b, Street(<<5, 3>>)>> :
            a \in Kinds(<<6, 5>>), b \in Kinds(<<3, 4, 6>>)}
  \union {<<Circle(<<1, 2, 4, 1>>), Circle(<<3, 6, 5, 3>>), a, b>> :
            a \in Kinds(<<2, 3>>), b \in Kinds(<<6, 7>>)}

\* Motorways, their links and streets, in every order.
Motorways ==
  {<<a, b, c, d>> : a \in Road(<<1, 2>>), b \in Road(<<2, 5, 6>>), c \in Road(<<6, 3>>), d \in Road(<<4, 5>>)}

\* Roads that change their name or reference on a bridge or without one.
Named(points) ==
  {[Street(points) EXCEPT !.name = n, !.ref = r, !.bridge = b] :
     n \in {"", "A", "B"}, r \in {"", "R", "S"}, b \in BOOLEAN}

Names ==
  {<<a, b, Street(<<2, 5>>), Street(<<3, 6>>)>> :
     a \in {x \in Named(<<1, 2>>) : ~x.bridge}, b \in Named(<<2, 3>>)}

MCNetworks ==
  SearchNetworks
  \union {[ways |-> m, restrictions |-> <<>>] : m \in Roundabouts \union Motorways \union Names}

\* The forbidden turns of all these maps can be excluded.
ASSUME RestrictionsAssumption == \A n \in MCNetworks : TurnsCanBeExcluded(n)

\* Their roundabouts are of one type, and one leads around from every point of them.
ASSUME RoundaboutsAssumption ==
  \A n \in MCNetworks : RoundaboutsAreOfOneKind(n.ways) /\ RoundaboutsGoAround(n.ways)

==============================================================================
