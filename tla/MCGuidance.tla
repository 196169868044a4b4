------------------------------ MODULE MCGuidance ------------------------------
(***************************************************************************)
(* Two maps of four places: a ring road that goes one way round, and a     *)
(* place that it leads to and that no road leads out of.  Each map lacks   *)
(* something: roads in the one, a graph for pedestrians in the other.      *)
(***************************************************************************)
EXTENDS Guidance

CONSTANTS m1, m2

MCPlaces == {"a", "b", "c", "d"}
MCMaps == {m1, m2}
MCVehicles == {"foot", "car"}

After(p) == CASE p = "a" -> "b" [] p = "b" -> "c" [] OTHER -> "a"

\* Round the ring from one place to another.
Ring(from, to) ==
  IF from = to THEN <<from>>
  ELSE IF After(from) = to THEN <<from, to>>
  ELSE <<from, After(from), to>>

MCPath(map, v, from, to) ==
  IF from = "d" THEN IF to = "d" THEN <<"d">> ELSE <<>>
  ELSE IF to = "d" THEN Append(Ring(from, "a"), "d")
  ELSE Ring(from, to)

MCOnRoad(map, place) == map = m1 \/ place # "c"
MCRouterOpens(map, v) == map = m1 \/ v = "car"

==============================================================================
