------------------------------ MODULE BoundedMap ------------------------------
(***************************************************************************)
(* What a cache promises its users: it has a value for some of the keys,   *)
(* always the one that was set last, and it only forgets a value when it   *)
(* is full, when its capacity shrinks or when it is flushed.  Which value  *)
(* it forgets is left open.                                                *)
(***************************************************************************)
EXTENDS Naturals, FiniteSets

CONSTANTS Keys, Values, Capacities

VARIABLES contents, (* the value of every key that is remembered *)
          capacity,
          answer    (* of the last call: no value, or the value   *)

Remembered == DOMAIN contents

Init ==
  /\ contents = [key \in {} |-> key]
  /\ capacity \in Capacities
  /\ answer = {}

Get(key) ==
  /\ answer' = IF key \in Remembered THEN {contents[key]} ELSE {}
  /\ UNCHANGED <<contents, capacity>>

\* Without any capacity nothing is remembered.
Pass(value) ==
  /\ capacity = 0
  /\ answer' = {value}
  /\ UNCHANGED <<contents, capacity>>

\* A new key takes the place of another if there is no room.
Set(key, value) ==
  /\ capacity > 0
  /\ \E victims \in SUBSET (Remembered \ {key}) :
       /\ Cardinality(victims) = IF key \notin Remembered /\ Cardinality(Remembered) = capacity
                                 THEN 1 ELSE 0
       /\ contents' = [k \in (Remembered \ victims) \union {key} |->
                         IF k = key THEN value ELSE contents[k]]
  /\ answer' = {value}
  /\ UNCHANGED capacity

SetCapacity(n) ==
  /\ \E kept \in SUBSET Remembered :
       /\ Cardinality(kept) = IF Cardinality(Remembered) <= n THEN Cardinality(Remembered)
                              ELSE n
       /\ contents' = [k \in kept |-> contents[k]]
  /\ capacity' = n
  /\ answer' = {}

Clear ==
  /\ contents' = [key \in {} |-> key]
  /\ answer' = {}
  /\ UNCHANGED capacity

Next ==
  \/ \E key \in Keys : Get(key)
  \/ \E value \in Values : Pass(value)
  \/ \E key \in Keys, value \in Values : Set(key, value)
  \/ \E n \in Capacities : SetCapacity(n)
  \/ Clear

Spec == Init /\ [][Next]_<<contents, capacity, answer>>

==============================================================================
